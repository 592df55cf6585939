--------------------------- MODULE ProposalsProofs ---------------------------
(***************************************************************************)
(* Proofs about Proposals, for any callers, documents, catalogue, targets  *)
(* and bounds: the types, with the bound on what lands; that the quota is  *)
(* exceeded by no more than the calls judged together and the ones a crash *)
(* kept from the journal; that the moment a proposer is told to wait for   *)
(* is late enough; that init reads a book as the signer does; and that a   *)
(* change somebody was allowed to propose is not called outside the        *)
(* document because the catalogue lost a number, nor for more than what it *)
(* moves because the portfolio's row did.                                  *)
(*                                                                         *)
(* First the sums the rules are made of, then the rules, then the steps.   *)
(***************************************************************************)
EXTENDS Proposals, FiniteSetTheorems, WellFoundedInduction, TLAPS

(***************************************************************************)
(* A sum over a finite set, as the library defines it: the term of the     *)
(* member chosen, and the sum over the rest.                               *)
(***************************************************************************)
One(s) == CHOOSE x \in s : TRUE
Adds(f, g, S) == f = [s \in SUBSET S |-> IF s = {} THEN 0 ELSE g[One(s)] + f[s \ {One(s)}]]

LEMMA LeastNat ==
  ASSUME NEW T \in SUBSET Nat, T # {}
  PROVE  \E x \in T : \A y \in T : x <= y
<1>. DEFINE R == OpToRel(<, Nat)
<1>1. IsWellFoundedOn(R, Nat)
  BY NatLessThanWellFounded
<1>2. \A x, y \in Nat : y < x => <<y, x>> \in R
  BY DEF OpToRel
<1>. HIDE DEF R
<1>3. PICK x \in T : \A y \in T : ~ (<<y, x>> \in R)
  BY <1>1, WFMin
<1>4. \A y \in T : ~ (y < x)
  BY <1>2, <1>3
<1>5. QED
  BY <1>4

(* A set of subsets of a finite set has a smallest member.                 *)
LEMMA SmallestSet ==
  ASSUME NEW S, IsFiniteSet(S), NEW B \in SUBSET SUBSET S, B # {}
  PROVE  \E s \in B : \A t \in B : ~(t \subseteq s /\ t # s)
<1>. DEFINE N == {Cardinality(s) : s \in B}
<1>1. \A s \in SUBSET S : IsFiniteSet(s) /\ Cardinality(s) \in Nat
  BY FS_Subset, FS_CardinalityType
<1>2. N \in SUBSET Nat /\ N # {}
  BY <1>1
<1>3. PICK n \in N : \A m \in N : n <= m
  <2>. HIDE DEF N
  <2>. QED
    BY <1>2, LeastNat
<1>4. PICK s \in B : n = Cardinality(s)
  OBVIOUS
<1>5. ASSUME NEW t \in B, t \subseteq s, t # s PROVE FALSE
  <2>1. Cardinality(t) <= Cardinality(s) /\ Cardinality(s) # Cardinality(t)
    BY <1>1, <1>5, FS_Subset
  <2>2. Cardinality(s) <= Cardinality(t)
    BY <1>3, <1>4
  <2>. QED
    BY <1>1, <2>1, <2>2
<1>. QED
  BY <1>4, <1>5

(* A sum over a finite set exists, built up by the size of the subsets.    *)
LEMMA SumExists ==
  ASSUME NEW S, IsFiniteSet(S), NEW g
  PROVE  \E f : Adds(f, g, S)
<1>. DEFINE Low(n) == {s \in SUBSET S : Cardinality(s) <= n}
            Term(f, s) == IF s = {} THEN 0 ELSE g[One(s)] + f[s \ {One(s)}]
            Builds(f, n) == f = [s \in Low(n) |-> Term(f, s)]
            B == {n \in Nat : ~ \E f : Builds(f, n)}
<1>1. \A s \in SUBSET S : IsFiniteSet(s) /\ Cardinality(s) \in Nat /\ Cardinality(s) <= Cardinality(S)
  BY FS_Subset, FS_CardinalityType
<1>2. \A n \in Nat : \A s \in Low(n) : s # {} => n # 0 /\ s \ {One(s)} \in Low(n - 1)
  <2>. SUFFICES ASSUME NEW n \in Nat, NEW s \in SUBSET S, Cardinality(s) <= n, s # {}
                PROVE  n # 0 /\ s \ {One(s)} \in Low(n - 1)
    OBVIOUS
  <2>1. One(s) \in s
    BY DEF One
  <2>2. Cardinality(s \ {One(s)}) = Cardinality(s) - 1
    BY <1>1, <2>1, FS_RemoveElement
  <2>3. Cardinality(s \ {One(s)}) \in Nat
    BY <1>1
  <2>. QED
    BY <1>1, <2>2, <2>3
<1>3. B = {}
  <2>. SUFFICES ASSUME B # {} PROVE FALSE
    OBVIOUS
  <2>1. PICK n \in B : \A m \in B : n <= m
    <3>1. B \in SUBSET Nat
      OBVIOUS
    <3>. HIDE DEF B
    <3>. QED
      BY <3>1, LeastNat
  <2>. HIDE DEF Low
  <2>2. PICK e : n = 0 \/ Builds(e, n - 1)
    <3>1. ASSUME n # 0 PROVE n - 1 \in Nat /\ n - 1 \notin B
      <4>0. n \in Nat
        OBVIOUS
      <4>. HIDE DEF B
      <4>1. n - 1 \in Nat /\ ~(n <= n - 1)
        BY <3>1, <4>0
      <4>. QED
        BY <2>1, <4>1
    <3>. HIDE DEF Builds
    <3>. QED
      BY <3>1
  <2>. DEFINE f == [s \in Low(n) |-> Term(e, s)]
  <2>3. ASSUME NEW s \in Low(n) PROVE Term(f, s) = Term(e, s)
    <3>. DEFINE t == s \ {One(s)}
    <3>. SUFFICES ASSUME s # {} PROVE f[t] = e[t]
      OBVIOUS
    <3>1. n # 0 /\ t \in Low(n - 1)
      BY <1>2
    <3>2. Builds(e, n - 1)
      BY <2>2, <3>1
    <3>4. t \in Low(n)
      BY <1>1, <3>1 DEF Low
    <3>3. e[t] = Term(e, t)
      BY <3>1, <3>2
    <3>. QED
      BY <3>3, <3>4
  <2>4. Builds(f, n)
    BY <2>3
  <2>. QED
    BY <2>1, <2>4
<1>4. Low(Cardinality(S)) = SUBSET S /\ Cardinality(S) \in Nat
  BY <1>1
<1>5. PICK f : Builds(f, Cardinality(S))
  BY <1>3, <1>4
<1>. QED
  BY <1>4, <1>5 DEF Adds

LEMMA SumOpens ==
  ASSUME NEW S, NEW g, NEW f, Adds(f, g, S)
  PROVE  /\ f[{}] = 0
         /\ \A s \in SUBSET S : s # {} => One(s) \in s /\ f[s] = g[One(s)] + f[s \ {One(s)}]
BY DEF Adds, One

LEMMA SumIsNat ==
  ASSUME NEW S, IsFiniteSet(S), NEW g, \A x \in S : g[x] \in Nat, NEW f, Adds(f, g, S)
  PROVE  \A s \in SUBSET S : f[s] \in Nat
<1>. DEFINE B == {s \in SUBSET S : f[s] \notin Nat}
<1>. SUFFICES ASSUME B # {} PROVE FALSE
  OBVIOUS
<1>1. PICK s \in B : \A t \in B : ~(t \subseteq s /\ t # s)
  <2>1. B \in SUBSET SUBSET S
    OBVIOUS
  <2>. HIDE DEF B
  <2>. QED
    BY <2>1, SmallestSet
<1>2. s # {} /\ One(s) \in s /\ f[s] = g[One(s)] + f[s \ {One(s)}]
  <2>1. f[{}] = 0 /\ (s # {} => One(s) \in s /\ f[s] = g[One(s)] + f[s \ {One(s)}])
    BY SumOpens
  <2>2. s # {}
    BY <2>1
  <2>. QED
    BY <2>1, <2>2
<1>3. f[s \ {One(s)}] \in Nat
  BY <1>1, <1>2
<1>. QED
  BY <1>2, <1>3

(* The order in which the elements are taken does not matter.              *)
LEMMA SumTakesAny ==
  ASSUME NEW S, IsFiniteSet(S), NEW g, \A x \in S : g[x] \in Nat, NEW f, Adds(f, g, S)
  PROVE  \A s \in SUBSET S : \A x \in s : f[s] = g[x] + f[s \ {x}]
<1>. DEFINE B == {s \in SUBSET S : \E x \in s : f[s] # g[x] + f[s \ {x}]}
<1>. SUFFICES ASSUME B # {} PROVE FALSE
  OBVIOUS
<1>1. PICK s \in B : \A t \in B : ~(t \subseteq s /\ t # s)
  <2>1. B \in SUBSET SUBSET S
    OBVIOUS
  <2>. HIDE DEF B
  <2>. QED
    BY <2>1, SmallestSet
<1>2. PICK x \in s : f[s] # g[x] + f[s \ {x}]
  OBVIOUS
<1>. DEFINE y == One(s)
<1>3. y \in s /\ f[s] = g[y] + f[s \ {y}]
  BY SumOpens
<1>4. y # x
  BY <1>2, <1>3
<1>5. \A t \in SUBSET s : t # s => \A z \in t : f[t] = g[z] + f[t \ {z}]
  BY <1>1
<1>. HIDE DEF y, B
<1>6. f[s \ {y}] = g[x] + f[(s \ {y}) \ {x}]
  <2>1. x \in s \ {y} /\ s \ {y} # s
    BY <1>3, <1>4
  <2>. QED
    BY <1>5, <2>1
<1>7. f[s \ {x}] = g[y] + f[(s \ {x}) \ {y}]
  <2>1. y \in s \ {x} /\ s \ {x} # s
    BY <1>3, <1>4
  <2>. QED
    BY <1>5, <2>1
<1>8. (s \ {y}) \ {x} = (s \ {x}) \ {y}
  OBVIOUS
<1>9. s \in SUBSET S
  BY <1>1 DEF B
<1>10. g[x] \in Nat /\ g[y] \in Nat /\ f[(s \ {x}) \ {y}] \in Nat
  BY <1>3, <1>9, SumIsNat
<1>11. g[y] + (g[x] + f[(s \ {x}) \ {y}]) = g[x] + (g[y] + f[(s \ {x}) \ {y}])
  BY <1>10
<1>. QED
  BY <1>2, <1>3, <1>6, <1>7, <1>8, <1>11

(* What is covered by two sets sums up to no more than they do.            *)
LEMMA SumCovered ==
  ASSUME NEW A, IsFiniteSet(A), NEW B, IsFiniteSet(B), NEW C, C \subseteq A \union B,
         NEW g, \A x \in A \union B : g[x] \in Nat,
         NEW h, \A x \in C : h[x] \in Nat /\ h[x] <= g[x],
         NEW a, Adds(a, g, A), NEW b, Adds(b, g, B), NEW c, Adds(c, h, C)
  PROVE  c[C] <= a[A] + b[B]
<1>0. IsFiniteSet(C)
  BY FS_Union, FS_Subset
<1>. DEFINE Bad == {s \in SUBSET C : \E t \in SUBSET A, u \in SUBSET B :
                      s \subseteq t \union u /\ ~(c[s] <= a[t] + b[u])}
<1>. SUFFICES ASSUME Bad # {} PROVE FALSE
  OBVIOUS
<1>1. PICK s \in Bad : \A t \in Bad : ~(t \subseteq s /\ t # s)
  <2>1. Bad \in SUBSET SUBSET C
    OBVIOUS
  <2>. HIDE DEF Bad
  <2>. QED
    BY <1>0, <2>1, SmallestSet
<1>2. PICK t \in SUBSET A, u \in SUBSET B : s \subseteq t \union u /\ ~(c[s] <= a[t] + b[u])
  OBVIOUS
<1>3. \A r \in SUBSET s, v \in SUBSET A, w \in SUBSET B :
        r # s /\ r \subseteq v \union w => c[r] <= a[v] + b[w]
  BY <1>1
<1>4. s \in SUBSET C
  BY <1>1
<1>. HIDE DEF Bad
<1>5. /\ \A v \in SUBSET A : a[v] \in Nat /\ \A x \in v : a[v] = g[x] + a[v \ {x}]
      /\ \A v \in SUBSET B : b[v] \in Nat /\ \A x \in v : b[v] = g[x] + b[v \ {x}]
  BY SumIsNat, SumTakesAny
<1>6. /\ \A v \in SUBSET C : c[v] \in Nat /\ \A x \in v : c[v] = h[x] + c[v \ {x}]
  BY <1>0, SumIsNat, SumTakesAny
<1>7. c[{}] = 0
  BY SumOpens
<1>8. s # {}
  <2>1. a[t] \in Nat /\ b[u] \in Nat
    BY <1>5
  <2>2. 0 <= a[t] + b[u]
    BY <2>1
  <2>. QED
    BY <1>2, <1>7, <2>2
<1>9. PICK x \in s : TRUE
  BY <1>8
<1>10. /\ c[s] = h[x] + c[s \ {x}] /\ c[s \ {x}] \in Nat /\ h[x] \in Nat /\ g[x] \in Nat
       /\ h[x] <= g[x] /\ a[t] \in Nat /\ b[u] \in Nat
  BY <1>4, <1>5, <1>6
<1>11. CASE x \in t
  <2>1. c[s \ {x}] <= a[t \ {x}] + b[u]
    <3>1. s \ {x} # s /\ s \ {x} \subseteq (t \ {x}) \union u
      BY <1>2, <1>9
    <3>. QED
      BY <1>3, <3>1
  <2>2. a[t] = g[x] + a[t \ {x}] /\ a[t \ {x}] \in Nat
    BY <1>5, <1>11
  <2>. QED
    BY <1>2, <1>10, <2>1, <2>2
<1>12. CASE x \notin t
  <2>1. c[s \ {x}] <= a[t] + b[u \ {x}]
    <3>1. s \ {x} # s /\ s \ {x} \subseteq t \union (u \ {x})
      BY <1>2, <1>9
    <3>. QED
      BY <1>3, <3>1
  <2>2. b[u] = g[x] + b[u \ {x}] /\ b[u \ {x}] \in Nat
    BY <1>2, <1>5, <1>9, <1>12
  <2>. QED
    BY <1>2, <1>10, <2>1, <2>2
<1>. QED
  BY <1>11, <1>12

LEMMA SumOfNothing ==
  ASSUME NEW S, IsFiniteSet(S), NEW g, \A x \in S : g[x] = 0, NEW f, Adds(f, g, S)
  PROVE  f[S] = 0
<1>. DEFINE B == {s \in SUBSET S : f[s] # 0}
<1>. SUFFICES ASSUME B # {} PROVE FALSE
  OBVIOUS
<1>2. PICK s \in B : \A t \in B : ~(t \subseteq s /\ t # s)
  <2>1. B \in SUBSET SUBSET S
    OBVIOUS
  <2>. HIDE DEF B
  <2>. QED
    BY <2>1, SmallestSet
<1>3. s # {} /\ One(s) \in s /\ f[s] = g[One(s)] + f[s \ {One(s)}]
  <2>1. s \in SUBSET S
    OBVIOUS
  <2>. HIDE DEF B
  <2>3. f[{}] = 0 /\ (s # {} => One(s) \in s /\ f[s] = g[One(s)] + f[s \ {One(s)}])
    BY SumOpens, <2>1
  <2>2. s # {}
    BY <2>3 DEF B
  <2>. QED
    BY <2>2, <2>3
<1>4. f[s \ {One(s)}] = 0
  BY <1>2, <1>3
<1>. QED
  BY <1>3, <1>4
-----------------------------------------------------------------------------
(***************************************************************************)
(* The weights of a target set, and what a change of targets costs.        *)
(***************************************************************************)
LEMMA WeightSums ==
  ASSUME NEW targets, NEW pools, IsFiniteSet(pools)
  PROVE  \E f : Adds(f, targets, pools) /\ Weight(targets, pools) = f[pools]
<1>. DEFINE f == CHOOSE f : Adds(f, targets, pools)
<1>1. Adds(f, targets, pools)
  BY SumExists
<1>2. Weight(targets, pools) = f[pools]
  BY DEF Weight, MapThenSumSet, MapThenFoldSet, Adds, One
<1>. QED
  BY <1>1, <1>2

LEMMA WeightCovered ==
  ASSUME NEW targets, IsFiniteSet(DOMAIN targets), \A p \in DOMAIN targets : targets[p] \in Nat,
         NEW A \in SUBSET DOMAIN targets, NEW B \in SUBSET DOMAIN targets,
         NEW C \in SUBSET (A \union B)
  PROVE  /\ Weight(targets, A) \in Nat /\ Weight(targets, B) \in Nat /\ Weight(targets, C) \in Nat
         /\ Weight(targets, C) <= Weight(targets, A) + Weight(targets, B)
<1>1. IsFiniteSet(A) /\ IsFiniteSet(B) /\ IsFiniteSet(C)
  BY FS_Subset
<1>2. PICK a : Adds(a, targets, A) /\ Weight(targets, A) = a[A]
  BY <1>1, WeightSums
<1>3. PICK b : Adds(b, targets, B) /\ Weight(targets, B) = b[B]
  BY <1>1, WeightSums
<1>4. PICK c : Adds(c, targets, C) /\ Weight(targets, C) = c[C]
  BY <1>1, WeightSums
<1>5. a[A] \in Nat /\ b[B] \in Nat /\ c[C] \in Nat
  BY <1>1, <1>2, <1>3, <1>4, SumIsNat
<1>6. \A p \in C : targets[p] \in Nat /\ targets[p] <= targets[p]
  OBVIOUS
<1>7. c[C] <= a[A] + b[B]
  BY <1>1, <1>2, <1>3, <1>4, <1>6, SumCovered
<1>. QED
  BY <1>2, <1>3, <1>4, <1>5, <1>7

LEMMA WeightGrows ==
  ASSUME NEW targets, IsFiniteSet(DOMAIN targets), \A p \in DOMAIN targets : targets[p] \in Nat,
         NEW A \in SUBSET DOMAIN targets, NEW C \in SUBSET A
  PROVE  /\ Weight(targets, A) \in Nat /\ Weight(targets, C) \in Nat
         /\ Weight(targets, C) <= Weight(targets, A)
<1>1. Weight(targets, {}) = 0
  <2>1. PICK f : Adds(f, targets, {}) /\ Weight(targets, {}) = f[{}]
    BY FS_EmptySet, WeightSums
  <2>. QED
    BY <2>1, SumOpens
<1>2. {} \in SUBSET DOMAIN targets /\ C \in SUBSET (A \union {})
  OBVIOUS
<1>3. /\ Weight(targets, A) \in Nat /\ Weight(targets, C) \in Nat
      /\ Weight(targets, C) <= Weight(targets, A) + Weight(targets, {})
  BY <1>2, WeightCovered
<1>. QED
  BY <1>1, <1>3

Price(targets, rows, view, pools) ==
  MapThenSumSet(LAMBDA p : Moved(targets, view, p) * Loss(rows, p), pools)

LEMMA PriceSums ==
  ASSUME NEW targets, NEW rows, NEW view, NEW S, IsFiniteSet(S)
  PROVE  LET g == [p \in S |-> Moved(targets, view, p) * Loss(rows, p)]
         IN  \E f : Adds(f, g, S) /\ Price(targets, rows, view, S) = f[S]
<1>. DEFINE Term(p) == Moved(targets, view, p) * Loss(rows, p)
            g == [p \in S |-> Term(p)]
            Sums(f) == f = [s \in SUBSET S |-> IF s = {} THEN 0 ELSE Term(One(s)) + f[s \ {One(s)}]]
            f == CHOOSE f : Sums(f)
<1>1. Price(targets, rows, view, S) = f[S]
  BY DEF Price, MapThenSumSet, MapThenFoldSet, One
<1>. HIDE DEF Term
<1>2. ASSUME NEW e PROVE Sums(e) <=> Adds(e, g, S)
  <2>1. \A s \in SUBSET S : s # {} => g[One(s)] = Term(One(s))
    BY DEF One
  <2>2. [s \in SUBSET S |-> IF s = {} THEN 0 ELSE Term(One(s)) + e[s \ {One(s)}]]
         = [s \in SUBSET S |-> IF s = {} THEN 0 ELSE g[One(s)] + e[s \ {One(s)}]]
    BY <2>1
  <2>. QED
    BY <2>2 DEF Adds
<1>3. Sums(f)
  BY <1>2, SumExists
<1>4. Adds(f, g, S) /\ Price(targets, rows, view, S) = f[S]
  BY <1>1, <1>2, <1>3
<1>. HIDE DEF f
<1>. QED
  BY <1>4 DEF Term

LEMMA PriceGrows ==
  ASSUME NEW targets, NEW first, NEW second, NEW view,
         NEW S, IsFiniteSet(S), NEW R \in SUBSET S,
         \A p \in S : Moved(targets, view, p) \in Nat /\ Loss(second, p) \in Nat,
         \A p \in R : Loss(first, p) \in Nat /\ Loss(first, p) <= Loss(second, p)
  PROVE  /\ Price(targets, first, view, R) \in Nat /\ Price(targets, second, view, S) \in Nat
         /\ Price(targets, first, view, R) <= Price(targets, second, view, S)
<1>. DEFINE g == [p \in S |-> Moved(targets, view, p) * Loss(second, p)]
            h == [p \in R |-> Moved(targets, view, p) * Loss(first, p)]
<1>1. IsFiniteSet(R) /\ IsFiniteSet({})
  BY FS_Subset, FS_EmptySet
<1>2. PICK a : Adds(a, g, S) /\ Price(targets, second, view, S) = a[S]
  BY PriceSums
<1>3. PICK c : Adds(c, h, R) /\ Price(targets, first, view, R) = c[R]
  BY <1>1, PriceSums
<1>4. PICK b : Adds(b, g, {})
  BY <1>1, SumExists
<1>5. /\ \A p \in S : g[p] \in Nat
      /\ \A p \in R : h[p] \in Nat /\ h[p] <= g[p]
  <2>1. \A m, l, k \in Nat : /\ m * l \in Nat
                            /\ l <= k => m * l <= m * k
    BY Z3
  <2>. QED
    BY <2>1
<1>. HIDE DEF g, h
<1>6. a[S] \in Nat /\ c[R] \in Nat /\ b[{}] = 0
  BY <1>1, <1>2, <1>3, <1>4, <1>5, SumIsNat, SumOpens
<1>7. R \subseteq S \union {} /\ \A p \in S \union {} : g[p] \in Nat
  BY <1>5
<1>8. c[R] <= a[S] + b[{}]
  BY <1>1, <1>2, <1>3, <1>4, <1>5, <1>7, SumCovered
<1>. QED
  BY <1>2, <1>3, <1>6, <1>8

MovedIn(targets, view, pools) == MapThenSumSet(LAMBDA p : Moved(targets, view, p), pools)

LEMMA NothingMoves ==
  ASSUME NEW targets, NEW view, NEW S, IsFiniteSet(S), \A p \in S : Moved(targets, view, p) = 0
  PROVE  MovedIn(targets, view, S) = 0
<1>. DEFINE Term(p) == Moved(targets, view, p)
            g == [p \in S |-> Term(p)]
            Sums(f) == f = [s \in SUBSET S |-> IF s = {} THEN 0 ELSE Term(One(s)) + f[s \ {One(s)}]]
            f == CHOOSE f : Sums(f)
<1>1. MovedIn(targets, view, S) = f[S]
  BY DEF MovedIn, MapThenSumSet, MapThenFoldSet, One
<1>2. \A p \in S : Term(p) = 0
  OBVIOUS
<1>. HIDE DEF Term
<1>3. ASSUME NEW e PROVE Sums(e) <=> Adds(e, g, S)
  <2>1. \A s \in SUBSET S : s # {} => g[One(s)] = Term(One(s))
    BY DEF One
  <2>2. [s \in SUBSET S |-> IF s = {} THEN 0 ELSE Term(One(s)) + e[s \ {One(s)}]]
         = [s \in SUBSET S |-> IF s = {} THEN 0 ELSE g[One(s)] + e[s \ {One(s)}]]
    BY <2>1
  <2>. QED
    BY <2>2 DEF Adds
<1>4. Adds(f, g, S)
  BY <1>3, SumExists
<1>5. \A p \in S : g[p] = 0
  BY <1>2
<1>. HIDE DEF f, g
<1>. QED
  BY <1>1, <1>4, <1>5, SumOfNothing
-----------------------------------------------------------------------------
(***************************************************************************)
(* What it takes to be accepted, and what a lost number can and cannot do. *)
(***************************************************************************)
Fits(doc, row) ==
  /\ row.listed /\ row.chain /\ row.active /\ row.allowed
  /\ row.tier # Unknown /\ ~(row.tier > doc.maxTier)
  /\ row.loss # Unknown /\ ~(row.loss > doc.maxLoss)

Priced(targets, rows, view) == {p \in Trades(targets, view) : Loss(rows, p) # Unknown}
MovedInAll(targets, view) == MovedIn(targets, view, DOMAIN targets \union DOMAIN view.legs)

Passes(doc, targets, rows, view) ==
  /\ \A p \in DOMAIN targets : Fits(doc, rows[p])
  /\ ~(Cardinality(DOMAIN targets) < doc.minLegs)
  /\ ~(Cardinality(DOMAIN targets) > doc.maxLegs)
  /\ view.known /\ ~(Cardinality(DOMAIN targets \union DOMAIN view.legs) > doc.pageLimit)
  /\ \A p \in DOMAIN targets :
       ~(targets[p] < doc.minLeg) /\ ~(targets[p] > Cap(doc, rows[p]))
  /\ ~(InCategory(targets, rows, StablePools) < doc.stableMin)
  /\ ~(InCategory(targets, rows, StablePools) > doc.stableMax)
  /\ \A p \in DOMAIN targets :
       ~(InCategory(targets, rows, CategoryOf[p]) > doc.categoryMax)
  /\ Weight(targets, DOMAIN targets) = doc.sum
  /\ ~(MovedInAll(targets, view) > 2 * doc.maxTurnover)
  /\ ~(Price(targets, rows, view, Priced(targets, rows, view)) > doc.maxCost)
  /\ Priced(targets, rows, view) = Trades(targets, view)

LEMMA Whens == \A c, r : When(c, r) = {} <=> ~c
  BY DEF When

LEMMA UniversePasses ==
  ASSUME NEW doc, NEW row
  PROVE  Universe(doc, row) = {} <=> Fits(doc, row)
<1>. DEFINE w1 == When(~row.chain, Breach("CHAIN_DENIED"))
            w2 == When(~row.active, Breach("POOL_NOT_ACTIVE"))
            w3 == When(~row.allowed, Breach("POOL_DENIED"))
            w4 == When(row.tier = Unknown, Gap("POOL_DENIED"))
            w5 == When(row.tier > doc.maxTier, Breach("POOL_DENIED"))
            w6 == When(row.loss = Unknown, Gap("POOL_COST_TOO_HIGH"))
            w7 == When(row.loss > doc.maxLoss, Breach("POOL_COST_TOO_HIGH"))
<1>1. /\ w1 = {} <=> row.chain
      /\ w2 = {} <=> row.active
      /\ w3 = {} <=> row.allowed
      /\ w4 = {} <=> row.tier # Unknown
      /\ w5 = {} <=> ~(row.tier > doc.maxTier)
      /\ w6 = {} <=> row.loss # Unknown
      /\ w7 = {} <=> ~(row.loss > doc.maxLoss)
  BY Whens
<1>2. Universe(doc, row) =
        IF ~row.listed THEN {Gap("POOL_DENIED")}
        ELSE w1 \union w2 \union w3 \union w4 \union w5 \union w6 \union w7
  BY DEF Universe
<1>. HIDE DEF w1, w2, w3, w4, w5, w6, w7
<1>. QED
  BY <1>1, <1>2 DEF Fits

LEMMA PassesTargets ==
  ASSUME NEW doc, NEW targets, NEW rows, NEW view, doc.maxCost \in Int,
         Price(targets, rows, view, Priced(targets, rows, view)) \in Int
  PROVE  EvaluateTargets(doc, targets, rows, view) = {} <=>
         Passes(doc, targets, rows, view)
<1>. DEFINE stable == InCategory(targets, rows, StablePools)
            below  == stable < doc.stableMin
            might  == stable + Uncategorised(targets, rows) >= doc.stableMin
            over   == stable > doc.stableMax
            cost   == Price(targets, rows, view, Priced(targets, rows, view))
            legs   == Cardinality(DOMAIN targets)
            page   == Cardinality(DOMAIN targets \union DOMAIN view.legs) > doc.pageLimit
            weights == \E p \in DOMAIN targets :
                         targets[p] < doc.minLeg \/ targets[p] > Cap(doc, rows[p])
            category == \E p \in DOMAIN targets :
                          InCategory(targets, rows, CategoryOf[p]) > doc.categoryMax
            sum    == Weight(targets, DOMAIN targets) # doc.sum
            turns  == MovedInAll(targets, view) > 2 * doc.maxTurnover
            whole  == Priced(targets, rows, view) = Trades(targets, view)
<1>1. StableBand(doc, targets, rows) = {} <=> ~below /\ ~over
  <2>1. StableBand(doc, targets, rows) =
          When(below /\ might, Gap("STABLE_BAND"))
          \union When(below /\ ~might, Breach("STABLE_BAND"))
          \union When(over, Breach("STABLE_BAND"))
    BY DEF StableBand
  <2>. HIDE DEF below, might, over
  <2>. QED
    BY <2>1, Whens
<1>2. CostCap(doc, targets, rows, view) = {} <=> ~(cost > doc.maxCost) /\ whole
  <2>1. CostCap(doc, targets, rows, view) =
          When(cost > doc.maxCost, Breach("COST_CAP"))
          \union When(cost <= doc.maxCost /\ ~whole, Gap("COST_CAP"))
    BY DEF CostCap, Price, Priced
  <2>2. cost <= doc.maxCost <=> ~(cost > doc.maxCost)
    <3>. HIDE DEF cost
    <3>1. cost \in Int
      BY DEF cost
    <3>. QED
      BY <3>1
  <2>. HIDE DEF cost, whole
  <2>. QED
    BY <2>1, <2>2, Whens
<1>3. Turnover(doc, targets, rows, view) = {} <=>
        ~view.known \/ (~turns /\ ~(cost > doc.maxCost) /\ whole)
  <2>1. Turnover(doc, targets, rows, view) =
          IF ~view.known THEN {}
          ELSE When(turns, Breach("TURNOVER_CAP")) \union CostCap(doc, targets, rows, view)
    BY DEF Turnover, MovedInAll, MovedIn
  <2>. HIDE DEF cost, whole, turns
  <2>. QED
    BY <1>2, <2>1, Whens
<1>4. Shape(doc, targets, rows, view) = {} <=>
        /\ ~(legs < doc.minLegs) /\ ~(legs > doc.maxLegs) /\ view.known /\ ~page
        /\ ~weights /\ ~below /\ ~over /\ ~category /\ ~sum
  <2>1. Shape(doc, targets, rows, view) =
          When(legs < doc.minLegs, Breach("MIN_LEGS"))
          \union When(legs > doc.maxLegs, Breach("MAX_LEGS"))
          \union When(view.known /\ page, Breach("PAGE_LIMIT"))
          \union When(~view.known, Gap("INPUTS_INCOMPLETE"))
          \union When(weights, Breach("LEG_WEIGHT_CAP"))
          \union StableBand(doc, targets, rows)
          \union When(category, Breach("CATEGORY_CAP"))
          \union When(sum, Breach("WEIGHTS_SUM"))
    BY DEF Shape
  <2>2. /\ When(legs < doc.minLegs, Breach("MIN_LEGS")) = {} <=> ~(legs < doc.minLegs)
        /\ When(legs > doc.maxLegs, Breach("MAX_LEGS")) = {} <=> ~(legs > doc.maxLegs)
        /\ When(view.known /\ page, Breach("PAGE_LIMIT")) = {} <=> ~(view.known /\ page)
        /\ When(~view.known, Gap("INPUTS_INCOMPLETE")) = {} <=> view.known
        /\ When(weights, Breach("LEG_WEIGHT_CAP")) = {} <=> ~weights
        /\ When(category, Breach("CATEGORY_CAP")) = {} <=> ~category
        /\ When(sum, Breach("WEIGHTS_SUM")) = {} <=> ~sum
    BY Whens
  <2>. HIDE DEF legs, page, weights, category, sum, below, over
  <2>. QED
    BY <1>1, <2>1, <2>2
<1>5. (UNION {Universe(doc, rows[p]) : p \in DOMAIN targets}) = {} <=>
        \A p \in DOMAIN targets : Fits(doc, rows[p])
  BY UniversePasses
<1>6. EvaluateTargets(doc, targets, rows, view) = {} <=>
        /\ (UNION {Universe(doc, rows[p]) : p \in DOMAIN targets}) = {}
        /\ Shape(doc, targets, rows, view) = {}
        /\ Turnover(doc, targets, rows, view) = {}
  BY DEF EvaluateTargets
<1>7. Passes(doc, targets, rows, view) <=>
        /\ \A p \in DOMAIN targets : Fits(doc, rows[p])
        /\ ~(legs < doc.minLegs) /\ ~(legs > doc.maxLegs) /\ view.known /\ ~page
        /\ ~weights /\ ~below /\ ~over /\ ~category /\ ~sum
        /\ ~turns /\ ~(cost > doc.maxCost) /\ whole
  BY DEF Passes
<1>. HIDE DEF legs, page, weights, category, sum, below, over, cost, whole, turns
<1>. QED
  BY <1>3, <1>4, <1>5, <1>6, <1>7

(* Only what is missing is refused.                                        *)
OnlyGaps(refusals) == \A r \in refusals : r.gap

LEMMA GapsAre ==
  \A c, code : OnlyGaps(When(c, Gap(code))) /\ (~c => OnlyGaps(When(c, Breach(code))))
  BY DEF OnlyGaps, When, Gap

LEMMA GapsOnly ==
  ASSUME NEW doc, NEW targets, NEW rows, NEW view,
         \A p \in DOMAIN targets : ~rows[p].listed \/
           /\ rows[p].chain /\ rows[p].active /\ rows[p].allowed
           /\ ~(rows[p].tier > doc.maxTier) /\ ~(rows[p].loss > doc.maxLoss),
         ~(Cardinality(DOMAIN targets) < doc.minLegs),
         ~(Cardinality(DOMAIN targets) > doc.maxLegs),
         ~(Cardinality(DOMAIN targets \union DOMAIN view.legs) > doc.pageLimit),
         \A p \in DOMAIN targets :
           ~(targets[p] < doc.minLeg) /\ ~(targets[p] > Cap(doc, rows[p])),
         \/ InCategory(targets, rows, StablePools) + Uncategorised(targets, rows)
              >= doc.stableMin
         \/ ~(InCategory(targets, rows, StablePools) < doc.stableMin),
         ~(InCategory(targets, rows, StablePools) > doc.stableMax),
         \A p \in DOMAIN targets :
           ~(InCategory(targets, rows, CategoryOf[p]) > doc.categoryMax),
         Weight(targets, DOMAIN targets) = doc.sum,
         ~(MovedInAll(targets, view) > 2 * doc.maxTurnover),
         ~(Price(targets, rows, view, Priced(targets, rows, view)) > doc.maxCost)
  PROVE  OnlyGaps(EvaluateTargets(doc, targets, rows, view))
<1>. DEFINE stable == InCategory(targets, rows, StablePools)
            below  == stable < doc.stableMin
            might  == stable + Uncategorised(targets, rows) >= doc.stableMin
            over   == stable > doc.stableMax
            cost   == Price(targets, rows, view, Priced(targets, rows, view))
            legs   == Cardinality(DOMAIN targets)
            page   == Cardinality(DOMAIN targets \union DOMAIN view.legs) > doc.pageLimit
            weights == \E p \in DOMAIN targets :
                         targets[p] < doc.minLeg \/ targets[p] > Cap(doc, rows[p])
            category == \E p \in DOMAIN targets :
                          InCategory(targets, rows, CategoryOf[p]) > doc.categoryMax
            sum    == Weight(targets, DOMAIN targets) # doc.sum
            turns  == MovedInAll(targets, view) > 2 * doc.maxTurnover
            whole  == Priced(targets, rows, view) = Trades(targets, view)
            short  == legs < doc.minLegs
            long   == legs > doc.maxLegs
            dear   == cost > doc.maxCost
            cheap  == cost <= doc.maxCost /\ ~whole
<1>1. /\ ~short /\ ~long /\ ~page /\ ~weights /\ ~(below /\ ~might) /\ ~over /\ ~category /\ ~sum
      /\ ~turns /\ ~dear
  OBVIOUS
<1>2. StableBand(doc, targets, rows) =
        When(below /\ might, Gap("STABLE_BAND")) \union When(below /\ ~might, Breach("STABLE_BAND"))
        \union When(over, Breach("STABLE_BAND"))
  BY DEF StableBand
<1>3. Turnover(doc, targets, rows, view) =
        IF ~view.known THEN {}
        ELSE When(turns, Breach("TURNOVER_CAP"))
             \union (When(dear, Breach("COST_CAP")) \union When(cheap, Gap("COST_CAP")))
  BY DEF Turnover, MovedInAll, MovedIn, CostCap, Price, Priced
<1>4. Shape(doc, targets, rows, view) =
        When(short, Breach("MIN_LEGS"))
        \union When(long, Breach("MAX_LEGS"))
        \union When(view.known /\ page, Breach("PAGE_LIMIT"))
        \union When(~view.known, Gap("INPUTS_INCOMPLETE"))
        \union When(weights, Breach("LEG_WEIGHT_CAP"))
        \union StableBand(doc, targets, rows)
        \union When(category, Breach("CATEGORY_CAP"))
        \union When(sum, Breach("WEIGHTS_SUM"))
  BY DEF Shape
<1>5. ASSUME NEW p \in DOMAIN targets PROVE OnlyGaps(Universe(doc, rows[p]))
  BY DEF Universe, OnlyGaps, When, Gap
<1>. HIDE DEF short, long, page, weights, category, sum, below, might, over, turns, dear, cheap
<1>6. OnlyGaps(Turnover(doc, targets, rows, view))
  BY <1>1, <1>3, GapsAre DEF OnlyGaps
<1>7. OnlyGaps(StableBand(doc, targets, rows))
  BY <1>1, <1>2, GapsAre DEF OnlyGaps
<1>8. OnlyGaps(Shape(doc, targets, rows, view))
  BY <1>1, <1>4, <1>7, GapsAre DEF OnlyGaps
<1>. QED
  BY <1>5, <1>6, <1>8 DEF EvaluateTargets, OnlyGaps
-----------------------------------------------------------------------------
(***************************************************************************)
(* What the constants give: numbers of a document, rows and target sets.   *)
(***************************************************************************)
LEMMA NumbersAre ==
  ASSUME NEW doc \in Documents
  PROVE  /\ doc.maxTier \in Nat /\ doc.maxLoss \in Nat /\ doc.minLeg \in Nat
         /\ doc.maxLeg \in Nat /\ doc.stableMin \in Nat /\ doc.stableMax \in Nat
         /\ doc.categoryMax \in Nat /\ doc.sum \in Nat /\ doc.maxTurnover \in Nat
         /\ doc.maxCost \in Nat /\ doc.pageLimit \in Nat
         /\ doc.minLegs \in Nat /\ doc.maxLegs \in Nat
BY DocumentsAssumption DEF Numbers

LEMMA CadenceNumbers ==
  ASSUME NEW doc \in Documents
  PROVE  /\ doc.minGap \in Nat /\ doc.maxProposals \in Nat /\ doc.quotaWindow \in Nat
         /\ doc.fromHour \in Nat /\ doc.toHour \in Nat /\ doc.day \in Nat \ {0}
         /\ doc.fromHour < doc.toHour /\ doc.toHour <= doc.day
<1>1. /\ doc.minGap \in Nat /\ doc.maxProposals \in Nat /\ doc.quotaWindow \in Nat
      /\ doc.fromHour \in Nat /\ doc.toHour \in Nat /\ doc.day \in Nat
  BY DocumentsAssumption DEF Numbers
<1>2. doc.fromHour < doc.toHour /\ doc.toHour <= doc.day
  BY DEF Documents, Loads, WholeHours
<1>. QED
  BY <1>1, <1>2

(* A target set over pools of the catalogue.                               *)
Weighs(targets) ==
  /\ targets \in [DOMAIN targets -> Nat]
  /\ IsFiniteSet(DOMAIN targets) /\ DOMAIN targets \subseteq DOMAIN Good

LEMMA TradesAreMoves ==
  ASSUME NEW targets, Weighs(targets), NEW view, Weighs(view.legs)
  PROVE  /\ IsFiniteSet(Trades(targets, view)) /\ Trades(targets, view) \subseteq DOMAIN Good
         /\ \A p \in Trades(targets, view) : Moved(targets, view, p) \in Nat
<1>1. IsFiniteSet(DOMAIN targets \union DOMAIN view.legs)
  BY FS_Union DEF Weighs
<1>2. Trades(targets, view) \in SUBSET (DOMAIN targets \union DOMAIN view.legs)
  BY DEF Trades
<1>3. IsFiniteSet(Trades(targets, view))
  BY <1>1, <1>2, FS_Subset
<1>4. \A p \in Trades(targets, view) : WeightIn(targets, p) \in Nat /\ WeightIn(view.legs, p) \in Nat
  BY DEF WeightIn, Weighs
<1>. QED
  BY <1>2, <1>3, <1>4 DEF Moved, Weighs

LEMMA PriceIsNat ==
  ASSUME NEW targets, Weighs(targets), NEW view, Weighs(view.legs),
         NEW rows \in [DOMAIN Good -> Rows]
  PROVE  Price(targets, rows, view, Priced(targets, rows, view)) \in Nat
<1>. DEFINE P == Priced(targets, rows, view)
<1>1. P \in SUBSET Trades(targets, view) /\ IsFiniteSet(P)
  <2>1. P \in SUBSET Trades(targets, view)
    BY DEF Priced
  <2>. QED
    BY <2>1, TradesAreMoves, FS_Subset
<1>2. \A p \in P : Moved(targets, view, p) \in Nat
  BY <1>1, TradesAreMoves
<1>3. \A p \in P : Loss(rows, p) \in Nat /\ Loss(rows, p) <= Loss(rows, p)
  <2>. SUFFICES ASSUME NEW p \in P PROVE Loss(rows, p) \in Nat /\ Loss(rows, p) <= Loss(rows, p)
    OBVIOUS
  <2>1. rows[p] \in Rows /\ Loss(rows, p) # Unknown
    BY <1>1, TradesAreMoves DEF Priced
  <2>2. rows[p].loss \in Nat \union {Unknown}
    BY <2>1 DEF Rows
  <2>3. Loss(rows, p) \in Nat
    BY <2>1, <2>2 DEF Loss
  <2>. QED
    BY <2>3
<1>. HIDE DEF P
<1>4. P \in SUBSET P
  OBVIOUS
<1>5. Price(targets, rows, view, P) \in Nat
  BY <1>1, <1>2, <1>3, <1>4, PriceGrows
<1>. QED
  BY <1>5 DEF P

(***************************************************************************)
(* A target set that passes on the full catalogue is refused on one that   *)
(* lost numbers only for what is missing (policy.js:500-504): the weight   *)
(* on pools that are gone is counted where it may belong, and a cost that  *)
(* can be priced is part of the one that passed.                           *)
(***************************************************************************)
LEMMA LostRows ==
  ASSUME NEW row \in Rows, NEW good \in Rows, LostFrom(row, good), row.listed
  PROVE  /\ good.listed /\ (good.chain => row.chain) /\ (good.active => row.active)
         /\ (good.allowed => row.allowed)
         /\ row.tier \in {good.tier, Unknown} /\ row.loss \in {good.loss, Unknown}
         /\ row.cap \in {good.cap, Unknown}
BY DEF LostFrom, Rows

LEMMA LossNeverBreaches ==
  ASSUME NEW doc \in Documents, NEW targets, Weighs(targets), NEW view, Weighs(view.legs),
         NEW rows \in [DOMAIN Good -> Rows], \A p \in DOMAIN Good : LostFrom(rows[p], Good[p]),
         Passes(doc, targets, Good, view)
  PROVE  OnlyGaps(EvaluateTargets(doc, targets, rows, view))
<1>0. \A p \in DOMAIN Good : rows[p] \in Rows /\ Good[p] \in Rows
  BY CatalogueAssumption
<1>1. \A p \in DOMAIN targets : ~rows[p].listed \/
           /\ rows[p].chain /\ rows[p].active /\ rows[p].allowed
           /\ ~(rows[p].tier > doc.maxTier) /\ ~(rows[p].loss > doc.maxLoss)
  <2>. SUFFICES ASSUME NEW p \in DOMAIN targets, rows[p].listed
                PROVE  /\ rows[p].chain /\ rows[p].active /\ rows[p].allowed
                       /\ ~(rows[p].tier > doc.maxTier) /\ ~(rows[p].loss > doc.maxLoss)
    OBVIOUS
  <2>1. p \in DOMAIN Good /\ Fits(doc, Good[p])
    BY DEF Passes, Weighs
  <2>2. /\ (Good[p].chain => rows[p].chain) /\ (Good[p].active => rows[p].active)
        /\ (Good[p].allowed => rows[p].allowed)
        /\ rows[p].tier \in {Good[p].tier, Unknown} /\ rows[p].loss \in {Good[p].loss, Unknown}
    BY <1>0, <2>1, LostRows
  <2>3. ~(Unknown > doc.maxTier) /\ ~(Unknown > doc.maxLoss)
    BY NumbersAre DEF Unknown
  <2>. QED
    BY <2>1, <2>2, <2>3 DEF Fits
<1>2. \A p \in DOMAIN targets : ~(targets[p] < doc.minLeg) /\ ~(targets[p] > Cap(doc, rows[p]))
  <2>. SUFFICES ASSUME NEW p \in DOMAIN targets
                PROVE  ~(targets[p] < doc.minLeg) /\ ~(targets[p] > Cap(doc, rows[p]))
    OBVIOUS
  <2>1. /\ p \in DOMAIN Good /\ Fits(doc, Good[p]) /\ targets[p] \in Nat
        /\ ~(targets[p] < doc.minLeg) /\ ~(targets[p] > Cap(doc, Good[p]))
    BY DEF Passes, Weighs
  <2>2. Good[p].cap \in Nat \union {Unknown}
    BY <1>0, <2>1 DEF Rows
  <2>3. rows[p].listed => rows[p].cap \in {Good[p].cap, Unknown}
    BY <1>0, <2>1, LostRows
  <2>4. Cap(doc, rows[p]) \in {doc.maxLeg, Cap(doc, Good[p])}
    BY <2>1, <2>3 DEF Cap, Fits
  <2>5. ~(targets[p] > doc.maxLeg)
    BY <2>1, <2>2, NumbersAre DEF Cap, Smaller
  <2>. QED
    BY <2>1, <2>4, <2>5
<1>. DEFINE Listed(cat, category) == {p \in DOMAIN targets : cat[p].listed /\ CategoryOf[p] = category}
            gone == {p \in DOMAIN targets : ~rows[p].listed}
<1>3. \A p \in DOMAIN targets : Good[p].listed
  BY DEF Passes, Fits
<1>4. ASSUME NEW category
      PROVE  /\ InCategory(targets, rows, category) \in Nat
             /\ InCategory(targets, Good, category) \in Nat
             /\ InCategory(targets, rows, category) <= InCategory(targets, Good, category)
             /\ Uncategorised(targets, rows) \in Nat
             /\ InCategory(targets, Good, category)
                  <= InCategory(targets, rows, category) + Uncategorised(targets, rows)
  <2>. DEFINE A == Listed(rows, category)  B == Listed(Good, category)
  <2>1. /\ A \in SUBSET DOMAIN targets /\ B \in SUBSET DOMAIN targets
        /\ gone \in SUBSET DOMAIN targets
        /\ B \in SUBSET (A \union gone) /\ A \in SUBSET B
    BY <1>3
  <2>2. /\ InCategory(targets, rows, category) = Weight(targets, A)
        /\ InCategory(targets, Good, category) = Weight(targets, B)
        /\ Uncategorised(targets, rows) = Weight(targets, gone)
    BY DEF InCategory, Uncategorised
  <2>3. IsFiniteSet(DOMAIN targets) /\ \A p \in DOMAIN targets : targets[p] \in Nat
    BY DEF Weighs
  <2>. HIDE DEF A, B, gone
  <2>4. /\ Weight(targets, A) \in Nat /\ Weight(targets, gone) \in Nat /\ Weight(targets, B) \in Nat
        /\ Weight(targets, B) <= Weight(targets, A) + Weight(targets, gone)
    BY <2>1, <2>3, WeightCovered
  <2>5. Weight(targets, A) <= Weight(targets, B)
    BY <2>1, <2>3, WeightGrows
  <2>. QED
    BY <2>2, <2>4, <2>5
<1>5. /\ ~(InCategory(targets, Good, StablePools) < doc.stableMin)
      /\ ~(InCategory(targets, Good, StablePools) > doc.stableMax)
      /\ \A p \in DOMAIN targets : ~(InCategory(targets, Good, CategoryOf[p]) > doc.categoryMax)
  BY DEF Passes
<1>6. InCategory(targets, rows, StablePools) + Uncategorised(targets, rows) >= doc.stableMin
  BY <1>4, <1>5, NumbersAre
<1>7. ~(InCategory(targets, rows, StablePools) > doc.stableMax)
  BY <1>4, <1>5, NumbersAre
<1>8. \A p \in DOMAIN targets : ~(InCategory(targets, rows, CategoryOf[p]) > doc.categoryMax)
  BY <1>4, <1>5, NumbersAre
<1>9. ~(Price(targets, rows, view, Priced(targets, rows, view)) > doc.maxCost)
  <2>. DEFINE R == Priced(targets, rows, view)  T == Trades(targets, view)
  <2>1. /\ IsFiniteSet(T) /\ R \in SUBSET T /\ T \subseteq DOMAIN Good
        /\ \A p \in T : Moved(targets, view, p) \in Nat
    BY TradesAreMoves DEF Priced
  <2>2. Priced(targets, Good, view) = T /\ ~(Price(targets, Good, view, T) > doc.maxCost)
    BY DEF Passes
  <2>3. ASSUME NEW p \in T PROVE Loss(Good, p) \in Nat
    <3>1. Loss(Good, p) # Unknown /\ Good[p] \in Rows
      BY <1>0, <2>1, <2>2 DEF Priced
    <3>. QED
      BY <3>1 DEF Loss, Rows
  <2>4. ASSUME NEW p \in R PROVE Loss(rows, p) = Loss(Good, p)
    <3>1. Loss(rows, p) # Unknown /\ p \in DOMAIN Good
      BY <2>1 DEF Priced
    <3>2. rows[p].listed /\ rows[p].loss # Unknown
      BY <3>1 DEF Loss
    <3>3. Good[p].listed /\ rows[p].loss \in {Good[p].loss, Unknown}
      BY <1>0, <3>1, <3>2, LostRows
    <3>. QED
      BY <3>2, <3>3 DEF Loss
  <2>5. \A p \in R : Loss(rows, p) \in Nat /\ Loss(rows, p) <= Loss(Good, p)
    BY <2>1, <2>3, <2>4
  <2>. HIDE DEF R, T
  <2>6. /\ Price(targets, rows, view, R) \in Nat /\ Price(targets, Good, view, T) \in Nat
        /\ Price(targets, rows, view, R) <= Price(targets, Good, view, T)
    BY <2>1, <2>3, <2>5, PriceGrows
  <2>7. ~(Price(targets, rows, view, R) > doc.maxCost)
    BY <2>2, <2>6, NumbersAre
  <2>. QED
    BY <2>7 DEF R
<1>10. /\ ~(Cardinality(DOMAIN targets) < doc.minLegs)
       /\ ~(Cardinality(DOMAIN targets) > doc.maxLegs)
       /\ ~(Cardinality(DOMAIN targets \union DOMAIN view.legs) > doc.pageLimit)
       /\ Weight(targets, DOMAIN targets) = doc.sum
       /\ ~(MovedInAll(targets, view) > 2 * doc.maxTurnover)
  BY DEF Passes
<1>. QED
  BY <1>1, <1>2, <1>6, <1>7, <1>8, <1>9, <1>10, GapsOnly
(***************************************************************************)
(* A row that turned is never better than the good one, and the weights a  *)
(* caller names keep to the caps the pools have: then what passes on the   *)
(* catalogue as it was passes on the full one.                             *)
(***************************************************************************)
NoBetter(row, good) ==
  row.listed =>
    /\ good.listed /\ (row.chain => good.chain) /\ (row.active => good.active)
    /\ (row.allowed => good.allowed)
    /\ row.tier # Unknown => good.tier \in 0 .. row.tier
    /\ row.loss # Unknown => good.loss \in 0 .. row.loss
RowsOnlyWorsen == \A p \in DOMAIN Good : \A row \in Variants[p] : NoBetter(row, Good[p])
KeepsCaps(targets) == \A p \in DOMAIN targets : Good[p].cap # Unknown => targets[p] <= Good[p].cap

LEMMA FullCatalogue ==
  ASSUME NEW doc \in Documents, NEW targets, Weighs(targets), KeepsCaps(targets),
         NEW view, Weighs(view.legs),
         NEW rows \in [DOMAIN Good -> Rows],
         \A p \in DOMAIN Good : rows[p] = Good[p] \/ NoBetter(rows[p], Good[p]),
         Passes(doc, targets, rows, view)
  PROVE  Passes(doc, targets, Good, view)
<1>0. \A p \in DOMAIN Good : rows[p] \in Rows /\ Good[p] \in Rows
  BY CatalogueAssumption
<1>1. ASSUME NEW p \in DOMAIN targets PROVE Fits(doc, Good[p])
  <2>1. p \in DOMAIN Good /\ Fits(doc, rows[p])
    BY DEF Passes, Weighs
  <2>2. rows[p] \in Rows /\ Good[p] \in Rows /\ (rows[p] = Good[p] \/ NoBetter(rows[p], Good[p]))
    BY <1>0, <2>1
  <2>3. /\ Good[p].listed /\ Good[p].chain /\ Good[p].active /\ Good[p].allowed
        /\ rows[p].tier \in Nat /\ rows[p].loss \in Nat
        /\ Good[p].tier \in 0 .. rows[p].tier /\ Good[p].loss \in 0 .. rows[p].loss
    <3>1. rows[p].tier \in Nat /\ rows[p].loss \in Nat
      BY <2>1, <2>2 DEF Fits, Rows
    <3>. QED
      BY <2>1, <2>2, <3>1 DEF Fits, NoBetter
  <2>4. ~(rows[p].tier > doc.maxTier) /\ ~(rows[p].loss > doc.maxLoss)
    BY <2>1 DEF Fits
  <2>. QED
    BY <2>3, <2>4, NumbersAre DEF Fits, Unknown
<1>2. ASSUME NEW p \in DOMAIN targets
      PROVE  ~(targets[p] < doc.minLeg) /\ ~(targets[p] > Cap(doc, Good[p]))
  <2>1. /\ p \in DOMAIN Good /\ targets[p] \in Nat
        /\ ~(targets[p] < doc.minLeg) /\ ~(targets[p] > Cap(doc, rows[p]))
    BY DEF Passes, Weighs
  <2>2. rows[p].cap \in Nat \union {Unknown} /\ Good[p].cap \in Nat \union {Unknown}
    BY <1>0, <2>1 DEF Rows
  <2>3. ~(targets[p] > doc.maxLeg)
    BY <2>1, <2>2, NumbersAre DEF Cap, Smaller
  <2>4. Good[p].cap # Unknown => ~(targets[p] > Good[p].cap)
    BY <2>1, <2>2 DEF KeepsCaps, Unknown
  <2>. QED
    BY <2>1, <2>3, <2>4 DEF Cap, Smaller
<1>3. \A category : InCategory(targets, Good, category) = InCategory(targets, rows, category)
  <2>1. \A p \in DOMAIN targets : Good[p].listed /\ rows[p].listed
    BY <1>1 DEF Passes, Fits
  <2>2. \A category : {p \in DOMAIN targets : Good[p].listed /\ CategoryOf[p] = category}
                        = {p \in DOMAIN targets : rows[p].listed /\ CategoryOf[p] = category}
    BY <2>1
  <2>. QED
    BY <2>2 DEF InCategory
<1>4. ASSUME NEW p \in Trades(targets, view)
      PROVE  /\ Loss(rows, p) \in Nat /\ Loss(Good, p) \in Nat /\ Loss(Good, p) <= Loss(rows, p)
  <2>1. p \in DOMAIN Good /\ Loss(rows, p) # Unknown
    BY TradesAreMoves DEF Passes, Priced
  <2>2. rows[p].listed /\ rows[p].loss \in Nat /\ Loss(rows, p) = rows[p].loss
    BY <1>0, <2>1 DEF Loss, Rows
  <2>3. Good[p].listed /\ Good[p].loss \in 0 .. rows[p].loss
    BY <2>1, <2>2 DEF NoBetter, Unknown
  <2>. QED
    BY <2>2, <2>3 DEF Loss
<1>5. /\ Priced(targets, Good, view) = Trades(targets, view)
      /\ ~(Price(targets, Good, view, Priced(targets, Good, view)) > doc.maxCost)
  <2>. DEFINE T == Trades(targets, view)
  <2>1. Priced(targets, Good, view) = T
    BY <1>4 DEF Priced, Unknown
  <2>2. Priced(targets, rows, view) = T /\ ~(Price(targets, rows, view, T) > doc.maxCost)
    BY DEF Passes
  <2>3. IsFiniteSet(T) /\ T \in SUBSET T /\ \A p \in T : Moved(targets, view, p) \in Nat
    BY TradesAreMoves
  <2>. HIDE DEF T
  <2>4. /\ Price(targets, Good, view, T) \in Nat /\ Price(targets, rows, view, T) \in Nat
        /\ Price(targets, Good, view, T) <= Price(targets, rows, view, T)
    <3>1. \A p \in T : Loss(rows, p) \in Nat /\ Loss(Good, p) \in Nat /\ Loss(Good, p) <= Loss(rows, p)
      BY <1>4 DEF T
    <3>. QED
      BY <2>3, <3>1, PriceGrows
  <2>5. ~(Price(targets, Good, view, T) > doc.maxCost)
    BY <2>2, <2>4, NumbersAre
  <2>. QED
    BY <2>1, <2>5 DEF T
<1>. QED
  BY <1>1, <1>2, <1>3, <1>5 DEF Passes

(***************************************************************************)
(* init's reading of a book and the signer's: the same rules on universe   *)
(* and shape, and a book held as it is asked for moves nothing.            *)
(***************************************************************************)
Held(targets) == [known |-> TRUE, legs |-> targets, empty |-> {}]

LEMMA HeldMovesNothing ==
  ASSUME NEW targets, Weighs(targets), NEW rows
  PROVE  /\ MovedInAll(targets, Held(targets)) = 0
         /\ Trades(targets, Held(targets)) = {} /\ Priced(targets, rows, Held(targets)) = {}
         /\ Price(targets, rows, Held(targets), {}) = 0
<1>. DEFINE D == DOMAIN targets \union DOMAIN Held(targets).legs
<1>1. D = DOMAIN targets /\ Held(targets).legs = targets
  BY DEF Held
<1>2. \A p \in D : Moved(targets, Held(targets), p) = 0
  BY <1>1 DEF Moved, WeightIn, Weighs
<1>3. MovedInAll(targets, Held(targets)) = 0
  <2>1. IsFiniteSet(D)
    BY <1>1 DEF Weighs
  <2>. QED
    BY <1>2, <2>1, NothingMoves DEF MovedInAll
<1>4. Trades(targets, Held(targets)) = {}
  BY <1>2 DEF Trades
<1>5. Price(targets, rows, Held(targets), {}) = 0
  <2>. DEFINE g == [p \in {} |-> Moved(targets, Held(targets), p) * Loss(rows, p)]
  <2>1. PICK f : Adds(f, g, {}) /\ Price(targets, rows, Held(targets), {}) = f[{}]
    BY FS_EmptySet, PriceSums
  <2>. HIDE DEF g
  <2>. QED
    BY <2>1, SumOpens
<1>. QED
  BY <1>3, <1>4, <1>5 DEF Priced

Admissible(doc, weight, row) ==
  /\ row.allowed /\ row.listed /\ row.chain /\ row.active
  /\ row.tier # Unknown /\ row.loss # Unknown /\ row.cap # Unknown
  /\ ~(row.tier > doc.maxTier) /\ ~(row.loss > doc.maxLoss)
  /\ ~(weight < doc.minLeg) /\ ~(weight > Cap(doc, row))

LEMMA LegAdmissible ==
  ASSUME NEW doc \in Documents, NEW weight, NEW row \in Rows
  PROVE  LegItems(doc, weight, row) = {} <=> Admissible(doc, weight, row)
<1>1. \A v : /\ Over(v, doc.maxTier) <=> v > doc.maxTier
             /\ Over(v, doc.maxLoss) <=> v > doc.maxLoss
             /\ Over(v, Cap(doc, row)) <=> v > Cap(doc, row)
  <2>1. doc.maxTier # Unknown /\ doc.maxLoss # Unknown
    BY NumbersAre DEF Unknown
  <2>2. Cap(doc, row) # Unknown
    BY NumbersAre DEF Cap, Smaller, Unknown, Rows
  <2>. QED
    BY <2>1, <2>2 DEF Over
<1>. DEFINE unknown == {row.tier, row.loss, row.cap} \intersect {Unknown} # {}
            tier == Over(row.tier, doc.maxTier)
            loss == Over(row.loss, doc.maxLoss)
            out  == ~row.allowed \/ ~row.listed
            size == weight < doc.minLeg \/ Over(weight, Cap(doc, row))
<1>2. PoolItems(doc, row) = {} <=> ~unknown /\ row.chain /\ row.active /\ ~tier /\ ~loss
  <2>1. PoolItems(doc, row) =
          When(unknown, "INPUTS_INCOMPLETE") \union When(~row.chain, "CHAIN_DENIED")
          \union When(~row.active, "POOL_NOT_ACTIVE") \union When(tier, "POOL_DENIED")
          \union When(loss, "POOL_COST_TOO_HIGH")
    BY DEF PoolItems
  <2>. HIDE DEF unknown, tier, loss
  <2>. QED
    BY <2>1, Whens
<1>3. LegItems(doc, weight, row) = {} <=> ~out /\ PoolItems(doc, row) = {} /\ ~size
  <2>1. LegItems(doc, weight, row) =
          When(out, "POOL_DENIED") \union (IF row.listed THEN PoolItems(doc, row) ELSE {})
          \union When(size, "LEG_WEIGHT_CAP")
    BY DEF LegItems
  <2>2. When(out, "POOL_DENIED") = {} <=> ~out
    BY Whens
  <2>3. When(size, "LEG_WEIGHT_CAP") = {} <=> ~size
    BY Whens
  <2>4. ~out => row.listed
    OBVIOUS
  <2>. HIDE DEF out, size
  <2>. QED
    BY <2>1, <2>2, <2>3, <2>4
<1>4. unknown <=> row.tier = Unknown \/ row.loss = Unknown \/ row.cap = Unknown
  OBVIOUS
<1>. HIDE DEF unknown
<1>. QED
  BY <1>1, <1>2, <1>3, <1>4 DEF Admissible

LEMMA ItemsPass ==
  ASSUME NEW doc \in Documents, NEW targets, Weighs(targets),
         NEW rows \in [DOMAIN Good -> Rows],
         \A p \in DOMAIN targets : rows[p].listed
  PROVE  BookItems(doc, targets, rows) = {} <=>
           /\ ~(Cardinality(DOMAIN targets) < doc.minLegs)
           /\ ~(Cardinality(DOMAIN targets) > doc.maxLegs)
           /\ \A p \in DOMAIN targets : Admissible(doc, targets[p], rows[p])
           /\ ~(InCategory(targets, rows, StablePools) < doc.stableMin)
           /\ ~(InCategory(targets, rows, StablePools) > doc.stableMax)
           /\ \A p \in DOMAIN targets :
                ~(InCategory(targets, rows, CategoryOf[p]) > doc.categoryMax)
<1>1. \A category : Sleeve(targets, category) = InCategory(targets, rows, category)
  <2>1. \A category : {p \in DOMAIN targets : CategoryOf[p] = category}
                        = {p \in DOMAIN targets : rows[p].listed /\ CategoryOf[p] = category}
    OBVIOUS
  <2>. QED
    BY <2>1 DEF Sleeve, InCategory
<1>2. \A v : /\ Over(v, doc.maxLegs) <=> v > doc.maxLegs
             /\ Over(v, doc.stableMax) <=> v > doc.stableMax
             /\ Over(v, doc.categoryMax) <=> v > doc.categoryMax
  BY NumbersAre DEF Over, Unknown
<1>. DEFINE stable == Sleeve(targets, StablePools)
            band == stable < doc.stableMin \/ Over(stable, doc.stableMax)
            category == \E p \in DOMAIN targets : Over(Sleeve(targets, CategoryOf[p]), doc.categoryMax)
            lacks == \E field \in BookNumbers : doc[field] = Unknown
            few == Cardinality(DOMAIN targets) < doc.minLegs
            many == Over(Cardinality(DOMAIN targets), doc.maxLegs)
            legs == UNION {LegItems(doc, targets[p], rows[p]) : p \in DOMAIN targets}
<1>3. SleeveItems(doc, targets) = {} <=> ~band /\ ~category
  <2>1. SleeveItems(doc, targets) = When(band, "STABLE_BAND") \union When(category, "CATEGORY_CAP")
    BY DEF SleeveItems
  <2>. HIDE DEF band, category
  <2>. QED
    BY <2>1, Whens
<1>4. ~lacks
  BY DEF BookNumbers, Documents, Loads, Numbers
<1>5. legs = {} <=> \A p \in DOMAIN targets : Admissible(doc, targets[p], rows[p])
  <2>1. \A p \in DOMAIN targets : rows[p] \in Rows
    BY DEF Weighs
  <2>2. \A p \in DOMAIN targets : LegItems(doc, targets[p], rows[p]) = {} <=>
                                  Admissible(doc, targets[p], rows[p])
    BY <2>1, LegAdmissible
  <2>. QED
    BY <2>2
<1>6. BookItems(doc, targets, rows) = {} <=>
        ~few /\ ~many /\ legs = {} /\ SleeveItems(doc, targets) = {}
  <2>1. BookItems(doc, targets, rows) =
          When(lacks, "INPUTS_INCOMPLETE") \union When(few, "MIN_LEGS")
          \union When(many, "MAX_LEGS") \union legs \union SleeveItems(doc, targets)
    BY DEF BookItems
  <2>. HIDE DEF lacks, few, many, legs
  <2>. QED
    BY <1>4, <2>1, Whens
<1>. HIDE DEF legs
<1>. QED
  BY <1>1, <1>2, <1>3, <1>5, <1>6

LEMMA InitAndSignerAgree ==
  ASSUME NEW doc \in Documents, NEW targets, Weighs(targets),
         NEW rows \in [DOMAIN Good -> Rows],
         Weight(targets, DOMAIN targets) = doc.sum, Cardinality(DOMAIN targets) <= doc.pageLimit
  PROVE  LET items == BookItems(doc, targets, rows)
             refusals == EvaluateTargets(doc, targets, rows, Held(targets))
         IN  /\ items = {} => refusals = {}
             /\ refusals = {} /\ (\A p \in DOMAIN targets : rows[p].cap # Unknown) => items = {}
<1>1. Weighs(Held(targets).legs) /\ Held(targets).legs = targets /\ Held(targets).known
  BY DEF Held
<1>2. EvaluateTargets(doc, targets, rows, Held(targets)) = {} <=>
        Passes(doc, targets, rows, Held(targets))
  BY <1>1, PriceIsNat, NumbersAre, PassesTargets
<1>3. /\ Priced(targets, rows, Held(targets)) = Trades(targets, Held(targets))
      /\ ~(Price(targets, rows, Held(targets), Priced(targets, rows, Held(targets))) > doc.maxCost)
      /\ ~(MovedInAll(targets, Held(targets)) > 2 * doc.maxTurnover)
  <2>1. doc.maxCost \in Nat /\ doc.maxTurnover \in Nat
    BY NumbersAre
  <2>2. ~(0 > doc.maxCost) /\ ~(0 > 2 * doc.maxTurnover)
    BY <2>1
  <2>3. /\ MovedInAll(targets, Held(targets)) = 0
        /\ Trades(targets, Held(targets)) = {} /\ Priced(targets, rows, Held(targets)) = {}
        /\ Price(targets, rows, Held(targets), {}) = 0
    BY HeldMovesNothing
  <2>. QED
    BY <2>2, <2>3
<1>4. ~(Cardinality(DOMAIN targets \union DOMAIN Held(targets).legs) > doc.pageLimit)
  <2>1. DOMAIN targets \union DOMAIN Held(targets).legs = DOMAIN targets
    BY <1>1
  <2>2. Cardinality(DOMAIN targets) \in Nat
    BY FS_CardinalityType DEF Weighs
  <2>. QED
    BY <2>1, <2>2, NumbersAre
<1>5. BookItems(doc, targets, rows) = {} => \A p \in DOMAIN targets : rows[p].listed
  <2>. SUFFICES ASSUME NEW p \in DOMAIN targets, ~rows[p].listed
                PROVE  BookItems(doc, targets, rows) # {}
    OBVIOUS
  <2>1. LegItems(doc, targets[p], rows[p]) # {}
    BY Whens DEF LegItems
  <2>. QED
    BY <2>1 DEF BookItems
<1>6. Passes(doc, targets, rows, Held(targets)) => \A p \in DOMAIN targets : rows[p].listed
  BY DEF Passes, Fits
<1>7. ASSUME NEW p \in DOMAIN targets
      PROVE  /\ Admissible(doc, targets[p], rows[p]) =>
                  /\ Fits(doc, rows[p])
                  /\ ~(targets[p] < doc.minLeg) /\ ~(targets[p] > Cap(doc, rows[p]))
             /\ /\ Fits(doc, rows[p]) /\ rows[p].cap # Unknown
                /\ ~(targets[p] < doc.minLeg) /\ ~(targets[p] > Cap(doc, rows[p]))
                => Admissible(doc, targets[p], rows[p])
  BY DEF Admissible, Fits
<1>8. CASE \A p \in DOMAIN targets : rows[p].listed
  <2>1. BookItems(doc, targets, rows) = {} => Passes(doc, targets, rows, Held(targets))
    BY <1>1, <1>3, <1>4, <1>7, <1>8, ItemsPass DEF Passes
  <2>2. Passes(doc, targets, rows, Held(targets)) /\ (\A p \in DOMAIN targets : rows[p].cap # Unknown)
          => BookItems(doc, targets, rows) = {}
    BY <1>7, <1>8, ItemsPass DEF Passes
  <2>. QED
    BY <1>2, <2>1, <2>2
<1>. QED
  BY <1>2, <1>5, <1>6, <1>8
-----------------------------------------------------------------------------
(***************************************************************************)
(* Counting: the times later than a moment, and the callers at a stage.    *)
(***************************************************************************)
Later(times, x) == {i \in DOMAIN times : times[i] > x}
Calls ==
  [stage : {"idle", "judged", "landed"}, targets : Candidates \union {Idle.targets}, at : Nat,
   under : SUBSET Documents]
At(f, stage) == {c \in Callers : f[c].stage = stage}

LEMMA LaterIsFinite ==
  ASSUME NEW times \in Seq(Nat), NEW x
  PROVE  IsFiniteSet(Later(times, x)) /\ Cardinality(Later(times, x)) \in Nat
<1>1. DOMAIN times = 1 .. Len(times) /\ Len(times) \in Nat
  OBVIOUS
<1>2. IsFiniteSet(1 .. Len(times))
  BY <1>1, FS_Interval
<1>3. Later(times, x) \in SUBSET (1 .. Len(times))
  BY <1>1 DEF Later
<1>. QED
  BY <1>2, <1>3, FS_Subset, FS_CardinalityType

LEMMA LaterShrinks ==
  ASSUME NEW times \in Seq(Nat), NEW x \in Int, NEW y \in Int, x <= y
  PROVE  Cardinality(Later(times, y)) <= Cardinality(Later(times, x))
<1>1. Later(times, y) \in SUBSET Later(times, x)
  BY DEF Later
<1>. QED
  BY <1>1, LaterIsFinite, FS_Subset

LEMMA LaterAppends ==
  ASSUME NEW times \in Seq(Nat), NEW t \in Nat, NEW x \in Int
  PROVE  Cardinality(Later(Append(times, t), x)) =
           Cardinality(Later(times, x)) + (IF t > x THEN 1 ELSE 0)
<1>. DEFINE n == Len(times) + 1
<1>1. /\ DOMAIN times = 1 .. Len(times) /\ DOMAIN Append(times, t) = 1 .. n /\ Len(times) \in Nat
      /\ Append(times, t)[n] = t
      /\ \A i \in 1 .. Len(times) : Append(times, t)[i] = times[i]
  OBVIOUS
<1>2. Later(Append(times, t), x) = IF t > x THEN Later(times, x) \union {n} ELSE Later(times, x)
  BY <1>1 DEF Later
<1>3. n \notin Later(times, x)
  BY <1>1 DEF Later
<1>. DEFINE S == Later(times, x)
<1>4. IsFiniteSet(S) /\ Cardinality(S) \in Nat /\ n \notin S
  BY <1>3, LaterIsFinite
<1>5. Later(Append(times, t), x) = IF t > x THEN S \union {n} ELSE S
  BY <1>2
<1>. HIDE DEF n, S
<1>6. Cardinality(S \union {n}) = Cardinality(S) + 1
  BY <1>4, FS_AddElement
<1>. QED
  BY <1>4, <1>5, <1>6 DEF S

LEMMA AtIsFinite ==
  ASSUME NEW f
  PROVE  /\ \A stage : IsFiniteSet(At(f, stage)) /\ Cardinality(At(f, stage)) \in Nat
         /\ Cardinality(At(f, "judged")) + Cardinality(At(f, "landed")) <= Cardinality(Callers)
<1>1. \A stage : IsFiniteSet(At(f, stage)) /\ Cardinality(At(f, stage)) \in Nat
  <2>1. \A stage : At(f, stage) \in SUBSET Callers
    BY DEF At
  <2>. QED
    BY <2>1, BoundsAssumption, FS_Subset, FS_CardinalityType
<1>. DEFINE J == At(f, "judged")  L == At(f, "landed")
<1>2. J \intersect L = {} /\ J \union L \in SUBSET Callers
  BY DEF At
<1>3. IsFiniteSet(J) /\ IsFiniteSet(L) /\ Cardinality(J) \in Nat /\ Cardinality(L) \in Nat
  BY <1>1
<1>. HIDE DEF J, L
<1>4. Cardinality(J \union L) = Cardinality(J) + Cardinality(L)
  <2>1. Cardinality(J \union L) = Cardinality(J) + Cardinality(L) - Cardinality(J \intersect L)
    BY <1>3, FS_Union
  <2>2. Cardinality(J \intersect L) = 0
    BY <1>2, FS_EmptySet
  <2>. QED
    BY <1>3, <2>1, <2>2
<1>5. Cardinality(J \union L) <= Cardinality(Callers)
  BY <1>2, BoundsAssumption, FS_Subset
<1>. QED
  BY <1>1, <1>4, <1>5 DEF J, L

LEMMA AtMoves ==
  ASSUME calls \in [Callers -> Calls], NEW c \in Callers, NEW v \in Calls,
         calls' = [calls EXCEPT ![c] = v], calls[c].stage # v.stage
  PROVE  /\ calls' \in [Callers -> Calls]
         /\ calls'[c] = v /\ \A d \in Callers : d # c => calls'[d] = calls[d]
         /\ Cardinality(At(calls', v.stage)) = Cardinality(At(calls, v.stage)) + 1
         /\ Cardinality(At(calls', calls[c].stage)) = Cardinality(At(calls, calls[c].stage)) - 1
         /\ \A stage : stage # calls[c].stage /\ stage # v.stage
                         => At(calls', stage) = At(calls, stage)
<1>. DEFINE T == At(calls, v.stage)  F == At(calls, calls[c].stage)
<1>1. /\ calls' \in [Callers -> Calls] /\ calls'[c] = v
      /\ \A d \in Callers : d # c => calls'[d] = calls[d]
  OBVIOUS
<1>2. /\ At(calls', v.stage) = T \union {c} /\ c \notin T
      /\ At(calls', calls[c].stage) = F \ {c} /\ c \in F
      /\ \A stage : stage # calls[c].stage /\ stage # v.stage
                      => At(calls', stage) = At(calls, stage)
  BY <1>1 DEF At
<1>3. IsFiniteSet(T) /\ IsFiniteSet(F)
  BY AtIsFinite
<1>. HIDE DEF T, F
<1>4. Cardinality(T \union {c}) = Cardinality(T) + 1 /\ Cardinality(F \ {c}) = Cardinality(F) - 1
  BY <1>2, <1>3, FS_AddElement, FS_RemoveElement
<1>. QED
  BY <1>1, <1>2, <1>4 DEF T, F

-----------------------------------------------------------------------------
(***************************************************************************)
(* The inductive invariant, in parts: the world, the calls, the times, and *)
(* that every proposal that landed is journaled, about to be, or lost.     *)
(***************************************************************************)
Sorted(times) == \A i, j \in DOMAIN times : i <= j => times[i] <= times[j]

World ==
  /\ now \in 0 .. MaxNow /\ policy \in Documents
  /\ catalogue \in [DOMAIN Good -> Rows]
  /\ \A p \in DOMAIN Good : catalogue[p] \in Variants[p] \union {Good[p]}
  /\ portfolioRow \in Answers \union {WholeRow}
  /\ book \in Candidates \union {FirstBook}
  /\ pending = NoChange \/ (pending.targets \in Candidates /\ pending.effectiveAt \in Nat)
  /\ lastRebalance \in -1 .. now
Calling ==
  /\ calls \in [Callers -> Calls]
  /\ \A c \in Callers : calls[c].stage # "idle" =>
       calls[c].targets \in Candidates /\ calls[c].at <= now /\ now <= calls[c].at + 1
Times ==
  /\ landed \in Seq(Nat) /\ \A i \in DOMAIN landed : landed[i] <= now
  /\ journal \in Seq(Nat) /\ \A i \in DOMAIN journal : journal[i] <= now
  /\ Sorted(journal)
  /\ ledger.proposals = journal /\ ledger.builtAt \in 0 .. now
  /\ ledger.rolled = Cardinality(Later(journal, ledger.builtAt - RolledWindow))
Counted ==
  /\ forgotten \in Nat
  /\ forgotten + Cardinality(At(calls, "landed")) + Len(journal) = Len(landed)
  /\ Len(landed) + Cardinality(At(calls, "judged")) <= MaxLanded + Cardinality(Callers)
IInv == World /\ Calling /\ Times /\ Counted

LEMMA Initially == Init => IInv
<1>. SUFFICES ASSUME Init PROVE IInv
  OBVIOUS
<1>1. /\ At(calls, "landed") = {} /\ At(calls, "judged") = {}
      /\ Later(journal, 0 - RolledWindow) = {}
  BY DEF Init, At, Idle, Later
<1>2. Cardinality({}) = 0 /\ Cardinality(Callers) \in Nat
  BY FS_EmptySet, FS_CardinalityType, BoundsAssumption
<1>3. World
  BY BoundsAssumption, CatalogueAssumption DEF Init, World, Unknown
<1>4. Calling
  BY DEF Init, Calling, Calls, Idle
<1>5. Times
  BY <1>1, <1>2 DEF Init, Times, Sorted
<1>6. Counted
  <2>1. landed = <<>> /\ journal = <<>> /\ forgotten = 0 /\ Len(<<>>) = 0
    BY DEF Init
  <2>2. 0 <= MaxLanded + Cardinality(Callers)
    BY <1>2, BoundsAssumption
  <2>3. Cardinality(At(calls, "landed")) = 0 /\ Cardinality(At(calls, "judged")) = 0
    BY <1>1, <1>2
  <2>4. /\ forgotten + Cardinality(At(calls, "landed")) + Len(journal) = Len(landed)
        /\ Len(landed) + Cardinality(At(calls, "judged")) <= MaxLanded + Cardinality(Callers)
    BY <2>1, <2>2, <2>3
  <2>. QED
    BY <2>1, <2>4 DEF Counted
<1>. QED
  BY <1>3, <1>4, <1>5, <1>6 DEF IInv

LEMMA RebuiltTimes ==
  ASSUME Times, now \in Nat, UNCHANGED <<now, landed, journal>>, ledger' = Rebuilt(journal)
  PROVE  Times'
<1>1. /\ ledger'.proposals = journal /\ ledger'.builtAt = now
      /\ ledger'.rolled = Cardinality(Later(journal, now - RolledWindow))
  BY DEF Rebuilt, Later
<1>. QED
  BY <1>1 DEF Times

(* A step that moves no call leaves the count as it is.                    *)
LEMMA StillCounted ==
  ASSUME IInv, UNCHANGED <<calls, landed, journal, forgotten>>
  PROVE  Counted'
BY DEF IInv, Counted

LEMMA SimulateKeeps == ASSUME IInv, NEW targets \in Candidates, Simulate(targets) PROVE IInv'
BY DEF IInv, World, Calling, Times, Counted, Simulate, Outside

LEMMA JudgeKeeps ==
  ASSUME IInv, NEW c \in Callers, NEW targets \in Candidates, Judge(c, targets)
  PROVE  IInv'
<1>1. now \in Nat /\ World'
  BY DEF IInv, World, Judge, Outside
<1>2. CASE Verdict(targets) = {} /\ GatesOpen
  <2>. DEFINE v == [stage |-> "judged", targets |-> targets, at |-> now, under |-> AdmittedUnder]
  <2>1. /\ calls' = [calls EXCEPT ![c] = v] /\ calls[c].stage = "idle" /\ Len(landed) < MaxLanded
        /\ UNCHANGED <<now, ledger, journal, landed, forgotten>>
    BY <1>2 DEF Judge, Outside
  <2>2. v \in Calls /\ v.stage = "judged" /\ v.targets = targets /\ v.at = now
    BY <1>1 DEF Calls, AdmittedUnder, IInv, World
  <2>3. calls \in [Callers -> Calls]
    BY DEF IInv, Calling
  <2>. HIDE DEF v
  <2>4. /\ calls' \in [Callers -> Calls]
        /\ calls'[c] = v /\ \A d \in Callers : d # c => calls'[d] = calls[d]
        /\ Cardinality(At(calls', "judged")) = Cardinality(At(calls, "judged")) + 1
        /\ \A stage : stage # "idle" /\ stage # "judged" => At(calls', stage) = At(calls, stage)
    <3>1. "idle" # "judged"
      OBVIOUS
    <3>. QED
      BY <2>1, <2>2, <2>3, <3>1, AtMoves
  <2>5. Calling'
    BY <1>1, <2>1, <2>2, <2>3, <2>4 DEF IInv, Calling
  <2>6. Times'
    BY <2>1 DEF IInv, Times
  <2>7. Counted'
    <3>1. Cardinality(At(calls', "judged")) + Cardinality(At(calls', "landed"))
            <= Cardinality(Callers)
      BY AtIsFinite
    <3>2. /\ Cardinality(At(calls', "judged")) \in Nat /\ Cardinality(At(calls', "landed")) \in Nat
          /\ Len(landed) \in Nat
      BY AtIsFinite DEF IInv, Times
    <3>3. Cardinality(Callers) \in Nat
      BY BoundsAssumption, FS_CardinalityType
    <3>4. /\ forgotten \in Nat
          /\ forgotten + Cardinality(At(calls, "landed")) + Len(journal) = Len(landed)
      BY DEF IInv, Counted
    <3>5. At(calls', "landed") = At(calls, "landed")
      BY <2>4
    <3>6. MaxLanded \in Nat /\ Len(landed) + 1 <= MaxLanded
      BY <2>1, <3>2, BoundsAssumption
    <3>7. Len(landed) + Cardinality(At(calls', "judged")) <= MaxLanded + Cardinality(Callers)
      BY <3>1, <3>2, <3>3, <3>6
    <3>. QED
      BY <2>1, <3>4, <3>5, <3>7 DEF Counted
  <2>. QED
    BY <1>1, <2>5, <2>6, <2>7 DEF IInv
<1>3. CASE ~(Verdict(targets) = {} /\ GatesOpen)
  <2>1. Journaled /\ UNCHANGED <<now, calls, landed, forgotten>>
    BY <1>3 DEF Judge, Outside
  <2>2. Times' /\ Counted'
    BY <1>1, <2>1, RebuiltTimes, StillCounted DEF IInv, Journaled
  <2>3. Calling'
    BY <2>1 DEF IInv, Calling
  <2>. QED
    BY <1>1, <2>2, <2>3 DEF IInv
<1>. QED
  BY <1>2, <1>3

LEMMA LandKeeps == ASSUME IInv, NEW c \in Callers, Land(c) PROVE IInv'
<1>. DEFINE v == [calls[c] EXCEPT !.stage = "landed"]
<1>1. /\ calls' = [calls EXCEPT ![c] = v] /\ calls[c].stage = "judged"
      /\ landed' = Append(landed, now)
      /\ UNCHANGED <<now, ledger, journal, forgotten>>
  BY DEF Land, Outside
<1>2. calls \in [Callers -> Calls] /\ now \in Nat
  BY DEF IInv, Calling, World
<1>3. v \in Calls /\ v.stage = "landed" /\ v.targets = calls[c].targets /\ v.at = calls[c].at
  BY <1>2 DEF Calls
<1>4. World'
  BY <1>1, <1>2, BoundsAssumption DEF IInv, World, Calling, Land, Outside
<1>. HIDE DEF v
<1>5. /\ calls' \in [Callers -> Calls]
      /\ calls'[c] = v /\ \A d \in Callers : d # c => calls'[d] = calls[d]
      /\ Cardinality(At(calls', "landed")) = Cardinality(At(calls, "landed")) + 1
      /\ Cardinality(At(calls', "judged")) = Cardinality(At(calls, "judged")) - 1
  <2>1. "judged" # "landed"
    OBVIOUS
  <2>. QED
    BY <1>1, <1>2, <1>3, <2>1, AtMoves
<1>6. Calling'
  BY <1>1, <1>2, <1>3, <1>5 DEF IInv, Calling
<1>7. Times'
  <2>1. /\ landed \in Seq(Nat) /\ \A i \in DOMAIN landed : landed[i] <= now
    BY DEF IInv, Times
  <2>2. landed' \in Seq(Nat) /\ \A i \in DOMAIN landed' : landed'[i] <= now
    BY <1>1, <1>2, <2>1
  <2>. QED
    BY <1>1, <2>2 DEF IInv, Times
<1>8. Counted'
  <2>1. landed \in Seq(Nat) /\ journal \in Seq(Nat)
    BY DEF IInv, Times
  <2>2. Len(landed') = Len(landed) + 1 /\ Len(landed) \in Nat /\ Len(journal) \in Nat
    BY <1>1, <1>2, <2>1
  <2>3. /\ Cardinality(At(calls, "judged")) \in Nat /\ Cardinality(At(calls, "landed")) \in Nat
        /\ Cardinality(Callers) \in Nat
    BY AtIsFinite, BoundsAssumption, FS_CardinalityType
  <2>4. /\ forgotten \in Nat
        /\ forgotten + Cardinality(At(calls, "landed")) + Len(journal) = Len(landed)
        /\ Len(landed) + Cardinality(At(calls, "judged")) <= MaxLanded + Cardinality(Callers)
    BY DEF IInv, Counted
  <2>5. /\ forgotten' + Cardinality(At(calls', "landed")) + Len(journal') = Len(landed')
        /\ Len(landed') + Cardinality(At(calls', "judged")) <= MaxLanded + Cardinality(Callers)
    <3>1. forgotten' = forgotten /\ journal' = journal /\ MaxLanded \in Nat
      BY <1>1, BoundsAssumption
    <3>2. /\ Cardinality(At(calls', "landed")) = Cardinality(At(calls, "landed")) + 1
          /\ Cardinality(At(calls', "judged")) = Cardinality(At(calls, "judged")) - 1
      BY <1>5
    <3>3. forgotten + (Cardinality(At(calls, "landed")) + 1) + Len(journal) = Len(landed) + 1
      BY <2>2, <2>3, <2>4
    <3>4. (Len(landed) + 1) + (Cardinality(At(calls, "judged")) - 1) <= MaxLanded + Cardinality(Callers)
      BY <2>2, <2>3, <2>4
    <3>. QED
      BY Zenon, <2>2, <3>1, <3>2, <3>3, <3>4
  <2>. QED
    BY <1>1, <2>4, <2>5 DEF Counted
<1>. QED
  BY <1>4, <1>6, <1>7, <1>8 DEF IInv
LEMMA BounceKeeps == ASSUME IInv, NEW c \in Callers, Bounce(c) PROVE IInv'
<1>1. /\ calls' = [calls EXCEPT ![c] = Idle] /\ calls[c].stage = "judged" /\ Journaled
      /\ UNCHANGED <<now, landed, forgotten>>
  BY DEF Bounce, Outside
<1>2. calls \in [Callers -> Calls] /\ now \in Nat
  BY DEF IInv, Calling, World
<1>3. Idle \in Calls /\ Idle.stage = "idle"
  BY DEF Calls, Idle
<1>4. World'
  BY DEF IInv, World, Bounce, Outside
<1>5. /\ calls' \in [Callers -> Calls]
      /\ calls'[c] = Idle /\ \A d \in Callers : d # c => calls'[d] = calls[d]
      /\ Cardinality(At(calls', "judged")) = Cardinality(At(calls, "judged")) - 1
      /\ At(calls', "landed") = At(calls, "landed")
  <2>1. "judged" # "idle" /\ "landed" # "judged" /\ "landed" # "idle"
    OBVIOUS
  <2>. QED
    BY <1>1, <1>2, <1>3, <2>1, AtMoves
<1>6. Calling'
  BY <1>1, <1>3, <1>5 DEF IInv, Calling
<1>7. Times'
  BY <1>1, <1>2, RebuiltTimes DEF IInv, Journaled
<1>8. Counted'
  <2>1. /\ Cardinality(At(calls, "judged")) \in Nat /\ Cardinality(Callers) \in Nat
        /\ MaxLanded \in Nat /\ Len(landed) \in Nat
    BY AtIsFinite, BoundsAssumption, FS_CardinalityType DEF IInv, Times
  <2>2. /\ forgotten \in Nat
        /\ forgotten + Cardinality(At(calls, "landed")) + Len(journal) = Len(landed)
        /\ Len(landed) + Cardinality(At(calls, "judged")) <= MaxLanded + Cardinality(Callers)
    BY DEF IInv, Counted
  <2>3. journal' = journal /\ landed' = landed /\ forgotten' = forgotten
    BY <1>1 DEF Journaled
  <2>4. Len(landed) + Cardinality(At(calls', "judged")) <= MaxLanded + Cardinality(Callers)
    BY <1>5, <2>1, <2>2
  <2>. QED
    BY <1>5, <2>2, <2>3, <2>4 DEF Counted
<1>. QED
  BY <1>4, <1>6, <1>7, <1>8 DEF IInv

LEMMA RecordKeeps == ASSUME IInv, NEW c \in Callers, Record(c) PROVE IInv'
<1>1. /\ calls' = [calls EXCEPT ![c] = Idle] /\ calls[c].stage = "landed"
      /\ journal' = Append(journal, now) /\ ledger' = Rebuilt(journal')
      /\ UNCHANGED <<now, landed, forgotten>>
  BY DEF Record, Outside
<1>2. calls \in [Callers -> Calls] /\ now \in Nat
  BY DEF IInv, Calling, World
<1>3. Idle \in Calls /\ Idle.stage = "idle"
  BY DEF Calls, Idle
<1>4. World'
  BY DEF IInv, World, Record, Outside
<1>5. /\ calls' \in [Callers -> Calls]
      /\ calls'[c] = Idle /\ \A d \in Callers : d # c => calls'[d] = calls[d]
      /\ Cardinality(At(calls', "landed")) = Cardinality(At(calls, "landed")) - 1
      /\ At(calls', "judged") = At(calls, "judged")
  <2>1. "landed" # "idle" /\ "judged" # "landed" /\ "judged" # "idle"
    OBVIOUS
  <2>. QED
    BY <1>1, <1>2, <1>3, <2>1, AtMoves
<1>6. Calling'
  BY <1>1, <1>3, <1>5 DEF IInv, Calling
<1>7. /\ journal \in Seq(Nat) /\ (\A i \in DOMAIN journal : journal[i] <= now) /\ Sorted(journal)
      /\ Len(journal) \in Nat
  BY DEF IInv, Times
<1>8. Times'
  <2>. DEFINE n == Len(journal) + 1
  <2>1. /\ journal' \in Seq(Nat) /\ DOMAIN journal = 1 .. Len(journal) /\ DOMAIN journal' = 1 .. n
        /\ journal'[n] = now /\ \A i \in 1 .. Len(journal) : journal'[i] = journal[i]
    BY <1>1, <1>2, <1>7
  <2>2. \A i \in DOMAIN journal' : journal'[i] <= now /\ journal'[i] \in Nat
    BY <1>2, <1>7, <2>1
  <2>3. Sorted(journal')
    <3>. SUFFICES ASSUME NEW i \in DOMAIN journal', NEW j \in DOMAIN journal', i <= j
                  PROVE  journal'[i] <= journal'[j]
      BY DEF Sorted
    <3>1. CASE j = n
      BY <2>1, <2>2, <3>1
    <3>2. CASE j # n
      <4>1. i \in DOMAIN journal /\ j \in DOMAIN journal
        BY <1>7, <2>1, <3>2
      <4>. QED
        BY <1>7, <2>1, <4>1 DEF Sorted
    <3>. QED
      BY <3>1, <3>2
  <2>4. /\ ledger'.proposals = journal' /\ ledger'.builtAt = now
        /\ ledger'.rolled = Cardinality(Later(journal', now - RolledWindow))
    BY <1>1 DEF Rebuilt, Later
  <2>5. landed' = landed /\ now' = now /\ 0 <= now
    BY <1>1, <1>2
  <2>. HIDE DEF n
  <2>. QED
    BY <1>2, <2>1, <2>2, <2>3, <2>4, <2>5 DEF IInv, Times
<1>9. Counted'
  <2>1. Cardinality(At(calls, "landed")) \in Nat
    BY AtIsFinite
  <2>2. /\ forgotten \in Nat
        /\ forgotten + Cardinality(At(calls, "landed")) + Len(journal) = Len(landed)
        /\ Len(landed) + Cardinality(At(calls, "judged")) <= MaxLanded + Cardinality(Callers)
    BY DEF IInv, Counted
  <2>3. Len(journal') = Len(journal) + 1 /\ landed' = landed /\ forgotten' = forgotten
    BY <1>1, <1>2, <1>7
  <2>4. forgotten + Cardinality(At(calls', "landed")) + Len(journal') = Len(landed)
    BY <1>5, <1>7, <2>1, <2>2, <2>3
  <2>. QED
    BY <1>5, <2>2, <2>3, <2>4 DEF Counted
<1>. QED
  BY <1>4, <1>6, <1>8, <1>9 DEF IInv

(* The operator cancels, or the change is applied: the ledger is rebuilt   *)
(* from the journal there is.                                              *)
LEMMA CancelOrApplyKeeps == ASSUME IInv, Cancel \/ Apply PROVE IInv'
<1>1. Journaled /\ UNCHANGED <<now, calls, landed, forgotten>>
  BY DEF Cancel, Apply, Outside
<1>2. now \in Nat /\ UNCHANGED journal
  BY <1>1 DEF IInv, World, Journaled
<1>3. Times' /\ Counted'
  BY <1>1, <1>2, RebuiltTimes, StillCounted DEF IInv, Journaled
<1>4. Calling'
  BY <1>1 DEF IInv, Calling
<1>5. World'
  <2>1. CASE Cancel
    BY <2>1 DEF IInv, World, Cancel, Outside
  <2>2. CASE Apply
    <3>1. /\ pending # NoChange /\ book' = pending.targets /\ lastRebalance' = now
          /\ pending' = NoChange
      BY <2>2 DEF Apply
    <3>2. book' \in Candidates /\ lastRebalance' \in -1 .. now
      BY <1>2, <3>1 DEF IInv, World
    <3>. QED
      BY <1>1, <2>2, <3>1, <3>2 DEF IInv, World, Apply, Outside
  <2>. QED
    BY <2>1, <2>2
<1>. QED
  BY <1>3, <1>4, <1>5 DEF IInv

(* A restart loses the calls in the air: what landed and was not recorded  *)
(* is forgotten.                                                           *)
LEMMA RestartKeeps == ASSUME IInv, Restart PROVE IInv'
<1>1. /\ calls' = [c \in Callers |-> Idle] /\ ledger' = Rebuilt(journal)
      /\ forgotten' = forgotten + Cardinality({c \in Callers : calls[c].stage = "landed"})
      /\ UNCHANGED <<now, journal, landed>>
  BY DEF Restart
<1>2. World' /\ now \in Nat
  BY DEF IInv, World, Restart
<1>3. Calling'
  BY <1>1 DEF Calling, Calls, Idle
<1>4. Times'
  BY <1>1, <1>2, RebuiltTimes DEF IInv
<1>5. Counted'
  <2>1. At(calls', "landed") = {} /\ At(calls', "judged") = {}
    BY <1>1 DEF At, Idle
  <2>2. Cardinality(At(calls', "landed")) = 0 /\ Cardinality(At(calls', "judged")) = 0
    BY <2>1, FS_EmptySet
  <2>3. forgotten' = forgotten + Cardinality(At(calls, "landed"))
    BY <1>1 DEF At
  <2>4. /\ Cardinality(At(calls, "landed")) \in Nat /\ Cardinality(At(calls, "judged")) \in Nat
        /\ MaxLanded + Cardinality(Callers) \in Nat /\ Len(landed) \in Nat /\ Len(journal) \in Nat
    BY AtIsFinite, BoundsAssumption, FS_CardinalityType DEF IInv, Times
  <2>5. /\ forgotten \in Nat
        /\ forgotten + Cardinality(At(calls, "landed")) + Len(journal) = Len(landed)
        /\ Len(landed) + Cardinality(At(calls, "judged")) <= MaxLanded + Cardinality(Callers)
    BY DEF IInv, Counted
  <2>6. /\ forgotten' \in Nat
        /\ forgotten' + Cardinality(At(calls', "landed")) + Len(journal) = Len(landed)
        /\ Len(landed) + Cardinality(At(calls', "judged")) <= MaxLanded + Cardinality(Callers)
    BY <2>2, <2>3, <2>4, <2>5
  <2>. QED
    BY <1>1, <2>6 DEF Counted
<1>. QED
  BY <1>2, <1>3, <1>4, <1>5 DEF IInv

LEMMA TickKeeps == ASSUME IInv, Tick PROVE IInv'
<1>1. /\ now < MaxNow /\ now' = now + 1
      /\ \A c \in Callers : calls[c].stage = "idle" \/ calls[c].at = now
      /\ UNCHANGED <<policy, catalogue, portfolioRow, book, pending, lastRebalance, ledger, journal,
                     calls, landed, forgotten>>
  BY DEF Tick
<1>2. now \in Nat /\ MaxNow \in Nat /\ now' \in 0 .. MaxNow /\ now <= now'
  BY <1>1, BoundsAssumption DEF IInv, World
<1>3. World'
  BY <1>1, <1>2 DEF IInv, World
<1>4. Calling'
  BY <1>1, <1>2 DEF IInv, Calling
<1>5. Times'
  <2>1. /\ \A i \in DOMAIN landed : landed[i] \in Nat /\ landed[i] <= now'
        /\ \A i \in DOMAIN journal : journal[i] \in Nat /\ journal[i] <= now'
        /\ ledger.builtAt \in 0 .. now'
    BY <1>1, <1>2 DEF IInv, Times
  <2>. QED
    BY <1>1, <2>1 DEF IInv, Times
<1>6. Counted'
  BY <1>1, StillCounted
<1>. QED
  BY <1>3, <1>4, <1>5, <1>6 DEF IInv

LEMMA TurnsKeep == ASSUME IInv, ApiTurns \/ \E p \in DOMAIN Good : RowTurns(p) PROVE IInv'
<1>1. /\ UNCHANGED <<now, policy, book, pending, lastRebalance, ledger, journal, calls, landed,
                     forgotten>>
      /\ portfolioRow' \in Answers \union {WholeRow}
  BY DEF IInv, World, ApiTurns, RowTurns
<1>2. /\ catalogue' \in [DOMAIN Good -> Rows]
      /\ \A p \in DOMAIN Good : catalogue'[p] \in Variants[p] \union {Good[p]}
  <2>1. CASE ApiTurns
    BY <2>1 DEF IInv, World, ApiTurns
  <2>2. ASSUME NEW p \in DOMAIN Good, RowTurns(p)
      PROVE  /\ catalogue' \in [DOMAIN Good -> Rows]
             /\ \A q \in DOMAIN Good : catalogue'[q] \in Variants[q] \union {Good[q]}
    <3>1. PICK row \in Variants[p] \union {Good[p]} : catalogue' = [catalogue EXCEPT ![p] = row]
      BY <2>2 DEF RowTurns
    <3>2. row \in Rows
      BY CatalogueAssumption
    <3>. QED
      BY <3>1, <3>2 DEF IInv, World
  <2>. QED
    BY <2>1, <2>2
<1>3. World'
  BY <1>1, <1>2 DEF IInv, World
<1>. QED
  BY <1>1, <1>3 DEF IInv, Calling, Times, Counted

LEMMA Keeps == ASSUME IInv, [Next]_vars PROVE IInv'
<1>1. CASE UNCHANGED vars
  <2>1. /\ UNCHANGED <<now, policy, catalogue, portfolioRow, book, pending, lastRebalance>>
        /\ UNCHANGED <<ledger, journal, calls, landed, forgotten>>
    BY <1>1 DEF vars
  <2>2. World' /\ Calling' /\ Times'
    BY <2>1 DEF IInv, World, Calling, Times
  <2>. QED
    BY <2>1, <2>2, StillCounted DEF IInv
<1>2. CASE \E targets \in Candidates : Simulate(targets) \/ \E c \in Callers : Judge(c, targets)
  BY <1>2, SimulateKeeps, JudgeKeeps
<1>3. CASE \E c \in Callers : Land(c) \/ Bounce(c) \/ Record(c)
  BY <1>3, LandKeeps, BounceKeeps, RecordKeeps
<1>4. CASE Cancel \/ Apply \/ Restart \/ Tick
  BY <1>4, CancelOrApplyKeeps, RestartKeeps, TickKeeps
<1>5. CASE ApiTurns \/ \E p \in DOMAIN Good : RowTurns(p)
  BY <1>5, TurnsKeep
<1>. QED
  BY <1>1, <1>2, <1>3, <1>4, <1>5 DEF Next

LEMMA Inductive == Spec => []IInv
<1>1. IInv /\ [Next]_vars => IInv'
  BY Keeps
<1>. QED
  BY <1>1, Initially, PTL DEF Spec

(* Every value the proposer's half of the signer keeps is one it can have: *)
(* no more proposals land than were admitted, and the ledger is the        *)
(* journal.                                                                *)
THEOREM TypesCorrect == Spec => []TypeOK
<1>1. IInv => TypeOK
  <2>. SUFFICES ASSUME IInv PROVE TypeOK
    OBVIOUS
  <2>1. /\ Cardinality(At(calls, "landed")) \in Nat /\ Cardinality(At(calls, "judged")) \in Nat
        /\ MaxLanded + Cardinality(Callers) \in Nat /\ Len(landed) \in Nat /\ Len(journal) \in Nat
    BY AtIsFinite, BoundsAssumption, FS_CardinalityType DEF IInv, Times
  <2>2. Len(landed) <= MaxLanded + Cardinality(Callers) /\ forgotten \in 0 .. Len(landed)
    BY <2>1 DEF IInv, Counted
  <2>. QED
    BY <2>2 DEF IInv, World, Times, TypeOK, Documents
<1>. QED
  BY <1>1, Inductive, PTL
-----------------------------------------------------------------------------
(***************************************************************************)
(* The quota.  What landed later than a moment is journaled later than it, *)
(* about to be journaled, or lost in a crash; what was judged found room   *)
(* in the journal.  The documents the signer is restarted with agree on    *)
(* the quota: a signer given a tighter one is over it at once.             *)
(***************************************************************************)
SameQuota ==
  \A a, b \in Documents : a.quotaWindow = b.quotaWindow /\ a.maxProposals = b.maxProposals

Covered ==
  \A x \in Int : Cardinality(Later(landed, x)) <=
                   Cardinality(Later(journal, x)) + Cardinality(At(calls, "landed")) + forgotten
Room ==
  Cardinality(Later(landed, now - policy.quotaWindow)) + Cardinality(At(calls, "judged"))
    <= policy.maxProposals - 1 + Cardinality(Callers) + forgotten
QInv == IInv /\ Covered /\ Room /\ QuotaBound

(* The counts and limits the argument adds up are numbers.                 *)
LEMMA Counts ==
  ASSUME IInv
  PROVE  /\ Cardinality(Callers) \in Nat \ {0} /\ forgotten \in Nat /\ now \in Nat
         /\ policy.quotaWindow \in Nat /\ policy.maxProposals \in Nat
         /\ \A stage : Cardinality(At(calls, stage)) \in Nat
         /\ Cardinality(At(calls, "judged")) + Cardinality(At(calls, "landed")) <= Cardinality(Callers)
         /\ \A x : Cardinality(Later(landed, x)) \in Nat /\ Cardinality(Later(journal, x)) \in Nat
<1>1. Cardinality(Callers) \in Nat /\ Cardinality(Callers) # 0
  BY BoundsAssumption, FS_CardinalityType, FS_EmptySet
<1>2. policy.quotaWindow \in Nat /\ policy.maxProposals \in Nat /\ now \in Nat
  BY CadenceNumbers DEF IInv, World
<1>3. /\ \A stage : Cardinality(At(calls, stage)) \in Nat
      /\ Cardinality(At(calls, "judged")) + Cardinality(At(calls, "landed")) <= Cardinality(Callers)
  BY AtIsFinite
<1>4. \A x : Cardinality(Later(landed, x)) \in Nat /\ Cardinality(Later(journal, x)) \in Nat
  BY LaterIsFinite DEF IInv, Times
<1>. QED
  BY <1>1, <1>2, <1>3, <1>4 DEF IInv, Counted

(* The journal's window is what came after its start.                      *)
LEMMA WindowIsLater ==
  ASSUME IInv, NEW W \in Nat
  PROVE  InWindow(ledger.proposals, now, W) = Later(journal, now - W)
BY DEF IInv, Times, InWindow, Later

LEMMA JudgedFoundRoom ==
  ASSUME IInv, NEW targets, Verdict(targets) = {}
  PROVE  Cardinality(Later(journal, now - policy.quotaWindow)) <= policy.maxProposals - 1
<1>. DEFINE full == Recent(policy, ledger, now) >= policy.maxProposals
            rest == EvaluateTargets(policy, targets, catalogue, Book)
            wait == When(pending # NoChange, Breach("TARGETS_PENDING"))
            inputs == MissingInputs(policy, targets, catalogue, Book)
            cadence == Cadence(policy, ledger, lastRebalance, now)
<1>1. Verdict(targets) = rest \union cadence \union wait \union inputs
  BY DEF Verdict, EvaluateProposal
<1>2. cadence = When(TooSoon(policy, lastRebalance, now), Breach("PROPOSAL_TOO_SOON"))
                \union When(full, Breach("PROPOSAL_QUOTA"))
                \union When(~InsideHours(policy, now), Breach("OUTSIDE_WINDOW"))
  BY DEF Cadence
<1>. HIDE DEF full, rest, wait, inputs, cadence
<1>3. ~full
  BY <1>1, <1>2, Whens
<1>. DEFINE listed == Cardinality(Later(journal, now - policy.quotaWindow))
<1>4. /\ listed \in Nat /\ policy.maxProposals \in Nat /\ policy.quotaWindow \in Nat
      /\ listed = Cardinality(InWindow(ledger.proposals, now, policy.quotaWindow))
  BY Counts, WindowIsLater
<1>5. ledger.rolled \in Nat
  BY LaterIsFinite DEF IInv, Times
<1>6. Recent(policy, ledger, now) = IF ledger.rolled > listed THEN ledger.rolled ELSE listed
  BY <1>4 DEF Recent
<1>. HIDE DEF listed
<1>7. Recent(policy, ledger, now) \in Nat /\ listed <= Recent(policy, ledger, now)
  BY <1>4, <1>5, <1>6
<1>8. listed <= policy.maxProposals - 1
  BY <1>3, <1>4, <1>7 DEF full
<1>. QED
  BY <1>8 DEF listed

LEMMA QuotaInitially == ASSUME Init PROVE QInv
<1>1. IInv
  BY Initially
<1>2. landed = <<>> /\ forgotten = 0 /\ At(calls, "judged") = {}
  BY DEF Init, At, Idle
<1>3. \A x : Later(landed, x) = {}
  BY <1>2 DEF Later
<1>4. Cardinality({}) = 0
  BY FS_EmptySet
<1>5. Covered
  <2>1. ASSUME NEW x \in Int
        PROVE  Cardinality(Later(landed, x)) <=
                 Cardinality(Later(journal, x)) + Cardinality(At(calls, "landed")) + forgotten
    <3>1. /\ Cardinality(Later(journal, x)) \in Nat /\ Cardinality(At(calls, "landed")) \in Nat
          /\ forgotten \in Nat
      BY <1>1, Counts
    <3>2. Cardinality(Later(landed, x)) = 0
      BY <1>3, <1>4
    <3>. QED
      BY <3>1, <3>2
  <2>. QED
    BY <2>1 DEF Covered
<1>6. Room
  <2>1. 0 + 0 <= policy.maxProposals - 1 + Cardinality(Callers) + 0
    BY <1>1, Counts
  <2>. QED
    BY <1>2, <1>3, <1>4, <2>1 DEF Room
<1>7. QuotaBound
  BY <1>2 DEF QuotaBound
<1>. QED
  BY <1>1, <1>5, <1>6, <1>7 DEF QInv

(* A step that lands nothing keeps the bound, if the quota it is under and *)
(* what was forgotten do not shrink.                                       *)
LEMMA BoundStays ==
  ASSUME QInv, IInv', landed' = landed, forgotten' >= forgotten,
         policy'.quotaWindow = policy.quotaWindow, policy'.maxProposals = policy.maxProposals
  PROVE  QuotaBound'
<1>. SUFFICES ASSUME NEW k \in DOMAIN landed
              PROVE  Cardinality({i \in 1 .. k : landed[i] > landed[k] - policy.quotaWindow})
                       <= policy.maxProposals - 1 + Cardinality(Callers) + forgotten'
  BY DEF QuotaBound
<1>. DEFINE w == Cardinality({i \in 1 .. k : landed[i] > landed[k] - policy.quotaWindow})
<1>1. w <= policy.maxProposals - 1 + Cardinality(Callers) + forgotten
  BY DEF QInv, QuotaBound
<1>2. w \in Nat
  <2>1. /\ IsFiniteSet(1 .. k)
        /\ {i \in 1 .. k : landed[i] > landed[k] - policy.quotaWindow} \in SUBSET (1 .. k)
    BY FS_Interval DEF QInv, IInv, Times
  <2>. QED
    BY <2>1, FS_Subset, FS_CardinalityType
<1>3. /\ forgotten' \in Nat /\ forgotten \in Nat /\ policy.maxProposals \in Nat
      /\ Cardinality(Callers) \in Nat
  BY Counts DEF QInv, IInv, Counted
<1>. HIDE DEF w
<1>4. w <= policy.maxProposals - 1 + Cardinality(Callers) + forgotten'
  BY <1>1, <1>2, <1>3
<1>. QED
  BY <1>4 DEF w

(* A step that moves no call and keeps both lists, the clock going forward.*)
LEMMA QuietKeepsQuota ==
  ASSUME QInv, IInv', UNCHANGED <<policy, calls, landed, journal, forgotten>>, now <= now'
  PROVE  QInv'
<1>1. IInv
  BY DEF QInv
<1>2. Covered'
  BY DEF QInv, Covered
<1>3. Room'
  <2>. DEFINE x == now - policy.quotaWindow  y == now' - policy.quotaWindow
  <2>1. x \in Int /\ y \in Int /\ x <= y /\ landed \in Seq(Nat)
    <3>1. now' \in Nat /\ now \in Nat /\ policy.quotaWindow \in Nat
      BY <1>1, Counts DEF IInv, World
    <3>. QED
      BY <1>1, <3>1 DEF IInv, Times
  <2>2. Cardinality(Later(landed, y)) <= Cardinality(Later(landed, x))
    BY <2>1, LaterShrinks
  <2>3. /\ Cardinality(Later(landed, y)) \in Nat /\ Cardinality(Later(landed, x)) \in Nat
        /\ Cardinality(At(calls, "judged")) \in Nat
    BY <1>1, Counts
  <2>4. Cardinality(Later(landed, x)) + Cardinality(At(calls, "judged"))
          <= policy.maxProposals - 1 + Cardinality(Callers) + forgotten
    BY DEF QInv, Room
  <2>. HIDE DEF x, y
  <2>5. Cardinality(Later(landed, y)) + Cardinality(At(calls, "judged"))
          <= policy.maxProposals - 1 + Cardinality(Callers) + forgotten
    BY <1>1, <2>2, <2>3, <2>4, Counts
  <2>. QED
    BY <2>5 DEF Room, y
<1>4. QuotaBound'
  BY <1>1, BoundStays, Counts
<1>. QED
  BY <1>2, <1>3, <1>4 DEF QInv

LEMMA JudgeKeepsQuota ==
  ASSUME QInv, NEW c \in Callers, NEW targets \in Candidates, Judge(c, targets)
  PROVE  QInv'
<1>1. IInv /\ IInv'
  BY JudgeKeeps DEF QInv
<1>2. CASE Verdict(targets) = {} /\ GatesOpen
  <2>. DEFINE v == [stage |-> "judged", targets |-> targets, at |-> now, under |-> AdmittedUnder]
  <2>1. /\ calls' = [calls EXCEPT ![c] = v] /\ calls[c].stage = "idle"
        /\ UNCHANGED <<now, policy, journal, landed, forgotten>>
    BY <1>2 DEF Judge, Outside
  <2>2. At(calls', "landed") = At(calls, "landed")
    <3>1. v \in Calls /\ v.stage = "judged" /\ calls \in [Callers -> Calls]
      BY <1>1 DEF Calls, AdmittedUnder, IInv, World, Calling
    <3>2. "idle" # "judged" /\ "landed" # "judged" /\ "landed" # "idle"
      OBVIOUS
    <3>. HIDE DEF v
    <3>. QED
      BY <2>1, <3>1, <3>2, AtMoves
  <2>. HIDE DEF v
  <2>3. Covered'
    BY <2>1, <2>2 DEF QInv, Covered
  <2>4. Room'
    <3>. DEFINE x == now - policy.quotaWindow
                L == Cardinality(Later(landed, x))  J == Cardinality(Later(journal, x))
                jn == Cardinality(At(calls', "judged"))  ln == Cardinality(At(calls', "landed"))
    <3>1. J <= policy.maxProposals - 1
      BY <1>1, <1>2, JudgedFoundRoom
    <3>2. L <= J + ln + forgotten
      <4>1. x \in Int
        BY <1>1, Counts
      <4>. QED
        BY <2>2, <4>1 DEF QInv, Covered
    <3>3. jn + ln <= Cardinality(Callers) /\ jn \in Nat /\ ln \in Nat
      BY AtIsFinite
    <3>4. /\ L \in Nat /\ J \in Nat /\ forgotten \in Nat /\ policy.maxProposals \in Nat
          /\ Cardinality(Callers) \in Nat
      BY <1>1, Counts
    <3>. HIDE DEF x, L, J, jn, ln
    <3>5. L + jn <= policy.maxProposals - 1 + Cardinality(Callers) + forgotten
      BY <3>1, <3>2, <3>3, <3>4
    <3>. QED
      BY <2>1, <3>5 DEF Room, x, L, jn
  <2>5. QuotaBound'
    BY <1>1, <2>1, BoundStays, Counts
  <2>. QED
    BY <1>1, <2>3, <2>4, <2>5 DEF QInv
<1>3. CASE ~(Verdict(targets) = {} /\ GatesOpen)
  <2>1. UNCHANGED <<now, policy, calls, landed, journal, forgotten>>
    BY <1>3 DEF Judge, Outside, Journaled
  <2>2. now <= now'
    BY <1>1, <2>1, Counts
  <2>. QED
    BY <1>1, <2>1, <2>2, QuietKeepsQuota
<1>. QED
  BY <1>2, <1>3

LEMMA LandKeepsQuota == ASSUME QInv, NEW c \in Callers, Land(c) PROVE QInv'
<1>1. IInv /\ IInv'
  BY LandKeeps DEF QInv
<1>. DEFINE v == [calls[c] EXCEPT !.stage = "landed"]
<1>2. /\ calls' = [calls EXCEPT ![c] = v] /\ calls[c].stage = "judged"
      /\ landed' = Append(landed, now)
      /\ UNCHANGED <<now, policy, journal, forgotten>>
  BY DEF Land, Outside
<1>3. /\ Cardinality(At(calls', "landed")) = Cardinality(At(calls, "landed")) + 1
      /\ Cardinality(At(calls', "judged")) = Cardinality(At(calls, "judged")) - 1
  <2>1. v \in Calls /\ v.stage = "landed" /\ calls \in [Callers -> Calls] /\ "judged" # "landed"
    BY <1>1 DEF Calls, IInv, Calling
  <2>. HIDE DEF v
  <2>. QED
    BY <1>2, <2>1, AtMoves
<1>. HIDE DEF v
<1>4. landed \in Seq(Nat) /\ now \in Nat
  BY <1>1, Counts DEF IInv, Times
<1>5. \A x \in Int : /\ Cardinality(Later(landed', x)) <= Cardinality(Later(landed, x)) + 1
                     /\ Cardinality(Later(landed, x)) \in Nat
                     /\ Cardinality(Later(landed', x)) \in Nat
  <2>. SUFFICES ASSUME NEW x \in Int
                PROVE  /\ Cardinality(Later(landed', x)) <= Cardinality(Later(landed, x)) + 1
                       /\ Cardinality(Later(landed, x)) \in Nat
                       /\ Cardinality(Later(landed', x)) \in Nat
    OBVIOUS
  <2>1. Cardinality(Later(landed', x)) = Cardinality(Later(landed, x)) + (IF now > x THEN 1 ELSE 0)
    BY <1>2, <1>4, LaterAppends
  <2>2. Cardinality(Later(landed, x)) \in Nat
    BY <1>1, Counts
  <2>. QED
    BY <2>1, <2>2
<1>6. Covered'
  <2>. SUFFICES ASSUME NEW x \in Int
                PROVE  Cardinality(Later(landed', x)) <=
                         Cardinality(Later(journal, x)) + Cardinality(At(calls', "landed")) + forgotten
    BY <1>2 DEF Covered
  <2>1. Cardinality(Later(landed, x)) <=
          Cardinality(Later(journal, x)) + Cardinality(At(calls, "landed")) + forgotten
    BY DEF QInv, Covered
  <2>2. /\ Cardinality(Later(journal, x)) \in Nat /\ Cardinality(At(calls, "landed")) \in Nat
        /\ forgotten \in Nat
    BY <1>1, Counts
  <2>. QED
    BY <1>3, <1>5, <2>1, <2>2
<1>. DEFINE W == policy.quotaWindow
<1>7. Cardinality(Later(landed', now - W)) + Cardinality(At(calls', "judged"))
        <= policy.maxProposals - 1 + Cardinality(Callers) + forgotten
  <2>1. now - W \in Int
    BY <1>1, Counts
  <2>2. Cardinality(Later(landed, now - W)) + Cardinality(At(calls, "judged"))
          <= policy.maxProposals - 1 + Cardinality(Callers) + forgotten
    BY DEF QInv, Room
  <2>3. /\ Cardinality(At(calls, "judged")) \in Nat /\ Cardinality(Callers) \in Nat
        /\ policy.maxProposals \in Nat /\ forgotten \in Nat
    BY <1>1, Counts
  <2>4. /\ Cardinality(Later(landed', now - W)) <= Cardinality(Later(landed, now - W)) + 1
        /\ Cardinality(Later(landed, now - W)) \in Nat
        /\ Cardinality(Later(landed', now - W)) \in Nat
    BY <1>5, <2>1
  <2>. HIDE DEF W
  <2>. QED
    BY <1>3, <2>2, <2>3, <2>4
<1>8. Room'
  BY <1>2, <1>7 DEF Room
<1>9. QuotaBound'
  <2>. DEFINE n == Len(landed) + 1
  <2>1. /\ DOMAIN landed = 1 .. Len(landed) /\ DOMAIN landed' = 1 .. n /\ Len(landed) \in Nat
        /\ landed'[n] = now /\ \A i \in 1 .. Len(landed) : landed'[i] = landed[i]
    BY <1>2, <1>4
  <2>. SUFFICES ASSUME NEW k \in 1 .. n
                PROVE  Cardinality({i \in 1 .. k : landed'[i] > landed'[k] - W})
                         <= policy.maxProposals - 1 + Cardinality(Callers) + forgotten
    BY <1>2, <2>1 DEF QuotaBound
  <2>2. CASE k = n
    <3>1. {i \in 1 .. k : landed'[i] > landed'[k] - W} = Later(landed', now - W)
      BY <2>1, <2>2 DEF Later
    <3>2. Cardinality(Callers) \in Nat /\ policy.maxProposals \in Nat /\ forgotten \in Nat
      BY <1>1, Counts
    <3>3. Cardinality(At(calls', "judged")) \in Nat
      BY AtIsFinite
    <3>4. now - W \in Int
      BY <1>1, Counts
    <3>5. Cardinality(Later(landed', now - W)) \in Nat
      BY <1>5, <3>4
    <3>6. Cardinality(Later(landed', now - W))
            <= policy.maxProposals - 1 + Cardinality(Callers) + forgotten
      BY <1>7, <3>2, <3>3, <3>5
    <3>. QED
      BY <3>1, <3>6
  <2>3. CASE k # n
    <3>1. k \in DOMAIN landed
      BY <2>1, <2>3
    <3>2. {i \in 1 .. k : landed'[i] > landed'[k] - W} = {i \in 1 .. k : landed[i] > landed[k] - W}
      BY <2>1, <3>1
    <3>. QED
      BY <3>1, <3>2 DEF QInv, QuotaBound
  <2>. QED
    BY <2>2, <2>3
<1>. QED
  BY <1>1, <1>6, <1>8, <1>9 DEF QInv

LEMMA BounceKeepsQuota == ASSUME QInv, NEW c \in Callers, Bounce(c) PROVE QInv'
<1>1. IInv /\ IInv'
  BY BounceKeeps DEF QInv
<1>2. /\ calls' = [calls EXCEPT ![c] = Idle] /\ calls[c].stage = "judged"
      /\ UNCHANGED <<now, policy, journal, landed, forgotten>>
  BY DEF Bounce, Outside, Journaled
<1>3. /\ At(calls', "landed") = At(calls, "landed")
      /\ Cardinality(At(calls', "judged")) = Cardinality(At(calls, "judged")) - 1
  <2>1. /\ Idle \in Calls /\ Idle.stage = "idle" /\ calls \in [Callers -> Calls]
        /\ "judged" # "idle" /\ "landed" # "judged" /\ "landed" # "idle"
    BY <1>1 DEF Calls, Idle, IInv, Calling
  <2>. QED
    BY <1>2, <2>1, AtMoves
<1>4. Covered'
  BY <1>2, <1>3 DEF QInv, Covered
<1>5. Room'
  <2>. DEFINE L == Cardinality(Later(landed, now - policy.quotaWindow))
  <2>1. L + Cardinality(At(calls, "judged"))
          <= policy.maxProposals - 1 + Cardinality(Callers) + forgotten
    BY DEF QInv, Room
  <2>2. /\ L \in Nat /\ Cardinality(At(calls, "judged")) \in Nat /\ Cardinality(Callers) \in Nat
        /\ policy.maxProposals \in Nat /\ forgotten \in Nat
    BY <1>1, Counts
  <2>. HIDE DEF L
  <2>3. L + Cardinality(At(calls', "judged"))
          <= policy.maxProposals - 1 + Cardinality(Callers) + forgotten
    BY <1>3, <2>1, <2>2
  <2>. QED
    BY <1>2, <2>3 DEF Room, L
<1>6. QuotaBound'
  BY <1>1, <1>2, BoundStays, Counts
<1>. QED
  BY <1>1, <1>4, <1>5, <1>6 DEF QInv

LEMMA RecordKeepsQuota == ASSUME QInv, NEW c \in Callers, Record(c) PROVE QInv'
<1>1. IInv /\ IInv'
  BY RecordKeeps DEF QInv
<1>2. /\ calls' = [calls EXCEPT ![c] = Idle] /\ calls[c].stage = "landed"
      /\ journal' = Append(journal, now)
      /\ UNCHANGED <<now, policy, landed, forgotten>>
  BY DEF Record, Outside
<1>3. /\ At(calls', "judged") = At(calls, "judged")
      /\ Cardinality(At(calls', "landed")) = Cardinality(At(calls, "landed")) - 1
  <2>1. /\ Idle \in Calls /\ Idle.stage = "idle" /\ calls \in [Callers -> Calls]
        /\ "landed" # "idle" /\ "judged" # "landed" /\ "judged" # "idle"
    BY <1>1 DEF Calls, Idle, IInv, Calling
  <2>. QED
    BY <1>2, <2>1, AtMoves
<1>4. Covered'
  <2>. SUFFICES ASSUME NEW x \in Int
                PROVE  Cardinality(Later(landed, x)) <=
                         Cardinality(Later(journal', x)) + Cardinality(At(calls', "landed")) + forgotten
    BY <1>2 DEF Covered
  <2>. DEFINE L == Cardinality(Later(landed, x))  J == Cardinality(Later(journal, x))
              l == Cardinality(At(calls, "landed"))
  <2>1. L <= J + l + forgotten
    BY DEF QInv, Covered
  <2>2. L \in Nat /\ J \in Nat /\ l \in Nat /\ forgotten \in Nat
    BY <1>1, Counts
  <2>3. Cardinality(Later(journal', x)) = J + (IF now > x THEN 1 ELSE 0)
    <3>1. journal \in Seq(Nat) /\ now \in Nat
      BY <1>1, Counts DEF IInv, Times
    <3>. QED
      BY <1>2, <3>1, LaterAppends
  <2>4. ~(now > x) => L = 0
    <3>1. ~(now > x) => Later(landed, x) = {}
      <4>1. /\ now \in Nat /\ landed \in Seq(Nat)
            /\ \A i \in DOMAIN landed : landed[i] \in Nat /\ landed[i] <= now
        BY <1>1, Counts DEF IInv, Times
      <4>. QED
        BY <4>1 DEF Later
    <3>. QED
      BY <3>1, FS_EmptySet
  <2>5. l - 1 \in Nat
    <3>1. Cardinality(At(calls', "landed")) \in Nat
      BY AtIsFinite
    <3>. QED
      BY <1>3, <3>1
  <2>. HIDE DEF L, J, l
  <2>6. L <= (J + (IF now > x THEN 1 ELSE 0)) + (l - 1) + forgotten
    <3>1. CASE now > x
      BY <2>1, <2>2, <3>1
    <3>2. CASE ~(now > x)
      BY <2>2, <2>4, <2>5, <3>2
    <3>. QED
      BY <3>1, <3>2
  <2>. QED
    BY <1>3, <2>3, <2>6 DEF L, l
<1>5. Room'
  BY <1>2, <1>3 DEF QInv, Room
<1>6. QuotaBound'
  BY <1>1, <1>2, BoundStays, Counts
<1>. QED
  BY <1>1, <1>4, <1>5, <1>6 DEF QInv

LEMMA RestartKeepsQuota == ASSUME SameQuota, QInv, Restart PROVE QInv'
<1>1. IInv /\ IInv'
  BY RestartKeeps DEF QInv
<1>2. /\ forgotten' = forgotten + Cardinality(At(calls, "landed"))
      /\ UNCHANGED <<now, landed, journal>>
      /\ policy'.quotaWindow = policy.quotaWindow /\ policy'.maxProposals = policy.maxProposals
  BY <1>1 DEF Restart, At, SameQuota, IInv, World
<1>3. Cardinality(At(calls', "landed")) = 0 /\ Cardinality(At(calls', "judged")) = 0
  <2>1. At(calls', "landed") = {} /\ At(calls', "judged") = {}
    BY DEF Restart, At, Idle
  <2>. QED
    BY <2>1, FS_EmptySet
<1>4. /\ Cardinality(At(calls, "landed")) \in Nat /\ Cardinality(At(calls, "judged")) \in Nat
      /\ forgotten \in Nat /\ policy.maxProposals \in Nat /\ Cardinality(Callers) \in Nat
      /\ \A x : Cardinality(Later(landed, x)) \in Nat /\ Cardinality(Later(journal, x)) \in Nat
  BY <1>1, Counts
<1>5. Covered'
  <2>. SUFFICES ASSUME NEW x \in Int
                PROVE  Cardinality(Later(landed, x)) <=
                         Cardinality(Later(journal, x)) + Cardinality(At(calls', "landed")) + forgotten'
    BY <1>2 DEF Covered
  <2>1. Cardinality(Later(landed, x)) <=
          Cardinality(Later(journal, x)) + Cardinality(At(calls, "landed")) + forgotten
    BY DEF QInv, Covered
  <2>2. Cardinality(Later(landed, x)) \in Nat /\ Cardinality(Later(journal, x)) \in Nat
    BY <1>4
  <2>. QED
    BY <1>2, <1>3, <1>4, <2>1, <2>2
<1>6. Room'
  <2>. DEFINE L == Cardinality(Later(landed, now - policy.quotaWindow))
  <2>1. L + Cardinality(At(calls, "judged"))
          <= policy.maxProposals - 1 + Cardinality(Callers) + forgotten
    BY DEF QInv, Room
  <2>2. L \in Nat
    BY <1>4
  <2>3. L + Cardinality(At(calls', "judged"))
          <= policy.maxProposals - 1 + Cardinality(Callers) + forgotten'
    <3>. HIDE DEF L
    <3>. QED
      BY <1>2, <1>3, <1>4, <2>1, <2>2
  <2>. QED
    BY <1>2, <2>3 DEF Room
<1>7. QuotaBound'
  <2>1. forgotten' >= forgotten
    BY <1>2, <1>4
  <2>. QED
    BY <1>1, <1>2, <2>1, BoundStays
<1>. QED
  BY <1>1, <1>5, <1>6, <1>7 DEF QInv

LEMMA QuotaKept == ASSUME SameQuota, QInv, [Next]_vars PROVE QInv'
<1>1. IInv /\ IInv' /\ now \in Nat
  BY Keeps, Counts DEF QInv
<1>2. CASE UNCHANGED vars \/ Cancel \/ Apply \/ Tick \/ ApiTurns
           \/ (\E p \in DOMAIN Good : RowTurns(p)) \/ \E targets \in Candidates : Simulate(targets)
  <2>1. UNCHANGED <<policy, calls, landed, journal, forgotten>> /\ (now' = now \/ now' = now + 1)
    BY <1>2 DEF vars, Cancel, Apply, Tick, ApiTurns, RowTurns, Simulate, Outside, Journaled
  <2>2. now <= now'
    BY <1>1, <2>1
  <2>. QED
    BY <1>1, <2>1, <2>2, QuietKeepsQuota
<1>3. CASE \E c \in Callers : \E targets \in Candidates : Judge(c, targets)
  BY <1>3, JudgeKeepsQuota
<1>4. CASE \E c \in Callers : Land(c) \/ Bounce(c) \/ Record(c)
  BY <1>4, LandKeepsQuota, BounceKeepsQuota, RecordKeepsQuota
<1>5. CASE Restart
  BY <1>5, RestartKeepsQuota
<1>. QED
  BY <1>2, <1>3, <1>4, <1>5 DEF Next

(* Whatever the number of callers, their interleaving and the crashes: the *)
(* proposals that land in a window as long as the quota's are at most the  *)
(* quota, one more for each caller judged together with another, and one   *)
(* for each that landed and was never journaled (policy.js:689-698).       *)
THEOREM QuotaHolds == ASSUME SameQuota PROVE Spec => []QuotaBound
<1>1. QInv /\ [Next]_vars => QInv'
  BY QuotaKept
<1>2. QInv => QuotaBound
  BY DEF QInv
<1>. QED
  BY <1>1, <1>2, QuotaInitially, PTL DEF Spec
-----------------------------------------------------------------------------
(***************************************************************************)
(* init's copy of the rules.  It has no rule for the sum of the weights or *)
(* for the page: the books it reads add up (create_portfolio.mjs:215-216)  *)
(* and fit one.                                                            *)
(***************************************************************************)
WholeBooks ==
  \A doc \in Documents, targets \in Candidates \union {FirstBook} :
    Weight(targets, DOMAIN targets) = doc.sum /\ Cardinality(DOMAIN targets) <= doc.pageLimit

(* Whatever the documents, the catalogue and its gaps: a book init and the *)
(* doctor pass is one the signer's rules on universe and shape pass, and   *)
(* one the signer passes they refuse only for a pool without a cap of its  *)
(* own (policy-check.mjs:1-6).                                             *)
THEOREM InitReadsAlike == ASSUME WholeBooks PROVE Spec => []InitAgrees
<1>1. IInv => InitAgrees
  <2>. SUFFICES ASSUME IInv, NEW doc \in Documents, NEW targets \in Candidates \union {book}
                PROVE  LET items    == BookItems(doc, targets, catalogue)
                           refusals == EvaluateTargets(doc, targets, catalogue, Held(targets))
                       IN  /\ items = {} => refusals = {}
                           /\ refusals = {} /\ (\A p \in DOMAIN targets : catalogue[p].cap # Unknown)
                                => items = {}
    BY DEF InitAgrees, Held
  <2>1. targets \in Candidates \union {FirstBook} /\ catalogue \in [DOMAIN Good -> Rows]
    BY DEF IInv, World
  <2>2. Weighs(targets)
    BY <2>1, CatalogueAssumption DEF Weighs
  <2>3. Weight(targets, DOMAIN targets) = doc.sum /\ Cardinality(DOMAIN targets) <= doc.pageLimit
    BY <2>1 DEF WholeBooks
  <2>. QED
    BY <2>1, <2>2, <2>3, InitAndSignerAgree
<1>. QED
  BY <1>1, Inductive, PTL
-----------------------------------------------------------------------------
(***************************************************************************)
(* The hold.  What a proposer was told accounts for the cadence and, once  *)
(* that moment has come, leaves room in the journal.                       *)
(***************************************************************************)
Told ==
  told # ToldNothing /\ policy.maxProposals > 0 =>
    /\ told.until \in Nat /\ told.journaled \in 0 .. Len(journal)
    /\ Ready(policy, told.rebalanced) <= told.until
    /\ told.journaled = Len(journal) =>
         Cardinality(Later(journal, told.until - policy.quotaWindow)) < policy.maxProposals
HInv == IInv /\ Told

(* Every rank up to its size is the rank of a member of a set of numbers.  *)
LEMMA Ranked ==
  ASSUME NEW n \in Nat, NEW S \in SUBSET (1 .. n), NEW k \in 1 .. Cardinality(S)
  PROVE  \E i \in S : Cardinality({j \in S : j <= i}) = k
<1>. DEFINE B(m) == {j \in S : j <= m}  T == {m \in Nat : Cardinality(B(m)) >= k}
<1>0. IsFiniteSet(S) /\ Cardinality(S) \in Nat
  <2>1. IsFiniteSet(1 .. n)
    BY FS_Interval
  <2>. QED
    BY <2>1, FS_Subset, FS_CardinalityType
<1>a. (\A j \in S : j \in Nat /\ 1 <= j /\ j <= n) /\ k \in Nat /\ 1 <= k /\ k <= Cardinality(S)
  <2>1. k \in Nat /\ 1 <= k /\ k <= Cardinality(S)
    BY <1>0
  <2>. QED
    BY <2>1
<1>1. \A m : IsFiniteSet(B(m)) /\ Cardinality(B(m)) \in Nat
  <2>1. \A m : B(m) \in SUBSET S
    OBVIOUS
  <2>. HIDE DEF B
  <2>. QED
    BY <1>0, <2>1, FS_Subset, FS_CardinalityType
<1>2. T # {}
  <2>1. B(n) = S
    BY <1>a
  <2>2. Cardinality(B(n)) >= k
    BY <1>0, <1>a, <2>1
  <2>. QED
    BY <2>2
<1>3. PICK m \in T : \A y \in T : m <= y
  <2>1. T \in SUBSET Nat
    OBVIOUS
  <2>. HIDE DEF T
  <2>. QED
    BY <1>2, <2>1, LeastNat
<1>4. m \in Nat /\ Cardinality(B(m)) >= k
  OBVIOUS
<1>5. m # 0
  <2>. SUFFICES ASSUME m = 0 PROVE FALSE
    OBVIOUS
  <2>0. \A j \in S : ~(j <= 0)
    BY <1>a
  <2>1. B(m) = {}
    BY <2>0
  <2>. HIDE DEF B
  <2>2. Cardinality(B(m)) = 0
    BY <2>1, FS_EmptySet
  <2>. QED
    BY <1>a, <1>4, <2>2
<1>6. m - 1 \in Nat /\ Cardinality(B(m - 1)) < k
  <2>0. m - 1 \in Nat /\ ~(m <= m - 1)
    <3>1. m \in Nat
      BY <1>4
    <3>. HIDE DEF T
    <3>. QED
      BY <1>5, <3>1
  <2>1. m - 1 \in Nat /\ m - 1 \notin T
    <3>. HIDE DEF T
    <3>. QED
      BY <1>3, <2>0
  <2>2. ~(Cardinality(B(m - 1)) >= k)
    BY <2>1
  <2>. HIDE DEF B
  <2>. QED
    BY <1>a, <1>1, <2>1, <2>2
<1>7. m \in S
  <2>. SUFFICES ASSUME m \notin S PROVE FALSE
    OBVIOUS
  <2>1. \A j \in S : j <= m <=> j <= m - 1
    BY <1>a, <1>4
  <2>2. B(m) = B(m - 1)
    BY <2>1
  <2>. HIDE DEF B
  <2>. QED
    BY <1>a, <1>1, <1>4, <1>6, <2>2
<1>8. Cardinality(B(m)) = k
  <2>0. /\ \A j \in S : j <= m <=> j <= m - 1 \/ j = m
        /\ ~(m <= m - 1)
    BY <1>a, <1>4
  <2>1. B(m) = B(m - 1) \union {m} /\ m \notin B(m - 1)
    BY <1>7, <2>0
  <2>. HIDE DEF B
  <2>2. Cardinality(B(m)) = Cardinality(B(m - 1)) + 1
    BY <1>1, <2>1, FS_AddElement
  <2>. QED
    BY <1>a, <1>1, <1>4, <1>6, <2>2
<1>. QED
  BY <1>7, <1>8

(* A moment is never moved before itself by the hours.                     *)
LEMMA InsideIsLater ==
  ASSUME NEW doc \in Documents, NEW x \in Nat
  PROVE  NextInside(doc, x) \in Nat /\ x <= NextInside(doc, x)
<1>1. doc.day \in Nat \ {0} /\ doc.fromHour \in Nat
  BY CadenceNumbers
<1>2. Hour(doc, x) \in Nat /\ Hour(doc, x) < doc.day /\ Hour(doc, x) <= x
  <2>1. \A a \in Nat, b \in Nat \ {0} : a % b \in Nat /\ a % b < b /\ a % b <= a
    BY Z3
  <2>. QED
    BY <1>1, <2>1 DEF Hour
<1>. DEFINE open == x - Hour(doc, x) + doc.fromHour
<1>3. open \in Nat /\ x <= open + doc.day
  BY <1>1, <1>2
<1>4. NextInside(doc, x) =
        IF InsideHours(doc, x) THEN x ELSE IF x < open THEN open ELSE open + doc.day
  BY DEF NextInside
<1>. HIDE DEF open
<1>5. x <= x /\ (x < open => x <= open) /\ open + doc.day \in Nat
  BY <1>1, <1>3
<1>. QED
  BY <1>3, <1>4, <1>5

(* From the moment the quota is said to free on, the window has room.      *)
LEMMA QuotaFreesInTime ==
  ASSUME IInv, policy.maxProposals > 0,
         NEW u \in Nat, now <= u, QuotaFrees(policy, ledger, now) <= u
  PROVE  Cardinality(Later(journal, u - policy.quotaWindow)) < policy.maxProposals
<1>. DEFINE W == policy.quotaWindow  max == policy.maxProposals
            S == Later(journal, now - W)  n == Cardinality(S)  L == Later(journal, u - W)
            nth == n - max + 1
<1>1. /\ W \in Nat /\ max \in Nat /\ now \in Nat /\ n \in Nat /\ Cardinality(L) \in Nat
      /\ journal \in Seq(Nat) /\ Sorted(journal) /\ \A i \in DOMAIN journal : journal[i] <= now
  BY Counts DEF IInv, Times
<1>2. InWindow(ledger.proposals, now, W) = S /\ ledger.proposals = journal
  BY <1>1, WindowIsLater DEF IInv, Times
<1>3. L \in SUBSET S /\ Cardinality(L) <= n
  <2>1. L \in SUBSET S
    BY <1>1 DEF Later
  <2>2. u - W \in Int /\ now - W \in Int /\ now - W <= u - W
    BY <1>1
  <2>. QED
    BY <1>1, <2>1, <2>2, LaterShrinks
<1>4. CASE Recent(policy, ledger, now) < max
  <2>1. ledger.rolled \in Nat
    BY LaterIsFinite DEF IInv, Times
  <2>2. Recent(policy, ledger, now) = IF ledger.rolled > n THEN ledger.rolled ELSE n
    BY <1>2 DEF Recent
  <2>. HIDE DEF n, S, L, W, max
  <2>3. Cardinality(L) < max
    BY <1>1, <1>3, <1>4, <2>1, <2>2
  <2>. QED
    BY <2>3 DEF L, max, W
<1>5. CASE ~(Recent(policy, ledger, now) < max) /\ nth < 1
  <2>1. QuotaFrees(policy, ledger, now) = now + W
    BY <1>2, <1>5 DEF QuotaFrees
  <2>2. L = {}
    BY <1>1, <2>1 DEF Later
  <2>. HIDE DEF L
  <2>3. Cardinality(L) = 0
    BY <2>2, FS_EmptySet
  <2>. QED
    BY <1>1, <2>3 DEF L
<1>6. CASE ~(Recent(policy, ledger, now) < max) /\ ~(nth < 1)
  <2>. DEFINE Rank(i) == Cardinality({j \in S : j <= i})
              i == CHOOSE i \in S : Rank(i) = nth
  <2>1. QuotaFrees(policy, ledger, now) = journal[i] + W
    BY <1>2, <1>6 DEF QuotaFrees
  <2>2. nth \in 1 .. n /\ DOMAIN journal = 1 .. Len(journal) /\ Len(journal) \in Nat
    <3>. HIDE DEF n
    <3>. QED
      BY <1>1, <1>6
  <2>3. S \in SUBSET (1 .. Len(journal))
    BY <2>2 DEF Later
  <2>4. \E k \in S : Rank(k) = nth
    <3>. HIDE DEF S, nth
    <3>. QED
      BY <2>2, <2>3, Ranked DEF n
  <2>5. i \in S /\ Rank(i) = nth
    <3>. HIDE DEF S, nth, Rank
    <3>. QED
      BY <2>4
  <2>. HIDE DEF i
  <2>. DEFINE low == {j \in S : j <= i}
  <2>6. L \in SUBSET (S \ low)
    <3>. SUFFICES ASSUME NEW j \in L, j <= i PROVE FALSE
      BY <1>3
    <3>1. i \in DOMAIN journal /\ j \in DOMAIN journal /\ journal[j] > u - W
      BY <2>5 DEF Later
    <3>2. journal[j] <= journal[i] /\ journal[i] \in Nat /\ journal[j] \in Nat
      BY <1>1, <3>1 DEF Sorted
    <3>. HIDE DEF W
    <3>. QED
      BY <1>1, <2>1, <3>1, <3>2
  <2>7. IsFiniteSet(S) /\ IsFiniteSet(low) /\ low \in SUBSET S
    <3>1. IsFiniteSet(S) /\ low \in SUBSET S
      BY <1>1, LaterIsFinite
    <3>. HIDE DEF S, low
    <3>. QED
      BY <3>1, FS_Subset
  <2>8. Cardinality(low) = nth
    BY <2>5
  <2>. HIDE DEF S, low, L
  <2>9. Cardinality(S \ low) = n - nth /\ IsFiniteSet(S \ low)
    <3>1. /\ Cardinality(S \ low) = Cardinality(S) - Cardinality(S \intersect low)
          /\ IsFiniteSet(S \ low)
      BY <2>7, FS_Difference
    <3>2. S \intersect low = low
      BY <2>7
    <3>. QED
      BY <2>8, <3>1, <3>2
  <2>10. Cardinality(L) <= n - nth
    BY <2>6, <2>9, FS_Subset
  <2>11. n - nth = max - 1
    <3>. HIDE DEF n, max
    <3>. QED
      BY <1>1
  <2>. HIDE DEF n, nth
  <2>12. Cardinality(L) < max
    BY <1>1, <2>10, <2>11
  <2>. QED
    BY <2>12 DEF L
<1>. QED
  BY <1>4, <1>5, <1>6

LEMMA QuotaFreesNat ==
  ASSUME IInv, policy.maxProposals > 0
  PROVE  QuotaFrees(policy, ledger, now) \in Nat
<1>. DEFINE W == policy.quotaWindow  max == policy.maxProposals
            S == Later(journal, now - W)  nth == Cardinality(S) - max + 1
            Rank(i) == Cardinality({j \in S : j <= i})
<1>1. /\ W \in Nat /\ max \in Nat \ {0} /\ now \in Nat /\ Cardinality(S) \in Nat
      /\ journal \in Seq(Nat) /\ Len(journal) \in Nat /\ DOMAIN journal = 1 .. Len(journal)
  BY Counts DEF IInv, Times
<1>2. InWindow(ledger.proposals, now, W) = S /\ ledger.proposals = journal
  BY <1>1, WindowIsLater DEF IInv, Times
<1>3. QuotaFrees(policy, ledger, now) =
        IF Recent(policy, ledger, now) < max THEN now
        ELSE IF nth < 1 THEN now + W
        ELSE journal[CHOOSE i \in S : Rank(i) = nth] + W
  BY <1>2 DEF QuotaFrees
<1>4. ASSUME ~(nth < 1) PROVE journal[CHOOSE i \in S : Rank(i) = nth] \in Nat
  <2>1. nth \in 1 .. Cardinality(S)
    <3>. HIDE DEF S, max
    <3>. QED
      BY <1>1, <1>4
  <2>2. S \in SUBSET (1 .. Len(journal))
    BY <1>1 DEF Later
  <2>3. \E i \in S : Rank(i) = nth
    <3>. HIDE DEF S, nth
    <3>. QED
      BY <1>1, <2>1, <2>2, Ranked
  <2>. HIDE DEF Rank, nth
  <2>4. (CHOOSE i \in S : Rank(i) = nth) \in S
    <3>. HIDE DEF S
    <3>. QED
      BY <2>3
  <2>. QED
    BY <1>1, <2>2, <2>4
<1>. HIDE DEF W, nth, Rank, max
<1>. QED
  BY <1>1, <1>3, <1>4

LEMMA TellsKeepsTold == ASSUME IInv, Tells, UNCHANGED <<policy, journal>> PROVE Told'
<1>. SUFFICES ASSUME policy.maxProposals > 0
              PROVE  /\ told'.until \in Nat /\ told'.journaled \in 0 .. Len(journal)
                     /\ Ready(policy, told'.rebalanced) <= told'.until
                     /\ Cardinality(Later(journal, told'.until - policy.quotaWindow)) < policy.maxProposals
  BY DEF Told
<1>. DEFINE ready == Ready(policy, lastRebalance)  frees == QuotaFrees(policy, ledger, now)
            x == Latest(Latest(now, ready), frees)
<1>1. /\ told'.until = NextInside(policy, x)
      /\ told'.journaled = Len(journal) /\ told'.rebalanced = lastRebalance
  BY DEF Tells, NextProposeAt
<1>2. policy \in Documents /\ now \in Nat /\ lastRebalance \in -1 .. now /\ Len(journal) \in Nat
  BY DEF IInv, World, Times
<1>3. ready \in Nat
  BY <1>2, CadenceNumbers DEF Ready, Unknown
<1>4. frees \in Nat
  BY QuotaFreesNat
<1>. HIDE DEF ready, frees
<1>5. x \in Nat /\ now <= x /\ ready <= x /\ frees <= x
  BY <1>2, <1>3, <1>4 DEF Latest
<1>. HIDE DEF x
<1>6. told'.until \in Nat /\ x <= told'.until
  BY <1>1, <1>2, <1>5, InsideIsLater
<1>7. now <= told'.until /\ ready <= told'.until /\ frees <= told'.until
  BY <1>2, <1>3, <1>4, <1>5, <1>6
<1>8. Cardinality(Later(journal, told'.until - policy.quotaWindow)) < policy.maxProposals
  BY <1>6, <1>7, QuotaFreesInTime DEF frees
<1>. QED
  BY <1>1, <1>2, <1>6, <1>7, <1>8 DEF ready

(* What was told stands while the document does, and is about the journal  *)
(* as it was: it grows, or it is the same.                                 *)
LEMMA StillTold ==
  ASSUME HInv, UNCHANGED <<policy, told>>, journal' = journal \/ journal' = Append(journal, now)
  PROVE  Told'
<1>. SUFFICES ASSUME told # ToldNothing, policy.maxProposals > 0
              PROVE  /\ told.until \in Nat /\ told.journaled \in 0 .. Len(journal')
                     /\ Ready(policy, told.rebalanced) <= told.until
                     /\ told.journaled = Len(journal') =>
                          Cardinality(Later(journal', told.until - policy.quotaWindow))
                            < policy.maxProposals
  BY DEF Told
<1>1. /\ told.until \in Nat /\ told.journaled \in 0 .. Len(journal)
      /\ Ready(policy, told.rebalanced) <= told.until
      /\ told.journaled = Len(journal) =>
           Cardinality(Later(journal, told.until - policy.quotaWindow)) < policy.maxProposals
  BY DEF HInv, Told
<1>2. CASE journal' = journal
  BY <1>1, <1>2
<1>3. CASE journal' = Append(journal, now)
  <2>1. journal \in Seq(Nat) /\ now \in Nat
    BY Counts DEF HInv, IInv, Times
  <2>2. Len(journal') = Len(journal) + 1 /\ Len(journal) \in Nat
    BY <1>3, <2>1
  <2>3. told.journaled \in 0 .. Len(journal') /\ told.journaled # Len(journal')
    BY <1>1, <2>2
  <2>. QED
    BY <1>1, <2>3
<1>. QED
  BY <1>2, <1>3

LEMMA HoldKept == ASSUME HInv, [Next]_vars PROVE HInv'
<1>1. IInv /\ IInv'
  BY Keeps DEF HInv
<1>2. CASE Restart
  <2>1. told' = ToldNothing
    BY <1>2 DEF Restart
  <2>. QED
    BY <1>1, <2>1 DEF HInv, Told
<1>3. CASE \E targets \in Candidates : Simulate(targets) \/ \E c \in Callers : Judge(c, targets)
  <2>1. UNCHANGED <<policy, journal>> /\ (Tells \/ told' = told)
    BY <1>3 DEF Simulate, Judge, Outside, Journaled
  <2>. QED
    BY <1>1, <2>1, TellsKeepsTold, StillTold DEF HInv
<1>4. CASE \/ UNCHANGED vars \/ Cancel \/ Apply \/ Tick \/ ApiTurns
           \/ (\E p \in DOMAIN Good : RowTurns(p))
           \/ \E c \in Callers : Land(c) \/ Bounce(c) \/ Record(c)
  <2>1. UNCHANGED <<policy, told>> /\ (journal' = journal \/ journal' = Append(journal, now))
    BY <1>4 DEF vars, Cancel, Apply, Tick, ApiTurns, RowTurns, Land, Bounce, Record, Outside, Journaled
  <2>. QED
    BY <1>1, <2>1, StillTold DEF HInv
<1>. QED
  BY <1>2, <1>3, <1>4 DEF Next

(* Whatever the document, the history and the callers: a proposer who     *)
(* waits until the moment the signer named finds the cadence and the quota *)
(* open inside the hours, if nothing was proposed or applied since, the    *)
(* ledger was rebuilt, and the document's window is at least the ledger's  *)
(* own (policy.js:689-735).                                                *)
THEOREM HoldIsEnough == Spec => []HoldEnds
<1>1. HInv => HoldEnds
  <2>. SUFFICES ASSUME HInv, told # ToldNothing, now >= told.until,
                       policy.maxProposals > 0, policy.quotaWindow >= RolledWindow,
                       told.journaled = Len(journal), told.rebalanced = lastRebalance,
                       ledger.builtAt >= told.until, InsideHours(policy, now)
                PROVE  Cadence(policy, ledger, lastRebalance, now) = {}
    BY DEF HoldEnds
  <2>. DEFINE W == policy.quotaWindow  max == policy.maxProposals  until == told.until
              early == TooSoon(policy, lastRebalance, now)
              full == Recent(policy, ledger, now) >= max
              outside == ~InsideHours(policy, now)
  <2>1. /\ IInv /\ W \in Nat /\ max \in Nat /\ now \in Nat /\ RolledWindow \in Nat
        /\ journal \in Seq(Nat) /\ policy \in Documents /\ lastRebalance \in -1 .. now
        /\ ledger.builtAt \in Nat
    BY Counts, BoundsAssumption DEF HInv, IInv, World, Times
  <2>2. /\ until \in Nat /\ Ready(policy, lastRebalance) <= until
        /\ Cardinality(Later(journal, until - W)) < max
    BY DEF HInv, Told
  <2>3. ~early
    <3>1. Ready(policy, lastRebalance) \in Nat
      BY <2>1, CadenceNumbers DEF Ready, Unknown
    <3>. HIDE DEF until
    <3>2. until <= now
      BY DEF until
    <3>. QED
      BY <2>1, <2>2, <3>1, <3>2 DEF TooSoon
  <2>4. ~full
    <3>. DEFINE room == Cardinality(Later(journal, until - W))
                listed == Cardinality(Later(journal, now - W))
                rolled == Cardinality(Later(journal, ledger.builtAt - RolledWindow))
    <3>1. /\ now - W \in Int /\ until - W \in Int /\ until - W <= now - W
          /\ ledger.builtAt - RolledWindow \in Int /\ until - W <= ledger.builtAt - RolledWindow
      BY <2>1, <2>2
    <3>2. listed <= room /\ rolled <= room
      BY <2>1, <3>1, LaterShrinks
    <3>3. room \in Nat /\ listed \in Nat /\ rolled \in Nat /\ room < max
      BY <2>1, <2>2, LaterIsFinite
    <3>4. listed = Cardinality(InWindow(ledger.proposals, now, W)) /\ ledger.rolled = rolled
      BY <2>1, WindowIsLater DEF IInv, Times
    <3>. HIDE DEF room, listed, rolled
    <3>5. Recent(policy, ledger, now) = IF rolled > listed THEN rolled ELSE listed
      BY <3>4 DEF Recent
    <3>. HIDE DEF max
    <3>6. ~(Recent(policy, ledger, now) >= max)
      BY <2>1, <3>2, <3>3, <3>5
    <3>. QED
      BY <3>6
  <2>5. Cadence(policy, ledger, lastRebalance, now) =
          When(early, Breach("PROPOSAL_TOO_SOON")) \union When(full, Breach("PROPOSAL_QUOTA"))
          \union When(outside, Breach("OUTSIDE_WINDOW"))
    BY DEF Cadence
  <2>6. ~outside
    OBVIOUS
  <2>. HIDE DEF early, full, outside
  <2>. QED
    BY <2>3, <2>4, <2>5, <2>6, Whens
<1>2. Init => HInv
  <2>1. Init => Told
    BY DEF Init, Told
  <2>. QED
    BY <2>1, Initially DEF HInv
<1>3. HInv /\ [Next]_vars => HInv'
  BY HoldKept
<1>. QED
  BY <1>1, <1>2, <1>3, PTL DEF Spec
-----------------------------------------------------------------------------
(***************************************************************************)
(* The gate.  A call judged on a row that told the book right found its    *)
(* targets within the document on the full catalogue, and either the book  *)
(* is still the one it was judged on, or the book was rebalanced since and *)
(* the program refuses it.                                                 *)
(***************************************************************************)
Admitted(doc, targets) == Passes(doc, targets, Good, WholeView)

Awaiting ==
  \A c \in At(calls, "judged") :
    /\ pending # NoChange => calls[c].at < pending.effectiveAt
    /\ \A doc \in calls[c].under : Admitted(doc, calls[c].targets) \/ calls[c].at < lastRebalance
PendingAdmitted ==
  pending.under \subseteq Documents /\ \A doc \in pending.under : Admitted(doc, pending.targets)
GInv == IInv /\ Awaiting /\ PendingAdmitted

(* Rows go off and come back, the program leaves at least a moment before  *)
(* a change may be applied, and nobody asks for more of a pool than it     *)
(* takes: an unknown cap is not checked, and comes back.                   *)
Worsens == Notice # 0 /\ RowsOnlyWorsen /\ \A targets \in Candidates : KeepsCaps(targets)

LEMMA Weighed ==
  ASSUME IInv
  PROVE  Weighs(book) /\ Weighs(WholeView.legs) /\ \A targets \in Candidates : Weighs(targets)
BY CatalogueAssumption DEF IInv, World, WholeView, Weighs

LEMMA AdmittedOnFull ==
  ASSUME Worsens, IInv, NEW targets \in Candidates, Verdict(targets) = {}, Book = WholeView
  PROVE  Admitted(policy, targets)
<1>1. EvaluateTargets(policy, targets, catalogue, WholeView) = {}
  BY DEF Verdict, EvaluateProposal
<1>2. policy \in Documents /\ catalogue \in [DOMAIN Good -> Rows]
      /\ \A p \in DOMAIN Good : catalogue[p] = Good[p] \/ catalogue[p] \in Variants[p]
  BY DEF IInv, World
<1>3. Weighs(targets) /\ Weighs(WholeView.legs)
  BY Weighed
<1>4. Passes(policy, targets, catalogue, WholeView)
  <2>1. Price(targets, catalogue, WholeView, Priced(targets, catalogue, WholeView)) \in Int
    BY <1>2, <1>3, PriceIsNat
  <2>2. policy.maxCost \in Int
    BY <1>2, NumbersAre
  <2>. QED
    BY <1>1, <2>1, <2>2, PassesTargets
<1>6. /\ KeepsCaps(targets)
      /\ \A p \in DOMAIN Good : catalogue[p] = Good[p] \/ NoBetter(catalogue[p], Good[p])
  BY <1>2 DEF Worsens, RowsOnlyWorsen
<1>. QED
  BY <1>2, <1>3, <1>4, <1>6, FullCatalogue DEF Admitted

(* While neither the book, the document nor the change moves, what was     *)
(* admitted stays so.                                                      *)
LEMMA StillAdmitted ==
  ASSUME GInv, IInv', UNCHANGED <<policy, book, pending, lastRebalance>>,
         \A c \in Callers : calls'[c] = calls[c] \/ calls'[c].stage # "judged"
  PROVE  GInv'
<1>1. At(calls', "judged") \in SUBSET At(calls, "judged")
      /\ \A c \in At(calls', "judged") : calls'[c] = calls[c]
  BY DEF At
<1>2. \A doc, targets : Admitted(doc, targets)' <=> Admitted(doc, targets)
  BY DEF Admitted, WholeView
<1>3. Awaiting'
  BY <1>1, <1>2 DEF GInv, Awaiting
<1>4. PendingAdmitted'
  BY <1>2 DEF GInv, PendingAdmitted
<1>. QED
  BY <1>3, <1>4 DEF GInv

LEMMA JudgeKeepsAdmitted ==
  ASSUME Worsens, GInv, NEW c \in Callers, NEW targets \in Candidates, Judge(c, targets)
  PROVE  GInv'
<1>1. IInv /\ IInv'
  BY JudgeKeeps DEF GInv
<1>2. CASE Verdict(targets) = {} /\ GatesOpen
  <2>1. /\ calls' = [calls EXCEPT ![c] = [stage |-> "judged", targets |-> targets, at |-> now,
                                            under |-> AdmittedUnder]]
        /\ UNCHANGED <<policy, book, pending, lastRebalance>> /\ pending = NoChange
        /\ calls \in [Callers -> Calls]
    BY <1>1, <1>2 DEF Judge, Outside, GatesOpen, IInv, Calling
  <2>2. \A doc, asked : Admitted(doc, asked)' <=> Admitted(doc, asked)
    BY <2>1 DEF Admitted, WholeView
  <2>3. \A doc \in AdmittedUnder : Admitted(doc, targets)
    BY <1>1, <1>2, AdmittedOnFull DEF AdmittedUnder
  <2>4. ASSUME NEW d \in At(calls', "judged")
        PROVE  \A doc \in calls'[d].under :
                 Admitted(doc, calls'[d].targets) \/ calls'[d].at < lastRebalance
    <3>1. CASE d = c
      BY <2>1, <2>3, <3>1
    <3>2. CASE d # c
      <4>1. d \in At(calls, "judged") /\ calls'[d] = calls[d]
        BY <2>1, <3>2 DEF At
      <4>. QED
        BY <4>1 DEF GInv, Awaiting
    <3>. QED
      BY <3>1, <3>2
  <2>5. Awaiting'
    BY <2>1, <2>2, <2>4 DEF Awaiting
  <2>6. PendingAdmitted'
    BY <2>1, <2>2 DEF GInv, PendingAdmitted
  <2>. QED
    BY <1>1, <2>5, <2>6 DEF GInv
<1>3. CASE ~(Verdict(targets) = {} /\ GatesOpen)
  <2>1. UNCHANGED <<policy, book, pending, lastRebalance, calls>>
    BY <1>3 DEF Judge, Outside
  <2>. QED
    BY <1>1, <2>1, StillAdmitted
<1>. QED
  BY <1>2, <1>3

LEMMA LandKeepsAdmitted == ASSUME Worsens, GInv, NEW c \in Callers, Land(c) PROVE GInv'
<1>1. IInv /\ IInv' /\ now \in Nat /\ Notice \in Nat \ {0}
  BY LandKeeps, Counts, BoundsAssumption DEF GInv, Worsens
<1>2. /\ calls[c].stage = "judged" /\ calls' = [calls EXCEPT ![c].stage = "landed"]
      /\ pending' = [targets |-> calls[c].targets, effectiveAt |-> now + Notice,
                     under |-> calls[c].under]
      /\ UNCHANGED <<policy, book, lastRebalance>>
      /\ lastRebalance = Unknown \/ now - lastRebalance >= Notice
  BY DEF Land, Outside, GatesOpen
<1>3. /\ calls \in [Callers -> Calls] /\ lastRebalance \in -1 .. now /\ policy \in Documents
      /\ \A d \in Callers : calls[d].stage # "idle" =>
           calls[d].at \in Nat /\ calls[d].at <= now /\ now <= calls[d].at + 1
      /\ calls[c].under \subseteq Documents
  BY <1>1 DEF IInv, World, Calling, Calls
<1>4. \A doc, asked : Admitted(doc, asked)' <=> Admitted(doc, asked)
  BY <1>2 DEF Admitted, WholeView
<1>5. ASSUME NEW d \in At(calls', "judged")
      PROVE  d \in At(calls, "judged") /\ calls'[d] = calls[d] /\ calls[d].at < now + Notice
  <2>1. d \in At(calls, "judged") /\ calls'[d] = calls[d]
    BY <1>2, <1>3 DEF At
  <2>2. calls[d].at \in Nat /\ calls[d].at <= now
    BY <1>3, <2>1 DEF At
  <2>. QED
    BY <1>1, <2>1, <2>2
<1>6. Awaiting'
  <2>1. pending'.effectiveAt = now + Notice
    BY <1>2
  <2>. QED
    BY <1>2, <1>4, <1>5, <2>1 DEF GInv, Awaiting
<1>7. \A doc \in calls[c].under : Admitted(doc, calls[c].targets)
  <2>1. c \in At(calls, "judged")
    BY <1>2 DEF At
  <2>2. ~(calls[c].at < lastRebalance)
    <3>1. calls[c].at \in Nat /\ now <= calls[c].at + 1
      BY <1>2, <1>3
    <3>2. lastRebalance \in Int /\ (lastRebalance = -1 \/ now - lastRebalance >= Notice)
      BY <1>2, <1>3 DEF Unknown
    <3>. QED
      BY <1>1, <3>1, <3>2
  <2>. QED
    BY <2>1, <2>2 DEF GInv, Awaiting
<1>8. PendingAdmitted'
  BY <1>2, <1>3, <1>4, <1>7 DEF PendingAdmitted
<1>. QED
  BY <1>1, <1>6, <1>8 DEF GInv

(* An apply moves the book, and with it the last rebalance past every call *)
(* still in the air.                                                       *)
LEMMA ApplyKeepsAdmitted == ASSUME GInv, Apply PROVE GInv'
<1>1. IInv /\ IInv' /\ now \in Nat
  BY CancelOrApplyKeeps, Counts DEF GInv
<1>2. /\ pending # NoChange /\ now >= pending.effectiveAt
      /\ lastRebalance' = now /\ pending' = NoChange /\ UNCHANGED <<policy, calls>>
  BY DEF Apply, Outside
<1>3. ASSUME NEW c \in At(calls, "judged") PROVE calls[c].at < now
  <2>1. calls[c].at < pending.effectiveAt
    BY <1>2 DEF GInv, Awaiting
  <2>2. pending.effectiveAt \in Nat /\ calls[c].at \in Nat
    BY <1>1, <1>2 DEF IInv, World, Calling, Calls, At
  <2>. QED
    BY <1>1, <1>2, <2>1, <2>2
<1>4. Awaiting'
  BY <1>2, <1>3 DEF Awaiting
<1>5. PendingAdmitted'
  BY <1>2 DEF PendingAdmitted, NoChange
<1>. QED
  BY <1>1, <1>4, <1>5 DEF GInv

LEMMA CancelKeepsAdmitted == ASSUME GInv, Cancel PROVE GInv'
<1>1. IInv /\ IInv'
  BY CancelOrApplyKeeps DEF GInv
<1>2. pending' = NoChange /\ UNCHANGED <<policy, book, lastRebalance, calls>>
  BY DEF Cancel, Outside
<1>3. \A doc, asked : Admitted(doc, asked)' <=> Admitted(doc, asked)
  BY <1>2 DEF Admitted, WholeView
<1>4. Awaiting'
  BY <1>2, <1>3 DEF GInv, Awaiting
<1>5. PendingAdmitted'
  BY <1>2 DEF PendingAdmitted, NoChange
<1>. QED
  BY <1>1, <1>4, <1>5 DEF GInv

LEMMA RestartKeepsAdmitted == ASSUME GInv, Restart PROVE GInv'
<1>1. IInv /\ IInv'
  BY RestartKeeps DEF GInv
<1>2. calls' = [c \in Callers |-> Idle] /\ UNCHANGED <<book, pending>>
  BY DEF Restart
<1>3. \A doc, asked : Admitted(doc, asked)' <=> Admitted(doc, asked)
  BY <1>2 DEF Admitted, WholeView
<1>4. At(calls', "judged") = {}
  BY <1>2 DEF At, Idle
<1>5. Awaiting' /\ PendingAdmitted'
  BY <1>2, <1>3, <1>4 DEF GInv, Awaiting, PendingAdmitted
<1>. QED
  BY <1>1, <1>5 DEF GInv

LEMMA AdmittedKept == ASSUME Worsens, GInv, [Next]_vars PROVE GInv'
<1>1. IInv' /\ calls \in [Callers -> Calls]
  BY Keeps DEF GInv, IInv, Calling
<1>2. CASE \/ UNCHANGED vars \/ Tick \/ ApiTurns \/ (\E p \in DOMAIN Good : RowTurns(p))
           \/ (\E targets \in Candidates : Simulate(targets))
           \/ \E c \in Callers : Bounce(c) \/ Record(c)
  <2>1. UNCHANGED <<policy, book, pending, lastRebalance>>
    BY <1>2 DEF vars, Tick, ApiTurns, RowTurns, Simulate, Bounce, Record, Outside
  <2>2. calls' = calls \/ \E c \in Callers : calls' = [calls EXCEPT ![c] = Idle]
    BY <1>2 DEF vars, Tick, ApiTurns, RowTurns, Simulate, Bounce, Record
  <2>3. \A c \in Callers : calls'[c] = calls[c] \/ calls'[c].stage # "judged"
    BY <1>1, <2>2 DEF Idle
  <2>. QED
    BY <1>1, <2>1, <2>3, StillAdmitted
<1>3. CASE \E c \in Callers : \E targets \in Candidates : Judge(c, targets)
  BY <1>3, JudgeKeepsAdmitted
<1>4. CASE \E c \in Callers : Land(c)
  BY <1>4, LandKeepsAdmitted
<1>5. CASE Cancel \/ Apply \/ Restart
  BY <1>5, CancelKeepsAdmitted, ApplyKeepsAdmitted, RestartKeepsAdmitted
<1>. QED
  BY <1>2, <1>3, <1>4, <1>5 DEF Next

(* Another account of the book than the one a set passed on, with no leg   *)
(* that book has not, breaks no rule but the two on what is moved: the     *)
(* rest of the rules read the targets and the catalogue alone, and the     *)
(* page is no longer.                                                      *)
LEMMA OnlyMovesDiffer ==
  ASSUME NEW doc \in Documents, NEW targets, Weighs(targets), NEW rows, NEW whole, NEW view,
         whole.known, IsFiniteSet(DOMAIN whole.legs), DOMAIN view.legs \subseteq DOMAIN whole.legs,
         OnlyGaps(EvaluateTargets(doc, targets, rows, whole)),
         NEW r \in EvaluateTargets(doc, targets, rows, view), ~r.gap
  PROVE  view.known /\ r.code \in MoveCaps
<1>. DEFINE page(book_) == DOMAIN targets \union DOMAIN book_.legs
            long(book_) == Cardinality(page(book_)) > doc.pageLimit
            unknown == When(~view.known, Gap("INPUTS_INCOMPLETE"))
            paged   == When(view.known /\ long(view), Breach("PAGE_LIMIT"))
<1>1. ~long(whole)
  <2>1. When(whole.known /\ long(whole), Breach("PAGE_LIMIT"))
          \subseteq EvaluateTargets(doc, targets, rows, whole)
    BY DEF EvaluateTargets, Shape
  <2>. QED
    BY <2>1 DEF OnlyGaps, When, Breach
<1>2. ~long(view)
  <2>1. IsFiniteSet(page(whole)) /\ page(view) \in SUBSET page(whole)
    BY FS_Union DEF Weighs
  <2>2. /\ Cardinality(page(view)) <= Cardinality(page(whole))
        /\ Cardinality(page(view)) \in Nat /\ Cardinality(page(whole)) \in Nat
    BY <2>1, FS_Subset, FS_CardinalityType
  <2>3. doc.pageLimit \in Nat
    BY NumbersAre
  <2>. HIDE DEF page
  <2>. QED
    BY <1>1, <2>2, <2>3
<1>3. /\ (UNION {Universe(doc, rows[p]) : p \in DOMAIN targets})
           \subseteq EvaluateTargets(doc, targets, rows, whole)
      /\ Shape(doc, targets, rows, whole) \subseteq EvaluateTargets(doc, targets, rows, whole)
  BY DEF EvaluateTargets
<1>4. Shape(doc, targets, rows, view)
        \subseteq Shape(doc, targets, rows, whole) \union paged \union unknown
  BY DEF Shape
<1>5. paged = {} /\ \A s \in unknown : s.gap
  BY <1>2 DEF When, Gap
<1>6. r \in Turnover(doc, targets, rows, view)
  <2>1. r \notin EvaluateTargets(doc, targets, rows, whole) /\ r \notin unknown
    BY <1>5 DEF OnlyGaps
  <2>. HIDE DEF paged, unknown
  <2>. QED
    BY <1>3, <1>4, <1>5, <2>1 DEF EvaluateTargets
<1>7. view.known
  BY <1>6 DEF Turnover
<1>8. r \in When(TRUE, Breach("TURNOVER_CAP")) \/ r \in CostCap(doc, targets, rows, view)
  BY <1>6, <1>7 DEF Turnover, When
<1>9. r \in CostCap(doc, targets, rows, view) => r.code = "COST_CAP"
  <2>. DEFINE dear == Price(targets, rows, view, Priced(targets, rows, view)) > doc.maxCost
              part == /\ Price(targets, rows, view, Priced(targets, rows, view)) <= doc.maxCost
                      /\ Priced(targets, rows, view) # Trades(targets, view)
  <2>1. CostCap(doc, targets, rows, view)
          = When(dear, Breach("COST_CAP")) \union When(part, Gap("COST_CAP"))
    BY DEF CostCap, Price, Priced
  <2>. HIDE DEF dear, part
  <2>. QED
    BY <2>1 DEF When, Breach, Gap
<1>. QED
  BY <1>7, <1>8, <1>9 DEF When, Breach, MoveCaps

(* Whatever the documents, the targets, the rows and the order of calls,   *)
(* applies and restarts: a change some document admitted on the book as it *)
(* is waits whenever the catalogue only lost numbers and the row tells the *)
(* book and the change right, or not at all; a row that tells the book     *)
(* wrong can break the caps on turnover and cost and no other rule         *)
(* (preflight.js:144-151, policy.js:410-429, 607-609).                     *)
THEOREM GateIsFaithful == ASSUME Worsens PROVE Spec => []GateFollowsVerdict
<1>1. GInv => GateFollowsVerdict
  <2>. SUFFICES ASSUME GInv, pending # NoChange, policy \in pending.under, OnlyLost,
                       Gate = "CHANGE_OUTSIDE_POLICY", Asked = pending.targets
                PROVE  Book.known /\ Book # WholeView /\ Breaches \subseteq MoveCaps
    BY DEF GateFollowsVerdict
  <2>1. /\ IInv /\ policy \in Documents /\ catalogue \in [DOMAIN Good -> Rows]
        /\ pending.targets \in Candidates
    BY DEF GInv, IInv, World
  <2>2. Weighs(pending.targets) /\ Weighs(WholeView.legs)
    BY <2>1, Weighed
  <2>3. Passes(policy, pending.targets, Good, WholeView)
    BY DEF GInv, PendingAdmitted, Admitted
  <2>4. OnlyGaps(EvaluateTargets(policy, pending.targets, catalogue, WholeView))
    BY <2>1, <2>2, <2>3, LossNeverBreaches DEF OnlyLost
  <2>5. PICK r \in EvaluateTargets(policy, pending.targets, catalogue, Book) : ~r.gap
    BY DEF Gate, ChangeBlocker
  <2>6. \A s \in EvaluateTargets(policy, pending.targets, catalogue, Book) :
          ~s.gap => Book.known /\ s.code \in MoveCaps
    <3>1. /\ WholeView.known /\ IsFiniteSet(DOMAIN WholeView.legs)
          /\ DOMAIN Book.legs \subseteq DOMAIN WholeView.legs
      BY <2>2 DEF Book, HeldLegs, Named, WholeView, Weighs
    <3>. QED
      BY <2>1, <2>2, <2>4, <3>1, OnlyMovesDiffer
  <2>7. Breaches \subseteq MoveCaps
    BY <2>6 DEF Breaches
  <2>8. Book # WholeView
    BY <2>4, <2>5 DEF OnlyGaps
  <2>. QED
    BY <2>5, <2>6, <2>7, <2>8
<1>2. Init => GInv
  <2>. SUFFICES ASSUME Init PROVE GInv
    OBVIOUS
  <2>1. At(calls, "judged") = {}
    BY DEF Init, At, Idle
  <2>. QED
    BY <2>1, Initially DEF Init, GInv, Awaiting, PendingAdmitted, NoChange
<1>3. GInv /\ [Next]_vars => GInv'
  BY AdmittedKept
<1>. QED
  BY <1>1, <1>2, <1>3, PTL DEF Spec
=============================================================================
