------------------------------- MODULE Iteration -------------------------------
(***************************************************************************)
(* Two ways to reason about a loop, for one loop body and one invariant.   *)
(* A module that proves something about a loop takes an instance of this   *)
(* one, with its body for Op and its invariant for Inv; c is whatever both *)
(* need to know of the loop's surroundings.                                *)
(***************************************************************************)
EXTENDS Integers, Sequences, WellFoundedInduction, TLAPS

CONSTANTS
  Op(_, _, _),     \* Op(c, e, x): the state after e, when x is taken
  Inv(_, _, _)     \* Inv(c, n, e): what holds of the state e after n rounds

(* FoldLeft of the community modules, written out.                         *)
Last(D) == CHOOSE n \in D : \A m \in D : n >= m

Fold(c, base, s) ==
  LET iter[D \in SUBSET DOMAIN s] ==
        IF D = {} THEN base ELSE Op(c, iter[D \ {Last(D)}], s[Last(D)])
  IN  iter[DOMAIN s]

-----------------------------------------------------------------------------
Less == { p \in Nat \X Nat : p[1] < p[2] }

LEMMA LessWellFounded == IsWellFoundedOn(Less, Nat)
BY NatLessThanWellFounded DEF OpToRel, Less

(* What holds at first and is kept by every round holds after each.        *)
THEOREM Induction ==
  ASSUME NEW c, NEW e, Inv(c, 0, e), \A n \in Nat : Inv(c, n, e) => Inv(c, n + 1, e)
  PROVE  \A n \in Nat : Inv(c, n, e)
<1> SUFFICES ASSUME NEW n \in Nat, ~ Inv(c, n, e)
             PROVE  FALSE
  OBVIOUS
<1> DEFINE T == { m \in Nat : ~ Inv(c, m, e) }
<1>1. PICK m \in T : \A k \in T : ~ (<<k, m>> \in Less)
  <2> HIDE DEF T
  <2>1. T \subseteq Nat /\ T # {}
    BY DEF T
  <2> QED
    BY <2>1, LessWellFounded, WFMin
<1>2. m \in Nat /\ ~ Inv(c, m, e) /\ m # 0
  BY <1>1
<1>3. m - 1 \in Nat /\ (m - 1) + 1 = m /\ <<m - 1, m>> \in Less
  BY <1>2 DEF Less
<1>4. Inv(c, m - 1, e)
  BY <1>1, <1>3
<1>5. Inv(c, (m - 1) + 1, e)
  BY <1>3, <1>4
<1> QED
  BY <1>2, <1>3, <1>5

-----------------------------------------------------------------------------
(* The fold's equation has a solution over the subsets of 1 .. k.          *)
Solves(c, base, s, k, f) ==
  f = [ D \in SUBSET (1 .. k) |->
          IF D = {} THEN base ELSE Op(c, f[D \ {Last(D)}], s[Last(D)]) ]

LEMMA SolutionGrows ==
  ASSUME NEW c, NEW base, NEW s, NEW k \in Nat, NEW f, Solves(c, base, s, k, f)
  PROVE  \E g : Solves(c, base, s, k + 1, g)
<1> DEFINE g == [ D \in SUBSET (1 .. (k + 1)) |->
                    IF (k + 1) \in D THEN Op(c, f[D \ {k + 1}], s[k + 1]) ELSE f[D] ]
<1>1. ASSUME NEW D \in SUBSET (1 .. (k + 1)), (k + 1) \in D
      PROVE  g[D] = IF D = {} THEN base ELSE Op(c, g[D \ {Last(D)}], s[Last(D)])
  <2>1. Last(D) = k + 1
    <3>1. \A m \in D : k + 1 >= m
      OBVIOUS
    <3>2. \A n \in D : (\A m \in D : n >= m) => n = k + 1
      BY <1>1
    <3> HIDE DEF g
    <3> QED
      BY <1>1, <3>1, <3>2 DEF Last
  <2>2. D \ {k + 1} \in SUBSET (1 .. (k + 1)) /\ (k + 1) \notin D \ {k + 1}
    OBVIOUS
  <2>3. g[D \ {k + 1}] = f[D \ {k + 1}]
    BY <2>2
  <2>4. g[D] = Op(c, f[D \ {k + 1}], s[k + 1])
    BY <1>1
  <2> HIDE DEF g
  <2> QED
    BY <1>1, <2>1, <2>3, <2>4
<1>2. ASSUME NEW D \in SUBSET (1 .. (k + 1)), (k + 1) \notin D
      PROVE  g[D] = IF D = {} THEN base ELSE Op(c, g[D \ {Last(D)}], s[Last(D)])
  <2>1. D \in SUBSET (1 .. k)
    BY <1>2
  <2>2. \A E \in SUBSET D : g[E] = f[E]
    BY <1>2
  <2>3. g[D \ {Last(D)}] = f[D \ {Last(D)}] /\ g[D] = f[D]
    BY <2>2
  <2>4. f[D] = IF D = {} THEN base ELSE Op(c, f[D \ {Last(D)}], s[Last(D)])
    BY <2>1 DEF Solves
  <2> HIDE DEF g
  <2> QED
    BY <2>3, <2>4
<1>3. g = [ D \in SUBSET (1 .. (k + 1)) |-> g[D] ]
  OBVIOUS
<1> HIDE DEF g
<1>4. \A D \in SUBSET (1 .. (k + 1)) :
        g[D] = IF D = {} THEN base ELSE Op(c, g[D \ {Last(D)}], s[Last(D)])
  BY <1>1, <1>2
<1>5. Solves(c, base, s, k + 1, g)
  BY <1>3, <1>4 DEF Solves
<1> QED
  BY <1>5

LEMMA Solvable ==
  ASSUME NEW c, NEW base, NEW s, NEW n \in Nat
  PROVE  \E f : Solves(c, base, s, n, f)
<1> DEFINE T == { m \in Nat : ~ \E f : Solves(c, base, s, m, f) }
<1> SUFFICES ASSUME T # {}
             PROVE  FALSE
  OBVIOUS
<1>1. PICK m \in T : \A k \in T : ~ (<<k, m>> \in Less)
  <2> HIDE DEF T
  <2>1. T \subseteq Nat
    BY DEF T
  <2> QED
    BY <2>1, LessWellFounded, WFMin
<1>2. m # 0
  <2> DEFINE f == [ D \in SUBSET (1 .. 0) |-> base ]
  <2>1. \A D \in SUBSET (1 .. 0) : D = {}
    OBVIOUS
  <2>2. Solves(c, base, s, 0, f)
    BY <2>1 DEF Solves
  <2> QED
    BY <2>2
<1>3. m - 1 \in Nat /\ (m - 1) + 1 = m /\ <<m - 1, m>> \in Less
  BY <1>2 DEF Less
<1>4. PICK f : Solves(c, base, s, m - 1, f)
  BY <1>1, <1>3
<1>5. \E g : Solves(c, base, s, m, g)
  BY <1>3, <1>4, SolutionGrows
<1> QED
  BY <1>5

(* A loop over a sequence ends in a state that the invariant allows.       *)
THEOREM FoldInvariant ==
  ASSUME NEW c, NEW base, NEW s, NEW n \in Nat, DOMAIN s = 1 .. n, Inv(c, 0, base),
         \A i \in 1 .. n : \A e : Inv(c, i - 1, e) => Inv(c, i, Op(c, e, s[i]))
  PROVE  Inv(c, n, Fold(c, base, s))
<1> DEFINE iter == CHOOSE f : Solves(c, base, s, n, f)
<1>1. Fold(c, base, s) = iter[1 .. n]
  BY DEF Fold, Solves
<1>2. Solves(c, base, s, n, iter)
  BY Solvable
<1> HIDE DEF iter
<1>3. iter[{}] = base
  BY <1>2 DEF Solves
<1>4. ASSUME NEW k \in 1 .. n
      PROVE  iter[1 .. k] = Op(c, iter[1 .. (k - 1)], s[k])
  <2>1. 1 .. k \in SUBSET (1 .. n) /\ 1 .. k # {}
    OBVIOUS
  <2>2. Last(1 .. k) = k
    BY DEF Last
  <2>3. (1 .. k) \ {k} = 1 .. (k - 1)
    OBVIOUS
  <2> QED
    BY <1>2, <2>1, <2>2, <2>3 DEF Solves
<1> DEFINE T == { m \in Nat : m <= n /\ ~ Inv(c, m, iter[1 .. m]) }
<1> SUFFICES ASSUME T # {}
             PROVE  FALSE
  BY <1>1
<1>5. PICK m \in T : \A k \in T : ~ (<<k, m>> \in Less)
  <2> HIDE DEF T
  <2>1. T \subseteq Nat
    BY DEF T
  <2> QED
    BY <2>1, LessWellFounded, WFMin
<1>6. m # 0
  <2>1. 1 .. 0 = {}
    OBVIOUS
  <2> QED
    BY <1>3, <1>5, <2>1
<1>7. m \in 1 .. n /\ m - 1 \in Nat /\ m - 1 <= n /\ <<m - 1, m>> \in Less
  BY <1>5, <1>6 DEF Less
<1>8. Inv(c, m - 1, iter[1 .. (m - 1)])
  BY <1>5, <1>7
<1>9. Inv(c, m, Op(c, iter[1 .. (m - 1)], s[m]))
  BY <1>7, <1>8
<1> QED
  BY <1>4, <1>5, <1>7, <1>9
=============================================================================
