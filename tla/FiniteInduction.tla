--------------------------- MODULE FiniteInduction ---------------------------
(***************************************************************************)
(* Induction up to a number, for the loops that run over the bytes of a    *)
(* message or the entries of a command.  Both forms rest on the existence  *)
(* of a smallest number, which takes no predicate as a parameter.          *)
(***************************************************************************)
EXTENDS Integers, WellFoundedInduction, TLAPS

\* A set of numbers that is not empty has a smallest member.
LEMMA SmallestNumber ==
    ASSUME NEW S, S \subseteq Nat, S # {}
    PROVE  \E m \in S : \A y \in S : m <= y
<1> DEFINE Less == {p \in Nat \X Nat : p[1] < p[2]}
<1>1. IsWellFoundedOn(Less, Nat)
  BY NatLessThanWellFounded, Zenon DEF OpToRel
<1>2. \A x, y \in Nat : x < y => <<x, y>> \in Less
  OBVIOUS
<1> HIDE DEF Less
<1>3. PICK m \in S : \A y \in S : ~(<<y, m>> \in Less)
  BY <1>1, WFMin
<1>4. \A y \in S : m <= y
  <2>1. ASSUME NEW y \in S PROVE ~(y < m) /\ y \in Nat /\ m \in Nat
    BY <1>2, <1>3, Zenon
  <2> QED  BY <2>1
<1> QED  BY <1>4

\* A set of numbers with 0 in it, and with n + 1 for every n < N in it, has all
\* the numbers up to N.
LEMMA UpTo ==
    ASSUME NEW N \in Nat, NEW S, 0 \in S, \A n \in 0..(N - 1) : n \in S => n + 1 \in S
    PROVE  \A n \in 0..N : n \in S
<1> SUFFICES ASSUME NEW x \in 0..N, x \notin S PROVE FALSE
  OBVIOUS
<1> DEFINE B == {n \in 0..N : n \notin S}
<1>1. PICK m \in B : \A y \in B : m <= y
  <2>1. B \subseteq Nat /\ x \in B
    OBVIOUS
  <2> HIDE DEF B
  <2> QED  BY <2>1, SmallestNumber
<1>2. m \in 1..N /\ m - 1 \in 0..(N - 1) /\ m - 1 \notin B
  BY <1>1
<1> QED  BY <1>1, <1>2

\* The values of a loop of N rounds: round n makes F[n][s] of s.
LoopUpTo(n, S, start, F, g) ==
    /\ g \in [0..n -> S]
    /\ g[0] = start
    /\ \A k \in 1..n : g[k] = F[k][g[k - 1]]

\* A loop whose rounds keep to a set S has values in S for all its rounds.
LEMMA LoopExists ==
    ASSUME NEW N \in Nat, NEW S, NEW start \in S, NEW F,
           \A n \in 1..N : \A s \in S : F[n][s] \in S
    PROVE  \E g : LoopUpTo(N, S, start, F, g)
<1> DEFINE T == {n \in 0..N : \E g : LoopUpTo(n, S, start, F, g)}
<1>1. 0 \in T
  <2>1. LoopUpTo(0, S, start, F, [k \in 0..0 |-> start])
    BY DEF LoopUpTo
  <2> QED  BY <2>1
<1>2. ASSUME NEW n \in 0..(N - 1), n \in T PROVE n + 1 \in T
  <2>1. PICK g : LoopUpTo(n, S, start, F, g)
    BY <1>2
  <2>2. /\ n \in Nat /\ n + 1 \in 1..N /\ g \in [0..n -> S] /\ g[0] = start
        /\ g[n] \in S
        /\ \A k \in 1..n : g[k] = F[k][g[k - 1]]
    BY <2>1 DEF LoopUpTo
  <2>3. F[n + 1][g[n]] \in S
    BY <2>2
  <2> DEFINE h == [k \in 0..(n + 1) |-> IF k <= n THEN g[k] ELSE F[n + 1][g[n]]]
  <2>4. h \in [0..(n + 1) -> S] /\ h[0] = start
    BY <2>2, <2>3
  <2>5. ASSUME NEW k \in 1..(n + 1) PROVE h[k] = F[k][h[k - 1]]
    <3>1. CASE k <= n
      BY <2>2, <3>1
    <3>2. CASE k = n + 1
      BY <2>2, <3>2
    <3> QED  BY <2>2, <3>1, <3>2
  <2> HIDE DEF h
  <2>6. LoopUpTo(n + 1, S, start, F, h)
    BY <2>4, <2>5 DEF LoopUpTo
  <2>7. n + 1 \in 0..N
    BY <2>2
  <2> QED  BY <2>6, <2>7
<1>3. N \in T
  <2> HIDE DEF T
  <2>1. \A n \in 0..N : n \in T
    BY <1>1, <1>2, UpTo
  <2> QED  BY <2>1
<1> QED  BY <1>3
=============================================================================
