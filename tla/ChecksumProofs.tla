---------------------------- MODULE ChecksumProofs ----------------------------
(***************************************************************************)
(* Checksum, for messages of every length and content and any number of    *)
(* routers.  A sum of words is followed by its remainder modulo 65535:     *)
(* folding the carries keeps it, a byte that a link damages changes it, and *)
(* a message passes the router's test just when the remainder is 0 and its *)
(* checksum field is not.                                                  *)
(***************************************************************************)
EXTENDS Checksum, FiniteInduction, SequenceTheorems

-----------------------------------------------------------------------------
(* Sums.                                                                   *)

\* What byte n adds to the sum.
Adds(data, n) == IF n % 2 = 1 THEN Word(data, n) ELSE 0

\* A word is a number of 16 bits.
LEMMA WordType ==
    ASSUME NEW data \in Seq(Byte), NEW n \in 1..Len(data)
    PROVE  /\ Len(data) \in Nat /\ n \in Nat
           /\ data[n] \in Nat /\ data[n] <= 255
           /\ n < Len(data) => data[n + 1] \in Nat /\ data[n + 1] <= 255
           /\ Word(data, n) \in Nat /\ Word(data, n) <= 65535
           /\ Adds(data, n) \in Nat /\ Adds(data, n) <= 65535
<1>1. Len(data) \in Nat
  BY LenProperties
<1>0. \A b \in Byte : b \in Nat /\ b <= 255
  BY DEF Byte
<1>2. data[n] \in Nat /\ data[n] <= 255
  BY <1>0, ElementOfSeq
<1>3. n < Len(data) => data[n + 1] \in Nat /\ data[n + 1] <= 255
  <2> SUFFICES ASSUME n < Len(data) PROVE data[n + 1] \in Byte
    BY <1>0
  <2>1. n + 1 \in 1..Len(data)
    BY <1>1
  <2> QED  BY <2>1, ElementOfSeq
<1>4. Word(data, n) \in Nat /\ Word(data, n) <= 65535
  BY <1>1, <1>2, <1>3 DEF Word
<1> QED  BY <1>1, <1>2, <1>3, <1>4 DEF Adds

SumsUpTo(data, n, g) ==
    /\ g \in [0..n -> Nat]
    /\ g[0] = 0
    /\ \A k \in 1..n : g[k] = g[k - 1] + Adds(data, k)

IsSums(data, g) ==
    g = [n \in 0..Len(data) |-> IF n = 0 THEN 0 ELSE g[n - 1] + Adds(data, n)]

\* The loop has sums at every place.
LEMMA SumsExist ==
    ASSUME NEW data \in Seq(Byte)
    PROVE  \E g : IsSums(data, g)
<1> DEFINE N == Len(data)
           F == [n \in 1..N |-> [s \in Nat |-> s + Adds(data, n)]]
<1>1. N \in Nat
  BY LenProperties
<1>2. \A n \in 1..N : Adds(data, n) \in Nat
  BY WordType
<1>3. \A n \in 1..N : \A s \in Nat : F[n][s] \in Nat
  BY <1>2
<1>4. PICK g : LoopUpTo(N, Nat, 0, F, g)
  <2> HIDE DEF F, N
  <2> QED  BY <1>1, <1>3, LoopExists
<1>5. /\ g \in [0..N -> Nat] /\ g[0] = 0
      /\ \A k \in 1..N : g[k] = g[k - 1] + Adds(data, k)
  <2>1. ASSUME NEW k \in 1..N PROVE g[k] = g[k - 1] + Adds(data, k)
    <3>1. k - 1 \in 0..N /\ g[k - 1] \in Nat /\ g[k] = F[k][g[k - 1]]
      BY <1>1, <1>4 DEF LoopUpTo
    <3> QED  BY <3>1
  <2> QED  BY <1>4, <2>1 DEF LoopUpTo
<1>6. g = [n \in 0..N |-> IF n = 0 THEN 0 ELSE g[n - 1] + Adds(data, n)]
  BY <1>1, <1>5
<1> QED  BY <1>6 DEF IsSums

\* Sums of numbers are numbers.
LEMMA SumsAreNumbers ==
    ASSUME NEW data \in Seq(Byte), NEW g, IsSums(data, g)
    PROVE  SumsUpTo(data, Len(data), g)
<1> DEFINE N == Len(data)
           S == {n \in 0..N : g[n] \in Nat}
<1>1. N \in Nat
  BY LenProperties
<1>2. /\ DOMAIN g = 0..N
      /\ g = [n \in 0..N |-> g[n]]
      /\ g[0] = 0
      /\ \A k \in 1..N : g[k] = g[k - 1] + Adds(data, k)
  BY <1>1 DEF IsSums
<1>3. ASSUME NEW n \in 0..(N - 1), n \in S PROVE n + 1 \in S
  <2>1. n + 1 \in 1..N /\ (n + 1) - 1 = n
    BY <1>1
  <2>2. Adds(data, n + 1) \in Nat
    BY <2>1, WordType
  <2> QED  BY <1>1, <1>2, <1>3, <2>1, <2>2
<1>4. \A n \in 0..N : n \in S
  <2>1. 0 \in S
    BY <1>1, <1>2
  <2> HIDE DEF S
  <2> QED  BY <1>1, <1>3, <2>1, UpTo
<1> QED  BY <1>2, <1>4 DEF SumsUpTo

\* The sums start at 0, and each byte adds its part.
LEMMA SumsFacts ==
    ASSUME NEW data \in Seq(Byte)
    PROVE  /\ Len(data) \in Nat
           /\ SumsUpTo(data, Len(data), Sums(data))
           /\ WordSum(data) \in Nat
<1>1. Sums(data) = CHOOSE g : IsSums(data, g)
  BY DEF Sums, IsSums, Adds
<1>2. IsSums(data, Sums(data))
  BY <1>1, SumsExist
<1>3. Len(data) \in Nat
  BY LenProperties
<1>4. SumsUpTo(data, Len(data), Sums(data))
  BY <1>2, SumsAreNumbers
<1> QED  BY <1>3, <1>4 DEF SumsUpTo, WordSum

\* Two bytes add 65535 at most.
LEMMA SumBound ==
    ASSUME NEW data \in Seq(Byte)
    PROVE  2 * WordSum(data) <= 65535 * (Len(data) + 1)
<1> DEFINE N == Len(data)
           Inv(n) == 2 * Sums(data)[n] <= 65535 * (IF n % 2 = 1 THEN n + 1 ELSE n)
           T == {n \in 0..N : Inv(n)}
<1>1. N \in Nat /\ SumsUpTo(data, N, Sums(data))
  BY SumsFacts
<1>2. 0 \in T
  BY <1>1 DEF SumsUpTo
<1>3. ASSUME NEW n \in 0..(N - 1), n \in T PROVE n + 1 \in T
  <2>1. n + 1 \in 1..N /\ n + 1 \in 0..N /\ (n + 1) - 1 = n /\ n \in 0..N
    BY <1>1
  <2>2. /\ Sums(data)[n + 1] = Sums(data)[n] + Adds(data, n + 1)
        /\ Sums(data)[n] \in Nat
    BY <1>1, <2>1 DEF SumsUpTo
  <2>3. /\ Adds(data, n + 1) \in Nat /\ Adds(data, n + 1) <= 65535
        /\ (n + 1) % 2 # 1 => Adds(data, n + 1) = 0
    <3>1. (n + 1) % 2 # 1 => Adds(data, n + 1) = 0
      BY DEF Adds
    <3> QED  BY <2>1, <3>1, WordType
  <2>4. Inv(n)
    BY <1>3
  <2>5. Inv(n + 1)
    <3>1. CASE n % 2 = 0
      BY <2>2, <2>3, <2>4, <3>1
    <3>2. CASE n % 2 = 1
      BY <2>2, <2>3, <2>4, <3>2
    <3> QED  BY <3>1, <3>2
  <2> QED  BY <2>1, <2>5
<1>4. N \in T
  <2> HIDE DEF T
  <2>1. \A n \in 0..N : n \in T
    BY <1>1, <1>2, <1>3, UpTo
  <2> QED  BY <1>1, <2>1
<1>5. WordSum(data) = Sums(data)[N] /\ WordSum(data) \in Nat
  BY SumsFacts DEF WordSum
<1> QED  BY <1>1, <1>4, <1>5

\* The sum of a frame that fits into the 16 bits of an IP length and a short
\* Ethernet frame's padding fits into the 32 bits the code keeps it in.
LEMMA SumFits ==
    ASSUME NEW data \in Seq(Byte), Len(data) <= 65595
    PROVE  WordSum(data) < 65536 * 65536
BY SumBound, SumsFacts

\* Two messages whose words are the same up to one place have sums that
\* differ by the difference there.
LEMMA SumsDiffer ==
    ASSUME NEW d \in Seq(Byte), NEW e \in Seq(Byte), Len(e) = Len(d),
           NEW j \in 1..Len(d), NEW delta \in Int,
           \A n \in 1..Len(d) : Adds(e, n) = Adds(d, n) + (IF n = j THEN delta ELSE 0)
    PROVE  WordSum(e) = WordSum(d) + delta
<1> DEFINE N == Len(d)
           S == {n \in 0..N : Sums(e)[n] = Sums(d)[n] + (IF n >= j THEN delta ELSE 0)}
<1>1. N \in Nat /\ SumsUpTo(d, N, Sums(d)) /\ SumsUpTo(e, N, Sums(e))
  BY SumsFacts
<1>2. 0 \in S
  BY <1>1 DEF SumsUpTo
<1>3. ASSUME NEW n \in 0..(N - 1), n \in S PROVE n + 1 \in S
  <2>1. n + 1 \in 1..N /\ n + 1 \in 0..N /\ (n + 1) - 1 = n /\ n \in 0..N
    BY <1>1
  <2>2. /\ Sums(d)[n + 1] = Sums(d)[n] + Adds(d, n + 1)
        /\ Sums(e)[n + 1] = Sums(e)[n] + Adds(e, n + 1)
        /\ Sums(d)[n] \in Nat /\ Sums(e)[n] \in Nat
    BY <1>1, <2>1 DEF SumsUpTo
  <2>3. Adds(d, n + 1) \in Nat /\ Adds(e, n + 1) \in Nat
    BY <2>1, WordType
  <2>4. Adds(e, n + 1) = Adds(d, n + 1) + (IF n + 1 = j THEN delta ELSE 0)
    BY <2>1
  <2>5. Sums(e)[n] = Sums(d)[n] + (IF n >= j THEN delta ELSE 0)
    BY <1>3
  <2>6. Sums(e)[n + 1] = Sums(d)[n + 1] + (IF n + 1 >= j THEN delta ELSE 0)
    BY <2>1, <2>2, <2>3, <2>4, <2>5
  <2> QED  BY <2>1, <2>6
<1>4. N \in S
  <2> HIDE DEF S
  <2>1. \A n \in 0..N : n \in S
    BY <1>1, <1>2, <1>3, UpTo
  <2> QED  BY <1>1, <2>1
<1>5. Sums(e)[N] = Sums(d)[N] + delta
  BY <1>1, <1>4
<1> QED  BY <1>5 DEF WordSum

\* Zeros after the end of a message, also one of odd length, do not change its
\* sum.
LEMMA PaddingAddsNothing ==
    ASSUME NEW d \in Seq(Byte), NEW e \in Seq(Byte), Len(d) <= Len(e),
           \A n \in 1..Len(d) : e[n] = d[n],
           \A n \in (Len(d) + 1)..Len(e) : e[n] = 0
    PROVE  WordSum(e) = WordSum(d)
<1> DEFINE N == Len(d)
           M == Len(e)
           S == {n \in 0..M : Sums(e)[n] = Sums(d)[IF n <= N THEN n ELSE N]}
<1>1. /\ N \in Nat /\ SumsUpTo(d, N, Sums(d))
      /\ M \in Nat /\ SumsUpTo(e, M, Sums(e))
  BY SumsFacts
<1>2. 0 \in S
  BY <1>1 DEF SumsUpTo
<1>3. ASSUME NEW n \in 0..(M - 1), n \in S PROVE n + 1 \in S
  <2>1. n + 1 \in 1..M /\ n + 1 \in 0..M /\ (n + 1) - 1 = n /\ n \in 0..M
    BY <1>1
  <2>2. /\ Sums(e)[n + 1] = Sums(e)[n] + Adds(e, n + 1)
        /\ Sums(e)[n] \in Nat
    BY <1>1, <2>1 DEF SumsUpTo
  <2>3. CASE n + 1 <= N
    <3>1. n + 1 \in 1..N /\ n \in 0..N
      BY <1>1, <2>1, <2>3
    <3>2. Sums(d)[n + 1] = Sums(d)[n] + Adds(d, n + 1)
      BY <1>1, <2>1, <3>1 DEF SumsUpTo
    <3>3. Adds(e, n + 1) = Adds(d, n + 1)
      <4>1. e[n + 1] = d[n + 1]
        BY <3>1
      <4>2. n + 1 < N => e[n + 2] = d[n + 2] /\ (n + 1) + 1 = n + 2
        BY <1>1, <3>1
      <4>3. n + 1 = N /\ n + 1 < M => e[n + 2] = 0 /\ (n + 1) + 1 = n + 2
        BY <1>1, <3>1
      <4>4. d[n + 1] \in Nat
        BY <3>1, WordType
      <4>5. Word(e, n + 1) = Word(d, n + 1)
        BY <1>1, <2>1, <3>1, <4>1, <4>2, <4>3, <4>4 DEF Word
      <4> QED  BY <4>5 DEF Adds
    <3>4. Sums(e)[n] = Sums(d)[n]
      BY <1>3, <3>1
    <3>5. Sums(e)[n + 1] = Sums(d)[n + 1]
      BY <2>2, <3>2, <3>3, <3>4
    <3> QED  BY <2>1, <2>3, <3>5
  <2>4. CASE n >= N
    <3>1. n + 1 \in (N + 1)..M /\ (n + 1 < M => n + 2 \in (N + 1)..M /\ (n + 1) + 1 = n + 2)
      BY <1>1, <2>1, <2>4
    <3>2. e[n + 1] = 0 /\ (n + 1 < M => e[n + 2] = 0)
      BY <3>1
    <3>3. Word(e, n + 1) = 0
      BY <1>1, <2>1, <3>1, <3>2 DEF Word
    <3>4. Adds(e, n + 1) = 0
      BY <3>3 DEF Adds
    <3>5. Sums(e)[n] = Sums(d)[N]
      BY <1>1, <1>3, <2>1, <2>4
    <3>6. Sums(e)[n + 1] = Sums(d)[N]
      BY <2>2, <3>4, <3>5
    <3>7. ~(n + 1 <= N)
      BY <1>1, <2>1, <2>4
    <3> QED  BY <2>1, <3>6, <3>7
  <2> QED  BY <1>1, <2>1, <2>3, <2>4
<1>4. M \in S
  <2> HIDE DEF S
  <2>1. \A n \in 0..M : n \in S
    BY <1>1, <1>2, <1>3, UpTo
  <2> QED  BY <1>1, <2>1
<1>5. Sums(e)[M] = Sums(d)[N]
  BY <1>1, <1>4
<1> QED  BY <1>5 DEF WordSum

-----------------------------------------------------------------------------
(* Folding the carries.                                                    *)

\* The remainder modulo 65535, with 65535 for 0 unless there is nothing.
Residue(n) == IF n = 0 THEN 0 ELSE IF n % 65535 = 0 THEN 65535 ELSE n % 65535

\* One round of the loop makes the sum smaller and keeps the residue.
LEMMA FoldOnce ==
    ASSUME NEW n \in Nat, n > 65535
    PROVE  LET m == (n \div 65536) + (n % 65536)
           IN  m \in Nat /\ m < n /\ Residue(m) = Residue(n)
<1> DEFINE q == n \div 65536
           r == n % 65536
<1>1. q \in Nat /\ r \in Nat /\ r < 65536 /\ n = 65536 * q + r /\ q > 0
  OBVIOUS
<1> HIDE DEF q, r
<1>2. q + r \in Nat /\ q + r < n /\ q + r > 0 /\ n = (q + r) + 65535 * q
  BY <1>1
<1>3. n % 65535 = (q + r) % 65535
  BY <1>1, <1>2
<1>4. Residue(q + r) = Residue(n)
  BY <1>1, <1>2, <1>3 DEF Residue
<1> QED  BY <1>2, <1>4 DEF q, r

IsFolding(f) ==
    f = [sum \in Nat |->
            IF sum > 65535 THEN f[(sum \div 65536) + (sum % 65536)] ELSE sum]

\* The loop computes the residue.
LEMMA FoldedIs ==
    \A n \in Nat : folded[n] = Residue(n)
<1>1. IsFolding([n \in Nat |-> Residue(n)])
  <2> DEFINE g == [n \in Nat |-> Residue(n)]
  <2>1. ASSUME NEW n \in Nat
        PROVE  Residue(n) = IF n > 65535 THEN g[(n \div 65536) + (n % 65536)] ELSE n
    <3>1. CASE n > 65535
      BY <3>1, FoldOnce
    <3>2. CASE ~(n > 65535)
      BY <3>2 DEF Residue
    <3> QED  BY <3>1, <3>2
  <2> QED  BY <2>1 DEF IsFolding
<1>2. IsFolding(folded)
  <2>1. folded = CHOOSE f : IsFolding(f)
    BY DEF folded, IsFolding
  <2> QED  BY <1>1, <2>1
<1> SUFFICES ASSUME NEW x \in Nat, folded[x] # Residue(x) PROVE FALSE
  OBVIOUS
<1> DEFINE B == {n \in Nat : folded[n] # Residue(n)}
<1>3. PICK n \in B : \A y \in B : n <= y
  <2>1. B \subseteq Nat /\ x \in B
    OBVIOUS
  <2> HIDE DEF B
  <2> QED  BY <2>1, SmallestNumber
<1>4. n \in Nat /\ folded[n] # Residue(n)
  BY <1>3
<1>5. folded[n] = IF n > 65535 THEN folded[(n \div 65536) + (n % 65536)] ELSE n
  BY <1>2, <1>4 DEF IsFolding
<1>6. CASE n > 65535
  <2> DEFINE m == (n \div 65536) + (n % 65536)
  <2>1. m \in Nat /\ m < n /\ Residue(m) = Residue(n)
    BY <1>4, <1>6, FoldOnce
  <2>2. folded[n] = folded[m]
    BY <1>5, <1>6
  <2> HIDE DEF m
  <2>3. m \notin B
    BY <1>3, <1>4, <2>1
  <2> QED  BY <1>4, <2>1, <2>2, <2>3
<1>7. CASE ~(n > 65535)
  BY <1>4, <1>5, <1>7 DEF Residue
<1> QED  BY <1>6, <1>7

\* The checksum is never 0, and makes the sum a multiple of 65535.
LEMMA CksumFacts ==
    ASSUME NEW data \in Seq(Byte)
    PROVE  /\ cksum(data) \in Nat /\ 1 <= cksum(data) /\ cksum(data) <= 65535
           /\ (WordSum(data) + cksum(data)) % 65535 = 0
<1> DEFINE s == WordSum(data)
<1>1. s \in Nat /\ folded[s] = Residue(s)
  BY SumsFacts, FoldedIs
<1>2. cksum(data) = IF 65535 - Residue(s) = 0 THEN 65535 ELSE 65535 - Residue(s)
  BY <1>1 DEF cksum
<1> HIDE DEF s
<1>3. CASE s % 65535 = 0
  <2>1. cksum(data) = 65535
    BY <1>1, <1>2, <1>3 DEF Residue
  <2> QED  BY <1>1, <1>3, <2>1 DEF s
<1>4. CASE s % 65535 # 0
  <2>1. Residue(s) = s % 65535 /\ s % 65535 \in Nat /\ s % 65535 < 65535
    BY <1>1, <1>4 DEF Residue
  <2>2. cksum(data) = 65535 - (s % 65535)
    BY <1>2, <1>4, <2>1
  <2> QED  BY <1>1, <1>4, <2>1, <2>2 DEF s
<1> QED  BY <1>3, <1>4

-----------------------------------------------------------------------------
(* The checksum field.                                                     *)

\* Setting the field changes nothing else, and adds the number to the sum.
LEMMA WithSumFacts ==
    ASSUME NEW data \in Seq(Byte), Len(data) >= 4, NEW c \in Nat, c <= 65535
    PROVE  /\ WithSum(data, c) \in Seq(Byte)
           /\ Len(WithSum(data, c)) = Len(data)
           /\ Field(WithSum(data, c)) = c
           /\ \A i \in 1..Len(data) : i \notin {3, 4} => WithSum(data, c)[i] = data[i]
<1> DEFINE h == c \div 256
           l == c % 256
           e == [data EXCEPT ![3] = h]
<1>1. h \in Byte /\ l \in Byte /\ c = h * 256 + l
  <2>1. h \in Nat /\ l \in Nat /\ h <= 255 /\ l <= 255 /\ c = h * 256 + l
    OBVIOUS
  <2> QED  BY <2>1 DEF Byte
<1>2. WithSum(data, c) = [e EXCEPT ![4] = l]
  BY DEF WithSum
<1> HIDE DEF h, l
<1>3. Len(data) \in Nat /\ 3 \in 1..Len(data) /\ 4 \in 1..Len(data)
  BY LenProperties
<1>4. /\ e \in Seq(Byte) /\ Len(e) = Len(data)
      /\ \A j \in 1..Len(data) : e[j] = IF j = 3 THEN h ELSE data[j]
  BY <1>1, <1>3, ExceptSeq
<1> HIDE DEF e
<1>5. /\ [e EXCEPT ![4] = l] \in Seq(Byte) /\ Len([e EXCEPT ![4] = l]) = Len(data)
      /\ \A j \in 1..Len(data) : [e EXCEPT ![4] = l][j] = IF j = 4 THEN l ELSE e[j]
  BY <1>1, <1>3, <1>4, ExceptSeq
<1>6. WithSum(data, c)[3] = h /\ WithSum(data, c)[4] = l
  BY <1>2, <1>3, <1>4, <1>5
<1>7. Field(WithSum(data, c)) = c
  BY <1>1, <1>6 DEF Field
<1> QED  BY <1>2, <1>4, <1>5, <1>7

\* The sum is that of the rest and the field.
LEMMA SumOfField ==
    ASSUME NEW data \in Seq(Byte), Len(data) >= 4
    PROVE  /\ Field(data) \in Nat /\ Field(data) <= 65535
           /\ WordSum(data) = WordSum(WithSum(data, 0)) + Field(data)
<1> DEFINE z == WithSum(data, 0)
<1>1. /\ z \in Seq(Byte) /\ Len(z) = Len(data) /\ Field(z) = 0
      /\ \A i \in 1..Len(data) : i \notin {3, 4} => z[i] = data[i]
  BY WithSumFacts
<1>2. Len(data) \in Nat /\ 3 \in 1..Len(data) /\ 4 \in 1..Len(data)
  BY LenProperties
<1>3. /\ data[3] \in Nat /\ data[3] <= 255 /\ data[4] \in Nat /\ data[4] <= 255
      /\ z[3] \in Nat /\ z[4] \in Nat
  BY <1>1, <1>2, WordType
<1> HIDE DEF z
<1>4. Field(data) \in Nat /\ Field(data) <= 65535
  BY <1>3 DEF Field
<1>5. ASSUME NEW n \in 1..Len(data)
      PROVE  Adds(data, n) = Adds(z, n) + (IF n = 3 THEN Field(data) ELSE 0)
  <2>1. Adds(data, n) \in Nat /\ Adds(z, n) \in Nat /\ n \in Nat
    BY <1>1, WordType
  <2>2. CASE n % 2 # 1
    BY <1>4, <2>1, <2>2 DEF Adds
  <2>3. CASE n = 3
    <3>1. Word(z, 3) = Field(z) /\ Word(data, 3) = Field(data)
      BY <1>1, <1>2, <2>3 DEF Word, Field
    <3> QED  BY <1>1, <1>4, <2>3, <3>1 DEF Adds
  <2>4. CASE n % 2 = 1 /\ n # 3
    <3>1. n \notin {3, 4} /\ n + 1 \notin {3, 4}
      BY <2>1, <2>4
    <3>2. z[n] = data[n] /\ (n < Len(data) => z[n + 1] = data[n + 1])
      BY <1>1, <1>2, <2>1, <3>1
    <3>3. Word(z, n) = Word(data, n)
      BY <1>1, <3>2 DEF Word
    <3>4. Adds(z, n) = Adds(data, n)
      BY <3>3 DEF Adds
    <3> QED  BY <1>4, <2>1, <2>4, <3>4
  <2> QED  BY <2>1, <2>2, <2>3, <2>4
<1>6. WordSum(data) = WordSum(z) + Field(data)
  <2>1. /\ Len(data) = Len(z) /\ 3 \in 1..Len(z) /\ Field(data) \in Int
        /\ \A n \in 1..Len(z) :
              Adds(data, n) = Adds(z, n) + (IF n = 3 THEN Field(data) ELSE 0)
    BY <1>1, <1>2, <1>4, <1>5
  <2>2. z \in Seq(Byte) /\ data \in Seq(Byte)
    BY <1>1
  <2> QED  BY <2>1, <2>2, SumsDiffer
<1> QED  BY <1>4, <1>6 DEF z

\* The router accepts a message just when its words add up and its checksum
\* field is not 0.
LEMMA VerifiedIff ==
    ASSUME NEW data \in Seq(Byte), Len(data) >= 4
    PROVE  Verified(data) <=> Field(data) # 0 /\ WordSum(data) % 65535 = 0
<1> DEFINE z == WithSum(data, 0)
           c == cksum(z)
           s == WordSum(z)
           f == Field(data)
<1>1. z \in Seq(Byte)
  BY WithSumFacts
<1>2. c \in Nat /\ 1 <= c /\ c <= 65535 /\ (s + c) % 65535 = 0 /\ s \in Nat
  BY <1>1, CksumFacts, SumsFacts
<1>3. f \in Nat /\ f <= 65535 /\ WordSum(data) = s + f
  BY SumOfField
<1>4. Verified(data) <=> f = c
  BY DEF Verified
<1> HIDE DEF z, c, s, f
<1>5. f = c => f # 0 /\ (s + f) % 65535 = 0
  BY <1>2
<1>6. ASSUME f # 0, (s + f) % 65535 = 0 PROVE f = c
  BY <1>2, <1>3, <1>6
<1> QED  BY <1>3, <1>4, <1>5, <1>6 DEF f

\* A message with a checksum of the router's is valid, and not of sum 0.
LEMMA CksumValid ==
    ASSUME NEW data \in Seq(Byte), Len(data) >= 4
    PROVE  LET out == WithSum(WithSum(data, 0), cksum(WithSum(data, 0)))
           IN  /\ out \in Seq(Byte) /\ Len(out) = Len(data)
               /\ Valid(out) /\ Field(out) # 0
               /\ \A i \in 1..Len(data) : i \notin {3, 4} => out[i] = data[i]
<1> DEFINE z == WithSum(data, 0)
           c == cksum(z)
           out == WithSum(z, c)
<1>1. /\ z \in Seq(Byte) /\ Len(z) = Len(data)
      /\ \A i \in 1..Len(data) : i \notin {3, 4} => z[i] = data[i]
  BY WithSumFacts
<1>2. c \in Nat /\ 1 <= c /\ c <= 65535 /\ (WordSum(z) + c) % 65535 = 0 /\ WordSum(z) \in Nat
  BY <1>1, CksumFacts, SumsFacts
<1> HIDE DEF c
<1>3. /\ out \in Seq(Byte) /\ Len(out) = Len(data) /\ Field(out) = c
      /\ \A i \in 1..Len(data) : i \notin {3, 4} => out[i] = data[i]
  BY <1>1, <1>2, WithSumFacts
<1>4. WithSum(out, 0) = z
  <2>1. WithSum(out, 0) \in Seq(Byte) /\ Len(WithSum(out, 0)) = Len(data)
    BY <1>3, WithSumFacts
  <2> DEFINE o == WithSum(out, 0)
  <2>2. ASSUME NEW i \in 1..Len(data) PROVE o[i] = z[i]
    <3>1. CASE i \notin {3, 4}
      BY <1>1, <1>3, <3>1, WithSumFacts
    <3>2. CASE i \in {3, 4}
      <4>1. z[i] = 0 /\ o[i] = 0
        <5>1. Len(data) \in Nat /\ 3 \in 1..Len(data) /\ 4 \in 1..Len(data)
          BY LenProperties
        <5>2. data \in [1..Len(data) -> Byte] /\ out \in [1..Len(data) -> Byte]
          BY <1>3, LenProperties
        <5>3. 0 \div 256 = 0 /\ 0 % 256 = 0
          OBVIOUS
        <5> HIDE DEF out
        <5> QED  BY <3>2, <5>1, <5>2, <5>3 DEF WithSum
      <4> QED  BY <4>1
    <3> QED  BY <3>1, <3>2
  <2> QED  BY <1>1, <2>1, <2>2, SeqEqual
<1>5. WordSum(out) = WordSum(z) + c
  BY <1>3, <1>4, SumOfField
<1>6. Valid(out)
  BY <1>2, <1>5 DEF Valid
<1> QED  BY <1>2, <1>3, <1>6 DEF c

\* A byte that is changed changes the sum, and by less than 65535.
SumMoved(d, e) ==
    \E delta \in Int : /\ WordSum(e) = WordSum(d) + delta
                       /\ delta # 0 /\ delta < 65535 /\ delta > -65535

LEMMA DamageShows ==
    ASSUME NEW d \in Seq(Byte), NEW i \in 1..Len(d), NEW b \in Byte, b # d[i]
    PROVE  SumMoved(d, [d EXCEPT ![i] = b])
<1> DEFINE e == [d EXCEPT ![i] = b]
           j == IF i % 2 = 1 THEN i ELSE i - 1
           delta == IF i % 2 = 1 THEN (b - d[i]) * 256 ELSE b - d[i]
<1>1. /\ e \in Seq(Byte) /\ Len(e) = Len(d)
      /\ \A k \in 1..Len(d) : e[k] = IF k = i THEN b ELSE d[k]
  BY ExceptSeq
<1> HIDE DEF e
<1>2. /\ Len(d) \in Nat /\ i \in Nat /\ 1 <= i /\ i <= Len(d)
      /\ d[i] \in Nat /\ d[i] <= 255
  BY WordType
<1>3. b \in Nat /\ b <= 255
  BY DEF Byte
<1>4. /\ delta \in Int /\ delta # 0 /\ delta < 65535 /\ delta > -65535
      /\ j \in 1..Len(d) /\ j % 2 = 1
  BY <1>2, <1>3
<1>5. ASSUME NEW n \in 1..Len(d)
      PROVE  Adds(e, n) = Adds(d, n) + (IF n = j THEN delta ELSE 0)
  <2>1. Adds(d, n) \in Nat /\ Adds(e, n) \in Nat /\ n \in Nat
    BY <1>1, WordType
  <2>2. CASE n % 2 # 1
    <3>1. n # j
      BY <1>4, <2>2
    <3>2. Adds(d, n) = 0 /\ Adds(e, n) = 0
      BY <2>2 DEF Adds
    <3> QED  BY <3>1, <3>2
  <2>3. CASE n % 2 = 1
    <3>1. Adds(d, n) = Word(d, n) /\ Adds(e, n) = Word(e, n)
      BY <2>3 DEF Adds
    <3>2. /\ d[n] \in Nat /\ (n < Len(d) => d[n + 1] \in Nat)
          /\ e[n] = IF n = i THEN b ELSE d[n]
          /\ n < Len(d) => e[n + 1] = IF n + 1 = i THEN b ELSE d[n + 1]
      <4>1. d[n] \in Nat /\ (n < Len(d) => d[n + 1] \in Nat)
        BY WordType
      <4>2. n < Len(d) => n + 1 \in 1..Len(d)
        BY <1>2, <2>1
      <4> QED  BY <1>1, <4>1, <4>2
    <3>3. CASE n = i
      <4>1. n = j /\ delta = (b - d[i]) * 256
        BY <2>3, <3>3
      <4>2. Word(e, n) = Word(d, n) + (b - d[i]) * 256
        BY <1>1, <1>2, <1>3, <2>1, <3>2, <3>3 DEF Word
      <4> QED  BY <3>1, <4>1, <4>2
    <3>4. CASE n + 1 = i
      <4>1. n = j /\ delta = b - d[i]
        BY <1>2, <2>1, <2>3, <3>4
      <4>2. n < Len(d) /\ n # i /\ n \in Int
        BY <1>2, <2>1, <3>4
      <4>3. Word(e, n) = e[n] * 256 + e[n + 1] /\ Word(d, n) = d[n] * 256 + d[n + 1]
        BY <1>1, <4>2 DEF Word
      <4>4. e[n] = d[n] /\ e[n + 1] = b /\ d[n + 1] = d[i]
        BY <3>2, <3>4, <4>2
      <4>5. Word(e, n) = Word(d, n) + (b - d[i])
        BY <1>2, <1>3, <3>2, <4>2, <4>3, <4>4
      <4> QED  BY <3>1, <4>1, <4>5
    <3>5. CASE n # i /\ n + 1 # i
      <4>1. n # j
        BY <1>2, <2>1, <2>3, <3>5
      <4>2. Word(e, n) = Word(d, n)
        BY <1>1, <1>2, <2>1, <3>2, <3>5 DEF Word
      <4> QED  BY <2>1, <3>1, <4>1, <4>2
    <3> QED  BY <3>3, <3>4, <3>5
  <2> QED  BY <2>2, <2>3
<1>6. WordSum(e) = WordSum(d) + delta
  <2> HIDE DEF j, delta
  <2> QED  BY <1>1, <1>4, <1>5, SumsDiffer
<1> HIDE DEF delta
<1>7. SumMoved(d, e)
  BY <1>4, <1>6 DEF SumMoved
<1> QED  BY <1>7 DEF e
-----------------------------------------------------------------------------
(* The inductive invariant.                                                *)

\* What was put on the link is a message with a good checksum, filled up
\* with zeros, and what is on it differs from that in one byte at most.
ChecksumTypeOK ==
    /\ sent \in Seq(Byte) /\ frame \in Seq(Byte) /\ Len(frame) = Len(sent)
    /\ len \in Nat /\ 4 <= len /\ len <= Len(sent)

SentIsGood ==
    /\ \A k \in (len + 1)..Len(sent) : sent[k] = 0
    /\ Valid(sent)
    /\ by = "router" => Field(sent) # 0

OneByteDamaged ==
    frame = sent \/ \E i \in 1..Len(sent), b \in Byte :
                        b # sent[i] /\ frame = [sent EXCEPT ![i] = b]

ChecksumInv ==
    ChecksumTypeOK /\ SentIsGood /\ OneByteDamaged /\ OutputAccepted /\ OnlyZeroSumLost

-----------------------------------------------------------------------------
(* The steps of the proof.                                                 *)

LEMMA WithSumBack ==
    ASSUME NEW d \in Seq(Byte), Len(d) >= 4, d[3] = 0, d[4] = 0, NEW c \in Nat, c <= 65535
    PROVE  WithSum(WithSum(d, c), 0) = d
<1> DEFINE w == WithSum(d, c)
           z == WithSum(w, 0)
<1>1. /\ w \in Seq(Byte) /\ Len(w) = Len(d)
      /\ \A i \in 1..Len(d) : i \notin {3, 4} => w[i] = d[i]
  BY WithSumFacts
<1> HIDE DEF w
<1>2. /\ z \in Seq(Byte) /\ Len(z) = Len(d)
      /\ \A i \in 1..Len(d) : i \notin {3, 4} => z[i] = w[i]
  BY <1>1, WithSumFacts
<1>3. z[3] = 0 /\ z[4] = 0
  <2>1. 3 \in 1..Len(d) /\ 4 \in 1..Len(d) /\ w \in [1..Len(d) -> Byte]
    BY <1>1, LenProperties
  <2>2. 0 \div 256 = 0 /\ 0 % 256 = 0
    OBVIOUS
  <2> QED  BY <2>1, <2>2 DEF WithSum
<1> HIDE DEF z
<1>4. ASSUME NEW i \in 1..Len(d) PROVE z[i] = d[i]
  BY <1>1, <1>2, <1>3
<1>5. z = d
  BY <1>2, <1>4, SeqEqual
<1> QED  BY <1>5 DEF z, w

LEMMA HostSum ==
    ASSUME NEW d \in Seq(Byte), Len(d) >= 4, d[3] = 0, d[4] = 0
    PROVE  LET w == WithSum(d, Rfc1071(d))
           IN  w \in Seq(Byte) /\ Len(w) = Len(d) /\ Valid(w)
<1> DEFINE c == Rfc1071(d)
           w == WithSum(d, c)
           s == WordSum(d)
<1>1. s \in Nat
  BY SumsFacts
<1>2. c \in Nat /\ c <= 65535 /\ s + c > 0 /\ (s + c) % 65535 = 0
  <2>1. c = IF s > 0 /\ s % 65535 = 0 THEN 0 ELSE 65535 - (s % 65535)
    BY DEF Rfc1071
  <2> HIDE DEF s, c
  <2> QED  BY <1>1, <2>1
<1> HIDE DEF c
<1>3. w \in Seq(Byte) /\ Len(w) = Len(d) /\ Field(w) = c
  BY <1>2, WithSumFacts
<1>4. WithSum(w, 0) = d
  BY <1>2, WithSumBack
<1> HIDE DEF w
<1>5. WordSum(w) = s + c
  BY <1>3, <1>4, SumOfField
<1>6. Valid(w)
  BY <1>2, <1>5 DEF Valid
<1> QED  BY <1>3, <1>6 DEF w, c

LEMMA ConstantsFacts ==
    /\ \A n \in Lengths : n \in Nat /\ n >= 4
    /\ \A p \in PadLengths : p \in Nat
    /\ \A b \in Octets : b \in Byte
BY ChecksumAssumption

LEMMA InitChecksum == Init => ChecksumInv
<1> SUFFICES ASSUME Init PROVE ChecksumInv
  OBVIOUS
<1>1. PICK d \in Contents, p \in PadLengths :
        len = Len(d) /\ frame = WithSum(d, Rfc1071(d)) \o [k \in 1..p |-> 0]
  BY DEF Init
<1>2. sent = frame /\ by = "host" /\ at = "link"
  BY DEF Init
<1>3. d \in Seq(Byte) /\ Len(d) \in Nat /\ Len(d) >= 4 /\ d[3] = 0 /\ d[4] = 0 /\ p \in Nat
  <2>1. PICK n \in Lengths : d \in [1..n -> Octets]
    BY DEF Contents
  <2>2. n \in Nat /\ n >= 4 /\ p \in Nat
    BY ConstantsFacts
  <2>3. d \in [1..n -> Byte]
    BY <2>1, ConstantsFacts
  <2>4. d \in Seq(Byte) /\ Len(d) = n
    BY <2>2, <2>3
  <2> QED  BY <2>2, <2>4 DEF Contents
<1> DEFINE w == WithSum(d, Rfc1071(d))
           z == [k \in 1..p |-> 0]
<1>4. w \in Seq(Byte) /\ Len(w) = Len(d) /\ Valid(w)
  BY <1>3, HostSum
<1> HIDE DEF w
<1>5. z \in Seq(Byte) /\ Len(z) = p /\ \A k \in 1..p : z[k] = 0
  <2>1. 0 \in Byte
    BY DEF Byte
  <2> QED  BY <1>3, <2>1
<1> HIDE DEF z
<1>6. frame = w \o z
  BY <1>1 DEF w, z
<1>7. /\ frame \in Seq(Byte) /\ Len(frame) = Len(d) + p
      /\ \A k \in 1..Len(w) : frame[k] = w[k]
      /\ \A k \in (Len(w) + 1)..Len(frame) : frame[k] = 0
  <2>1. frame \in Seq(Byte) /\ Len(frame) = Len(w) + Len(z)
    BY <1>4, <1>5, <1>6, ConcatProperties
  <2>2. ASSUME NEW k \in 1..Len(w) PROVE frame[k] = w[k]
    BY <1>3, <1>4, <1>5, <1>6, ConcatProperties
  <2>3. ASSUME NEW k \in (Len(w) + 1)..Len(frame) PROVE frame[k] = 0
    <3>1. k - Len(w) \in 1..p /\ k \in 1..(Len(w) + Len(z)) /\ ~(k <= Len(w))
      BY <1>3, <1>4, <1>5, <2>1
    <3>2. frame[k] = z[k - Len(w)]
      BY <1>4, <1>5, <1>6, <3>1, ConcatProperties
    <3> QED  BY <1>5, <3>1, <3>2
  <2> QED  BY <1>4, <1>5, <2>1, <2>2, <2>3
<1>8. Valid(frame)
  <2>1. WordSum(frame) = WordSum(w)
    BY <1>3, <1>4, <1>7, PaddingAddsNothing
  <2> QED  BY <1>4, <2>1 DEF Valid
<1>9. ChecksumTypeOK
  BY <1>1, <1>2, <1>3, <1>7 DEF ChecksumTypeOK
<1>10. SentIsGood
  BY <1>1, <1>2, <1>4, <1>7, <1>8 DEF SentIsGood
<1> QED  BY <1>2, <1>9, <1>10 DEF ChecksumInv, OneByteDamaged, OutputAccepted, OnlyZeroSumLost

\* The host sums up only the message, which makes no difference.
LEMMA HostAccepts ==
    ASSUME ChecksumTypeOK, SentIsGood, frame = sent
    PROVE  Valid(SubSeq(frame, 1, len))
<1> DEFINE m == SubSeq(sent, 1, len)
<1>1. /\ sent \in Seq(Byte) /\ len \in Nat /\ len <= Len(sent) /\ Len(sent) \in Nat
      /\ \A k \in (len + 1)..Len(sent) : sent[k] = 0
  BY LenProperties DEF ChecksumTypeOK, SentIsGood
<1>2. m \in Seq(Byte) /\ Len(m) = len /\ \A k \in 1..len : m[k] = sent[k]
  <2>1. \A k \in 1..len : sent[k] \in Byte
    BY <1>1, ElementOfSeq
  <2>2. 1 \in 1..(Len(sent)+1) /\ len \in (1-1)..Len(sent) /\ Len(m) = len
    BY <1>1
  <2>3. \A k \in 1..len : m[k] = sent[k]
    BY <1>1
  <2> QED  BY <1>1, <2>2, <2>3
<1> HIDE DEF m
<1>3. WordSum(sent) = WordSum(m)
  BY <1>1, <1>2, PaddingAddsNothing
<1> QED  BY <1>3 DEF m, Valid, SentIsGood

\* The router takes an intact message whose checksum is not 0, and nothing
\* that was damaged.
LEMMA RouterTakes ==
    ASSUME ChecksumTypeOK, SentIsGood, OneByteDamaged
    PROVE  Verified(frame) <=> frame = sent /\ Field(sent) # 0
<1>1. frame \in Seq(Byte) /\ sent \in Seq(Byte) /\ Len(frame) >= 4
  BY LenProperties DEF ChecksumTypeOK
<1>2. WordSum(sent) % 65535 = 0
  BY DEF SentIsGood, Valid
<1>3. CASE frame = sent
  BY <1>1, <1>2, <1>3, VerifiedIff
<1>4. CASE frame # sent
  <2>1. PICK i \in 1..Len(sent), b \in Byte : b # sent[i] /\ frame = [sent EXCEPT ![i] = b]
    BY <1>4 DEF OneByteDamaged
  <2>2. SumMoved(sent, [sent EXCEPT ![i] = b])
    BY <1>1, <2>1, DamageShows
  <2>3. PICK delta \in Int : /\ WordSum(frame) = WordSum(sent) + delta
                             /\ delta # 0 /\ delta < 65535 /\ delta > -65535
    BY <2>1, <2>2 DEF SumMoved
  <2>4. WordSum(sent) \in Nat /\ WordSum(frame) \in Nat
    BY <1>1, SumsFacts
  <2>5. WordSum(frame) % 65535 # 0
    BY <1>2, <2>3, <2>4
  <2> QED  BY <1>1, <1>4, <2>5, VerifiedIff
<1> QED  BY <1>3, <1>4

LEMMA SentBecomes ==
    ASSUME NEW CONSTANT out, sent' = out
    PROVE  Valid(sent)' = Valid(out) /\ Field(sent)' = Field(out)
BY DEF Valid, WordSum, Sums, Word, Field

\* What a router sends is good again.
LEMMA EmitKeeps ==
    ASSUME ChecksumInv, frame = sent, at = "link", NEW data \in Seq(Byte), Len(data) = Len(frame),
           \A k \in 1..Len(frame) : k \notin {1, 2} => data[k] = frame[k],
           Emit(WithSum(WithSum(data, 0), cksum(WithSum(data, 0))))
    PROVE  ChecksumInv'
<1> DEFINE out == WithSum(WithSum(data, 0), cksum(WithSum(data, 0)))
<1>1. /\ sent \in Seq(Byte) /\ len \in Nat /\ 4 <= len /\ len <= Len(sent) /\ Len(sent) \in Nat
      /\ \A k \in (len + 1)..Len(sent) : sent[k] = 0
  BY LenProperties DEF ChecksumInv, ChecksumTypeOK, SentIsGood
<1>2. /\ out \in Seq(Byte) /\ Len(out) = Len(sent) /\ Valid(out) /\ Field(out) # 0
      /\ \A k \in 1..Len(sent) : k \notin {3, 4} => out[k] = data[k]
  BY <1>1, CksumValid
<1>3. sent' = out /\ frame' = out /\ len' = len /\ at' = at
  BY DEF Emit
<1> HIDE DEF out
<1>4. \A k \in (len + 1)..Len(sent) : out[k] = 0
  BY <1>1, <1>2
<1>5. ChecksumTypeOK'
  BY <1>1, <1>2, <1>3 DEF ChecksumTypeOK
<1>6. SentIsGood'
  <2>1. Valid(sent)' /\ Field(sent)' # 0
    BY <1>2, <1>3, SentBecomes
  <2> QED  BY <1>2, <1>3, <1>4, <2>1 DEF SentIsGood
<1>7. OneByteDamaged' /\ OutputAccepted' /\ OnlyZeroSumLost'
  BY <1>3 DEF OneByteDamaged, OutputAccepted, OnlyZeroSumLost
<1> QED  BY <1>5, <1>6, <1>7 DEF ChecksumInv

\* A step that leaves the frame where it is.
LEMMA StaysKeeps ==
    ASSUME ChecksumInv, UNCHANGED <<frame, len, sent, by>>
    PROVE  ChecksumTypeOK' /\ SentIsGood' /\ OneByteDamaged'
BY DEF ChecksumInv, ChecksumTypeOK, SentIsGood, OneByteDamaged, Valid, WordSum, Sums, Word, Field

LEMMA NextChecksum == ChecksumInv /\ [Next]_vars => ChecksumInv'
<1> SUFFICES ASSUME ChecksumInv, [Next]_vars PROVE ChecksumInv'
  OBVIOUS
<1>0. ChecksumTypeOK /\ SentIsGood /\ OneByteDamaged
  BY DEF ChecksumInv
<1>1. CASE Damage
  <2>1. at = "link" /\ frame = sent /\ UNCHANGED <<len, sent, by, at>>
    BY <1>1 DEF Damage
  <2>2. PICK i \in DOMAIN frame, b \in Octets : frame' = [frame EXCEPT ![i] = b]
    BY <1>1 DEF Damage
  <2>3. i \in 1..Len(sent) /\ b \in Byte /\ sent \in Seq(Byte) /\ frame' = [sent EXCEPT ![i] = b]
    BY <1>0, <2>1, <2>2, ConstantsFacts, LenProperties DEF ChecksumTypeOK
  <2>4. frame' \in Seq(Byte) /\ Len(frame') = Len(sent)
    BY <2>3, ExceptSeq
  <2>5. ChecksumTypeOK'
    BY <1>0, <2>1, <2>4 DEF ChecksumTypeOK
  <2>6. SentIsGood'
    BY <1>0, <2>1 DEF SentIsGood, Valid, WordSum, Sums, Word, Field
  <2>7. OneByteDamaged'
    <3>1. CASE b # sent[i]
      BY <2>1, <2>3, <3>1 DEF OneByteDamaged
    <3>2. CASE b = sent[i]
      <4>1. frame' = sent
        BY <2>3, <3>2, LenProperties
      <4> QED  BY <2>1, <4>1 DEF OneByteDamaged
    <3> QED  BY <3>1, <3>2
  <2> QED  BY <2>1, <2>5, <2>6, <2>7 DEF ChecksumInv, OutputAccepted, OnlyZeroSumLost
<1>2. CASE HostReceives
  <2>1. UNCHANGED <<frame, len, sent, by>> /\ at' # "dropped"
    BY <1>2 DEF HostReceives
  <2>2. at' = "rejected" => frame # sent
    BY <1>0, <1>2, HostAccepts DEF HostReceives
  <2> QED  BY <2>1, <2>2, StaysKeeps DEF ChecksumInv, OutputAccepted, OnlyZeroSumLost
<1>3. ASSUME NEW why, Drop(why), why # "rejected",
             why = "dropped" => ~Verified(frame)
      PROVE  ChecksumInv'
  <2>1. UNCHANGED <<frame, len, sent, by>> /\ at' = why
    BY <1>3 DEF Drop
  <2>2. why = "dropped" /\ frame = sent => Field(sent) = 0
    BY <1>0, <1>3, RouterTakes
  <2>3. OutputAccepted'
    BY <1>0, <1>3, <2>1, <2>2 DEF OutputAccepted, SentIsGood
  <2>4. OnlyZeroSumLost'
    BY <2>1, <2>2 DEF OnlyZeroSumLost, Field
  <2> QED  BY <2>1, <2>3, <2>4, StaysKeeps DEF ChecksumInv
<1>4. CASE HandleHeader
  <2>1. CASE ~Verified(frame) /\ Drop("dropped")
    BY <1>3, <2>1
  <2>2. CASE Drop("expired")
    BY <1>3, <2>2
  <2>3. CASE Verified(frame) /\ frame[1] > 1 /\ Emit(Forward(frame))
    <3> DEFINE data == [frame EXCEPT ![1] = frame[1] - 1]
    <3>1. frame = sent /\ at = "link" /\ frame \in Seq(Byte) /\ 1 \in 1..Len(frame)
      BY <1>0, <1>4, <2>3, RouterTakes, LenProperties DEF ChecksumTypeOK, HandleHeader
    <3>2. frame[1] - 1 \in Byte
      <4>1. frame[1] \in Byte
        BY <3>1, ElementOfSeq
      <4> QED  BY <2>3, <4>1 DEF Byte
    <3>3. /\ data \in Seq(Byte) /\ Len(data) = Len(frame)
          /\ \A k \in 1..Len(frame) : k \notin {1, 2} => data[k] = frame[k]
      BY <3>1, <3>2, ExceptSeq
    <3>4. Emit(WithSum(WithSum(data, 0), cksum(WithSum(data, 0))))
      BY <2>3 DEF Forward
    <3> HIDE DEF data
    <3> QED  BY <3>1, <3>3, <3>4, EmitKeeps
  <2> QED  BY <1>4, <2>1, <2>2, <2>3 DEF HandleHeader
<1>5. CASE HandleEcho
  <2>1. CASE Drop("ignored")
    BY <1>3, <2>1
  <2>2. CASE ~Verified(frame) /\ Drop("dropped")
    BY <1>3, <2>2
  <2>3. CASE Verified(frame) /\ Emit(EchoReply(frame))
    <3> DEFINE first == [frame EXCEPT ![1] = 0]
               data == [first EXCEPT ![2] = 0]
    <3>1. /\ frame = sent /\ at = "link" /\ frame \in Seq(Byte)
          /\ 1 \in 1..Len(frame) /\ 2 \in 1..Len(frame) /\ 0 \in Byte
      BY <1>0, <1>5, <2>3, RouterTakes, LenProperties DEF ChecksumTypeOK, HandleEcho, Byte
    <3>2. /\ first \in Seq(Byte) /\ Len(first) = Len(frame)
          /\ \A k \in 1..Len(frame) : k \notin {1, 2} => first[k] = frame[k]
      BY <3>1, ExceptSeq
    <3>3. [frame EXCEPT ![1] = 0, ![2] = 0] = data
      OBVIOUS
    <3>4. Emit(WithSum(WithSum(data, 0), cksum(WithSum(data, 0))))
      BY <2>3, <3>3 DEF EchoReply
    <3> HIDE DEF first
    <3>5. /\ data \in Seq(Byte) /\ Len(data) = Len(frame)
          /\ \A k \in 1..Len(frame) : k \notin {1, 2} => data[k] = frame[k]
      BY <3>1, <3>2, ExceptSeq
    <3> HIDE DEF data
    <3> QED  BY <3>1, <3>4, <3>5, EmitKeeps
  <2> QED  BY <1>5, <2>1, <2>2, <2>3 DEF HandleEcho
<1>6. CASE UNCHANGED vars
  BY <1>6, StaysKeeps DEF vars, ChecksumInv, OutputAccepted, OnlyZeroSumLost, Field
<1> QED  BY <1>1, <1>2, <1>4, <1>5, <1>6 DEF Next, Done

-----------------------------------------------------------------------------
(* The theorems.                                                           *)

LEMMA AlwaysChecksum == Spec => []ChecksumInv
BY InitChecksum, NextChecksum, PTL DEF Spec

\* Whatever the bytes and the length of a message, however many zeros fill up
\* its frame and however many routers it has passed: no intact output of a
\* router is turned down by the next host or router.
THEOREM ChecksumOutputAccepted == Spec => []OutputAccepted
<1>1. ChecksumInv => OutputAccepted
  BY DEF ChecksumInv
<1> QED  BY <1>1, AlwaysChecksum, PTL

\* The comparison with a cksum that is never 0 turns down, of all intact
\* messages, those with checksum 0 only.
THEOREM ChecksumOnlyZeroSumLost == Spec => []OnlyZeroSumLost
<1>1. ChecksumInv => OnlyZeroSumLost
  BY DEF ChecksumInv
<1> QED  BY <1>1, AlwaysChecksum, PTL

\* A message with a damaged byte is never sent on or answered: a sum of words
\* shows the change of any one byte, at either parity.
THEOREM ChecksumDamageNeverBlessed == Spec => DamageNeverBlessed
<1>1. ChecksumInv /\ [Next]_vars => [hops' # hops => frame = sent]_vars
  <2> SUFFICES ASSUME ChecksumInv, Next, hops' # hops PROVE frame = sent
    OBVIOUS
  <2>1. Verified(frame)
    BY DEF Next, Damage, HostReceives, HandleHeader, HandleEcho, Done, Drop, vars
  <2> QED  BY <2>1, RouterTakes DEF ChecksumInv
<1> QED  BY <1>1, AlwaysChecksum, PTL DEF Spec, DamageNeverBlessed
=============================================================================
