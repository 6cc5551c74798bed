------------------------------ MODULE FfaProofs ------------------------------
(* Proofs about FfaCalls, FfaConsole and FfaBoundary, for bytes of any     *)
(* size, log records of any text and any values of the calls' fields.      *)
EXTENDS FfaBoundary, SequenceTheorems, FiniteSetTheorems, WellFoundedInduction, TLAPS

-----------------------------------------------------------------------------
(* Induction, for a set instead of a predicate: an element that is missing *)
(* from the set would be above a smallest one.                             *)

LEMMA NatSetInduction ==
  ASSUME NEW S, 0 \in S, \A n \in Nat : n \in S => n + 1 \in S
  PROVE  \A n \in Nat : n \in S
<1> DEFINE T == Nat \ S
           R == OpToRel(<, Nat)
<1>1. SUFFICES ASSUME T # {} PROVE FALSE
  OBVIOUS
<1>2. IsWellFoundedOn(R, Nat)
  BY NatLessThanWellFounded
<1>3. T \subseteq Nat
  OBVIOUS
<1> HIDE DEF T
<1>4. PICK m \in T : \A y \in T : ~ (<<y, m>> \in R)
  BY <1>1, <1>2, <1>3, WFMin
<1>5. \A y \in T : ~ (y < m)
  BY <1>3, <1>4 DEF OpToRel
<1>6. m \in Nat /\ m \notin S /\ m # 0
  BY DEF T
<1>7. m - 1 \in Nat /\ (m - 1) + 1 = m /\ m - 1 < m
  BY <1>6
<1>8. m - 1 \in S
  BY <1>5, <1>7 DEF T
<1> QED BY <1>6, <1>7, <1>8

-----------------------------------------------------------------------------
(* Words.                                                                  *)

LEMMA DivMod ==
  ASSUME NEW K \in Nat \ {0}, NEW q \in Nat, NEW r \in 0 .. K - 1
  PROVE  (q * K + r) \div K = q /\ (q * K + r) % K = r
OBVIOUS

LEMMA DivModTyped ==
  ASSUME NEW K \in Nat \ {0}, NEW v \in Nat
  PROVE  v \div K \in Nat /\ v % K \in 0 .. K - 1
OBVIOUS

LEMMA Euclid ==
  ASSUME NEW K \in Nat \ {0}, NEW v \in Nat
  PROVE  v = (v \div K) * K + (v % K)
OBVIOUS

LEMMA Distribute ==
  ASSUME NEW a \in Nat, NEW d \in Nat, NEW K \in Nat
  PROVE  (a + d) * K = a * K + d * K
OBVIOUS

LEMMA DivLess ==
  ASSUME NEW K \in Nat \ {0}, NEW M \in Nat \ {0}, NEW v \in 0 .. K * M - 1
  PROVE  v \div K \in 0 .. M - 1
OBVIOUS

LEMMA Combined ==
  ASSUME NEW K \in Nat \ {0}, NEW M \in Nat \ {0},
         NEW h \in 0 .. M - 1, NEW l \in 0 .. K - 1
  PROVE  h * K + l \in 0 .. K * M - 1
OBVIOUS

\* The halves of a word make up the word.
LEMMA Halved ==
  ASSUME NEW K \in Nat \ {0}, NEW v \in 0 .. K * K - 1
  PROVE  /\ v % K \in 0 .. K - 1 /\ (v \div K) % K \in 0 .. K - 1
         /\ v \div K \in 0 .. K - 1 /\ (v \div K) % K = v \div K
         /\ (v \div K) * K + (v % K) = v
OBVIOUS

LEMMA Sizes ==
  /\ BYTE \in Nat \ {0} /\ U16 \in Nat \ {0} /\ U32 \in Nat \ {0} /\ U64 \in Nat \ {0}
  /\ BYTE <= U16 /\ U16 <= U32 /\ U32 <= U64 /\ 1 < BYTE
BY ByteAssumption DEF U16, U32, U64

Multiple(s, K) == \E q \in Nat : s = q * K

\* The digit of a number w to the base R that counts for K is d: what is below
\* it is less than K, and what is above it a multiple of the next unit.
HasDigit(w, K, R, d) ==
  \E low \in 0 .. K - 1, s \in Nat : Multiple(s, K * R) /\ w = low + d * K + s

LEMMA Digit ==
  ASSUME NEW K \in Nat \ {0}, NEW R \in Nat \ {0}, NEW d \in 0 .. R - 1,
         NEW w, HasDigit(w, K, R, d)
  PROVE  (w \div K) % R = d
<1>1. PICK low \in 0 .. K - 1, s \in Nat : Multiple(s, K * R) /\ w = low + d * K + s
  BY DEF HasDigit
<1>2. PICK rest \in Nat : s = rest * (K * R)
  BY <1>1 DEF Multiple
<1>3. PICK q \in Nat : q = rest * R + d
  OBVIOUS
<1>4. rest * (K * R) = (rest * R) * K
  OBVIOUS
<1>5. q * K = (rest * R) * K + d * K
  BY <1>3
<1>6. w = q * K + low
  BY <1>1, <1>2, <1>4, <1>5
<1>7. w \div K = q
  BY <1>6, DivMod
<1>8. q % R = d
  BY <1>3, DivMod
<1> QED BY <1>7, <1>8

LEMMA Below ==
  ASSUME NEW K \in Nat \ {0}, NEW R \in Nat \ {0}, NEW L, L = K * R,
         NEW low \in 0 .. K - 1, NEW d \in 0 .. R - 1
  PROVE  \E low2 \in 0 .. L - 1 : low2 = low + d * K
BY Combined

LEMMA Above ==
  ASSUME NEW K \in Nat, NEW R \in Nat \ {0}, NEW L, L = K * R, NEW d \in Nat,
         NEW s \in Nat, Multiple(s, L)
  PROVE  \E s2 \in Nat : s2 = d * K + s /\ Multiple(s2, K)
<1>1. PICK rest \in Nat : s = rest * (K * R)
  BY DEF Multiple
<1>2. PICK q \in Nat : q = d + rest * R
  OBVIOUS
<1>3. s = (rest * R) * K
  BY <1>1
<1>4. q * K = d * K + (rest * R) * K
  BY <1>2
<1>5. q * K \in Nat
  OBVIOUS
<1> QED BY <1>3, <1>4, <1>5 DEF Multiple

\* The value of each byte of a register.
LEMMA Units ==
  /\ Unit[1] = 1 /\ Unit[2] = BYTE
  /\ \A i \in 1 .. 8 : Unit[i] \in Nat \ {0}
  /\ \A i \in 1 .. 7 : Unit[i + 1] = Unit[i] * BYTE
  /\ Unit[8] * BYTE = U64
<1>1. /\ Unit[1] = 1 /\ Unit[2] = BYTE /\ Unit[3] = U16 /\ Unit[4] = U16 * BYTE
      /\ Unit[5] = U32 /\ Unit[6] = U32 * BYTE /\ Unit[7] = U32 * U16
      /\ Unit[8] = U32 * U16 * BYTE
  BY DEF Unit
<1>2. /\ Unit[2] = Unit[1] * BYTE /\ Unit[3] = Unit[2] * BYTE
      /\ Unit[4] = Unit[3] * BYTE
  BY <1>1, Sizes DEF U16
<1>3. Unit[5] = Unit[4] * BYTE /\ Unit[6] = Unit[5] * BYTE
  BY <1>1, Sizes DEF U16, U32
<1>4. Unit[7] = Unit[6] * BYTE /\ Unit[8] = Unit[7] * BYTE
  BY <1>1, Sizes DEF U16
<1>5. Unit[8] * BYTE = U64
  BY <1>1, Sizes DEF U16, U32, U64
<1>6. \A i \in 1 .. 8 : Unit[i] \in Nat \ {0}
  BY <1>1, Sizes
<1>7. \A i \in 1 .. 7 : i = 1 \/ i = 2 \/ i = 3 \/ i = 4 \/ i = 5 \/ i = 6 \/ i = 7
  OBVIOUS
<1>8. \A i \in 1 .. 7 : Unit[i + 1] = Unit[i] * BYTE
  BY <1>2, <1>3, <1>4, <1>7
<1> QED BY <1>1, <1>5, <1>6, <1>8

\* Eight bytes make up a register, and come out of it as they went in.
LEMMA Bytes ==
  ASSUME NEW b \in [1 .. REG_BYTES -> u8]
  PROVE  from_le_bytes(b) \in u64 /\ to_le_bytes(from_le_bytes(b)) = b
<1>r. PICK R \in Nat \ {0} : R = BYTE
  BY Sizes
<1>1. PICK b1 \in 0 .. R - 1, b2 \in 0 .. R - 1, b3 \in 0 .. R - 1, b4 \in 0 .. R - 1,
           b5 \in 0 .. R - 1, b6 \in 0 .. R - 1, b7 \in 0 .. R - 1, b8 \in 0 .. R - 1 :
        /\ b1 = b[1] /\ b2 = b[2] /\ b3 = b[3] /\ b4 = b[4]
        /\ b5 = b[5] /\ b6 = b[6] /\ b7 = b[7] /\ b8 = b[8]
  <2>1. /\ b[1] \in 0 .. R - 1 /\ b[2] \in 0 .. R - 1 /\ b[3] \in 0 .. R - 1
        /\ b[4] \in 0 .. R - 1 /\ b[5] \in 0 .. R - 1 /\ b[6] \in 0 .. R - 1
        /\ b[7] \in 0 .. R - 1 /\ b[8] \in 0 .. R - 1
    BY <1>r DEF REG_BYTES, u8
  <2> QED BY <2>1, Zenon
<1>2. PICK k2 \in Nat \ {0}, k3 \in Nat \ {0}, k4 \in Nat \ {0}, k5 \in Nat \ {0},
           k6 \in Nat \ {0}, k7 \in Nat \ {0}, k8 \in Nat \ {0}, k9 \in Nat \ {0} :
        /\ k2 = Unit[2] /\ k3 = Unit[3] /\ k4 = Unit[4] /\ k5 = Unit[5]
        /\ k6 = Unit[6] /\ k7 = Unit[7] /\ k8 = Unit[8] /\ k9 = U64
  <2>1. /\ Unit[2] \in Nat \ {0} /\ Unit[3] \in Nat \ {0} /\ Unit[4] \in Nat \ {0}
        /\ Unit[5] \in Nat \ {0} /\ Unit[6] \in Nat \ {0} /\ Unit[7] \in Nat \ {0}
        /\ Unit[8] \in Nat \ {0} /\ U64 \in Nat \ {0}
    BY Units, Sizes
  <2> QED BY <2>1, Zenon
<1>k. /\ k2 = 1 * R /\ k3 = k2 * R /\ k4 = k3 * R /\ k5 = k4 * R
      /\ k6 = k5 * R /\ k7 = k6 * R /\ k8 = k7 * R /\ k9 = k8 * R
  <2>1. /\ Unit[2 + 1] = Unit[2] * BYTE /\ Unit[3 + 1] = Unit[3] * BYTE
        /\ Unit[4 + 1] = Unit[4] * BYTE /\ Unit[5 + 1] = Unit[5] * BYTE
        /\ Unit[6 + 1] = Unit[6] * BYTE /\ Unit[7 + 1] = Unit[7] * BYTE
    BY Units
  <2>2. Unit[2] = 1 * BYTE
    BY Units, Sizes
  <2> QED BY <1>r, <1>2, <2>1, <2>2, Units
<1>v. PICK v : v = from_le_bytes(b)
  OBVIOUS
<1>w. v = b1 + b2 * k2 + b3 * k3 + b4 * k4 + b5 * k5 + b6 * k6 + b7 * k7 + b8 * k8
  BY <1>1, <1>2, <1>v DEF from_le_bytes
\* The digits below each one, and those from it on.
<1>3. PICK l3 \in 0 .. k3 - 1 : l3 = b1 + b2 * k2
  BY <1>k, Below
<1>4. PICK l4 \in 0 .. k4 - 1 : l4 = l3 + b3 * k3
  BY <1>k, Below
<1>5. PICK l5 \in 0 .. k5 - 1 : l5 = l4 + b4 * k4
  BY <1>k, Below
<1>6. PICK l6 \in 0 .. k6 - 1 : l6 = l5 + b5 * k5
  BY <1>k, Below
<1>7. PICK l7 \in 0 .. k7 - 1 : l7 = l6 + b6 * k6
  BY <1>k, Below
<1>8. PICK l8 \in 0 .. k8 - 1 : l8 = l7 + b7 * k7
  BY <1>k, Below
<1>9. PICK l9 \in 0 .. k9 - 1 : l9 = l8 + b8 * k8
  BY <1>k, Below
<1>a. /\ b1 \in Nat /\ b2 \in Nat /\ b3 \in Nat /\ b4 \in Nat /\ b5 \in Nat
      /\ b6 \in Nat /\ b7 \in Nat /\ b8 \in Nat
  OBVIOUS
<1>b. k2 \in Nat /\ k3 \in Nat /\ k4 \in Nat /\ k5 \in Nat /\ k6 \in Nat /\ k7 \in Nat
  OBVIOUS
<1>10. PICK s8 \in Nat : s8 = b8 * k8 /\ Multiple(s8, k8)
  BY <1>a DEF Multiple
<1>11. PICK s7 \in Nat : s7 = b7 * k7 + s8 /\ Multiple(s7, k7)
  BY <1>a, <1>b, <1>k, <1>10, Above
<1>12. PICK s6 \in Nat : s6 = b6 * k6 + s7 /\ Multiple(s6, k6)
  BY <1>a, <1>b, <1>k, <1>11, Above
<1>13. PICK s5 \in Nat : s5 = b5 * k5 + s6 /\ Multiple(s5, k5)
  BY <1>a, <1>b, <1>k, <1>12, Above
<1>14. PICK s4 \in Nat : s4 = b4 * k4 + s5 /\ Multiple(s4, k4)
  BY <1>a, <1>b, <1>k, <1>13, Above
<1>15. PICK s3 \in Nat : s3 = b3 * k3 + s4 /\ Multiple(s3, k3)
  BY <1>a, <1>b, <1>k, <1>14, Above
<1>16. PICK s2 \in Nat : s2 = b2 * k2 + s3 /\ Multiple(s2, k2)
  BY <1>a, <1>b, <1>k, <1>15, Above
\* The products are numbers, and the rest is linear.
<1>c. /\ b2 * k2 \in Nat /\ b3 * k3 \in Nat /\ b4 * k4 \in Nat /\ b5 * k5 \in Nat
      /\ b6 * k6 \in Nat /\ b7 * k7 \in Nat /\ b8 * k8 \in Nat
  OBVIOUS
<1>17. /\ v = l9
       /\ v = l8 + b8 * k8 + 0 /\ v = l7 + b7 * k7 + s8 /\ v = l6 + b6 * k6 + s7
       /\ v = l5 + b5 * k5 + s6 /\ v = l4 + b4 * k4 + s5 /\ v = l3 + b3 * k3 + s4
       /\ v = b1 + b2 * k2 + s3 /\ v = 0 + b1 * 1 + s2
  BY <1>3, <1>4, <1>5, <1>6, <1>7, <1>8, <1>9, <1>10, <1>11, <1>12, <1>13, <1>14,
     <1>15, <1>16, <1>c, <1>w
<1>d. ASSUME NEW K \in Nat \ {0}, NEW L, L = K * R, NEW low \in 0 .. K - 1,
             NEW d, NEW s \in Nat, Multiple(s, L), v = low + d * K + s
      PROVE  HasDigit(v, K, R, d)
  BY <1>d, Zenon DEF HasDigit
<1>18. HasDigit(v, k8, R, b8) /\ HasDigit(v, k7, R, b7)
  <2>1. Multiple(0, k9) /\ 0 \in Nat
    BY DEF Multiple
  <2>2. HasDigit(v, k8, R, b8)
    BY <1>17, <1>k, <1>d, <2>1
  <2>3. HasDigit(v, k7, R, b7)
    BY <1>10, <1>17, <1>k, <1>d
  <2> QED BY <2>2, <2>3
<1>19. HasDigit(v, k6, R, b6) /\ HasDigit(v, k5, R, b5)
  <2>1. HasDigit(v, k6, R, b6)
    BY <1>11, <1>17, <1>k, <1>d
  <2>2. HasDigit(v, k5, R, b5)
    BY <1>12, <1>17, <1>k, <1>d
  <2> QED BY <2>1, <2>2
<1>20. HasDigit(v, k4, R, b4) /\ HasDigit(v, k3, R, b3)
  <2>1. HasDigit(v, k4, R, b4)
    BY <1>13, <1>17, <1>k, <1>d
  <2>2. HasDigit(v, k3, R, b3)
    BY <1>14, <1>17, <1>k, <1>d
  <2> QED BY <2>1, <2>2
<1>21. HasDigit(v, k2, R, b2) /\ HasDigit(v, 1, R, b1)
  <2>1. b1 \in 0 .. k2 - 1 /\ 0 \in 0 .. 1 - 1 /\ 1 \in Nat \ {0}
    BY <1>k
  <2>2. HasDigit(v, k2, R, b2)
    BY <1>15, <1>17, <1>k, <1>d, <2>1
  <2>3. HasDigit(v, 1, R, b1)
    BY <1>16, <1>17, <1>k, <1>d, <2>1
  <2> QED BY <2>2, <2>3
<1>22. /\ (v \div 1) % R = b1 /\ (v \div k2) % R = b2 /\ (v \div k3) % R = b3
       /\ (v \div k4) % R = b4 /\ (v \div k5) % R = b5 /\ (v \div k6) % R = b6
       /\ (v \div k7) % R = b7 /\ (v \div k8) % R = b8
  BY <1>18, <1>19, <1>20, <1>21, Digit
<1>23. \A i \in 1 .. 8 : (v \div Unit[i]) % BYTE = b[i]
  <2>1. Unit[1] = 1
    BY Units
  <2>2. /\ (v \div Unit[1]) % BYTE = b[1] /\ (v \div Unit[2]) % BYTE = b[2]
        /\ (v \div Unit[3]) % BYTE = b[3] /\ (v \div Unit[4]) % BYTE = b[4]
        /\ (v \div Unit[5]) % BYTE = b[5] /\ (v \div Unit[6]) % BYTE = b[6]
        /\ (v \div Unit[7]) % BYTE = b[7] /\ (v \div Unit[8]) % BYTE = b[8]
    BY <1>1, <1>2, <1>22, <1>r, <2>1, Zenon
  <2>3. \A i \in 1 .. 8 : i = 1 \/ i = 2 \/ i = 3 \/ i = 4 \/ i = 5 \/ i = 6
                            \/ i = 7 \/ i = 8
    OBVIOUS
  <2> QED BY <2>2, <2>3, Zenon
<1>24. to_le_bytes(v) = b
  BY <1>23 DEF to_le_bytes, REG_BYTES
<1> QED BY <1>2, <1>17, <1>24, <1>v DEF u64

-----------------------------------------------------------------------------
(* Definitions by recursion on the naturals.                               *)

Step(S) == [Nat \X S -> S]
Chain(S, s0, step, n) ==
  {f \in [0 .. n -> S] : /\ f[0] = s0
                         /\ \A i \in 0 .. n - 1 : f[i + 1] = step[<<i, f[i]>>]}

LEMMA ChainExists ==
  ASSUME NEW S, NEW s0 \in S, NEW step \in Step(S)
  PROVE  \A n \in Nat : Chain(S, s0, step, n) # {}
<1> DEFINE T == {n \in Nat : Chain(S, s0, step, n) # {}}
<1>1. 0 \in T
  <2>1. [i \in 0 .. 0 |-> s0] \in Chain(S, s0, step, 0)
    BY DEF Chain
  <2> QED BY <2>1
<1>2. ASSUME NEW n \in Nat, n \in T PROVE n + 1 \in T
  <2>1. PICK f : f \in Chain(S, s0, step, n)
    BY <1>2
  <2> DEFINE g == [i \in 0 .. n + 1 |-> IF i <= n THEN f[i] ELSE step[<<n, f[n]>>]]
  <2>2. f \in [0 .. n -> S] /\ f[0] = s0
    BY <2>1 DEF Chain
  <2>3. step[<<n, f[n]>>] \in S
    BY <2>2 DEF Step
  <2>4. g \in [0 .. n + 1 -> S]
    BY <2>2, <2>3
  <2>5. g[0] = s0
    BY <2>2
  <2>6. ASSUME NEW i \in 0 .. n PROVE g[i + 1] = step[<<i, g[i]>>]
    <3>1. g[i] = f[i]
      OBVIOUS
    <3>2. CASE i = n
      <4>1. g[n + 1] = step[<<n, f[n]>>]
        OBVIOUS
      <4> QED BY <3>1, <3>2, <4>1
    <3>3. CASE i < n
      <4>1. g[i + 1] = f[i + 1]
        BY <3>3
      <4>2. f[i + 1] = step[<<i, f[i]>>]
        BY <2>1, <3>3 DEF Chain
      <4> QED BY <3>1, <4>1, <4>2
    <3> QED BY <3>2, <3>3
  <2> HIDE DEF g
  <2>7. g \in Chain(S, s0, step, n + 1)
    BY <2>4, <2>5, <2>6 DEF Chain
  <2> QED BY <2>7
<1> HIDE DEF T
<1>3. \A n \in Nat : n \in T
  BY <1>1, <1>2, NatSetInduction
<1> QED BY <1>3 DEF T

LEMMA ChainUnique ==
  ASSUME NEW S, NEW s0 \in S, NEW step \in Step(S),
         NEW n \in Nat, NEW m \in Nat, n <= m,
         NEW f \in Chain(S, s0, step, n), NEW g \in Chain(S, s0, step, m)
  PROVE  \A i \in 0 .. n : f[i] = g[i]
<1> DEFINE T == {i \in Nat : i <= n => f[i] = g[i]}
<1>1. 0 \in T
  BY DEF Chain
<1>2. ASSUME NEW i \in Nat, i \in T PROVE i + 1 \in T
  <2>1. SUFFICES ASSUME i + 1 <= n PROVE f[i + 1] = g[i + 1]
    OBVIOUS
  <2>2. i \in 0 .. n - 1 /\ i \in 0 .. m - 1
    BY <2>1
  <2>3. f[i + 1] = step[<<i, f[i]>>] /\ g[i + 1] = step[<<i, g[i]>>]
    BY <2>2 DEF Chain
  <2>4. f[i] = g[i]
    BY <1>2, <2>2
  <2> QED BY <2>3, <2>4
<1> HIDE DEF T
<1>3. \A i \in Nat : i \in T
  BY <1>1, <1>2, NatSetInduction
<1> QED BY <1>3 DEF T

LEMMA NatFunction ==
  ASSUME NEW S, NEW s0 \in S, NEW step \in Step(S)
  PROVE  \E f \in [Nat -> S] :
           f[0] = s0 /\ \A n \in Nat : f[n + 1] = step[<<n, f[n]>>]
<1> DEFINE c(n) == CHOOSE f : f \in Chain(S, s0, step, n)
           F == [n \in Nat |-> c(n)[n]]
<1>1. \A n \in Nat : c(n) \in Chain(S, s0, step, n)
  BY ChainExists
<1> HIDE DEF c
<1>2. F \in [Nat -> S]
  BY <1>1 DEF Chain
<1>3. F[0] = s0
  BY <1>1 DEF Chain
<1>4. ASSUME NEW n \in Nat PROVE F[n + 1] = step[<<n, F[n]>>]
  <2>1. c(n) \in Chain(S, s0, step, n) /\ c(n + 1) \in Chain(S, s0, step, n + 1)
    BY <1>1
  <2>2. c(n)[n] = c(n + 1)[n]
    <3>1. n + 1 \in Nat /\ n <= n + 1 /\ n \in 0 .. n
      OBVIOUS
    <3>2. PICK f \in Chain(S, s0, step, n), g \in Chain(S, s0, step, n + 1) :
            f = c(n) /\ g = c(n + 1)
      BY <2>1
    <3>3. PICK m \in Nat : m = n + 1
      OBVIOUS
    <3>4. \A i \in 0 .. n : f[i] = g[i]
      BY <3>1, <3>3, ChainUnique
    <3> QED BY <3>1, <3>2, <3>4
  <2>3. c(n + 1)[n + 1] = step[<<n, c(n + 1)[n]>>]
    BY <2>1 DEF Chain
  <2> QED BY <2>2, <2>3
<1> HIDE DEF F
<1> QED BY <1>2, <1>3, <1>4

-----------------------------------------------------------------------------
(* Sequences of pieces.                                                    *)

\* What FlattenSeq's recursion builds, piece by piece.
Joined(s, f) ==
  f = [i \in 1 .. Len(s) |-> IF i = 1 THEN s[i] ELSE f[i - 1] \o s[i]]

LEMMA JoinedExists ==
  ASSUME NEW A, NEW s \in Seq(Seq(A)), Len(s) > 0
  PROVE  \E f \in [1 .. Len(s) -> Seq(A)] : Joined(s, f)
<1> DEFINE step == [p \in Nat \X Seq(A) |->
                      IF p[1] + 2 <= Len(s) THEN p[2] \o s[p[1] + 2] ELSE p[2]]
<1>1. step \in Step(Seq(A))
  BY DEF Step
<1>2. s[1] \in Seq(A)
  OBVIOUS
<1>3. \A n \in Nat, a \in Seq(A) : n + 2 <= Len(s) => step[<<n, a>>] = a \o s[n + 2]
  OBVIOUS
<1> HIDE DEF step
<1>4. PICK g \in [Nat -> Seq(A)] :
        g[0] = s[1] /\ \A n \in Nat : g[n + 1] = step[<<n, g[n]>>]
  <2>1. PICK S : S = Seq(A)
    OBVIOUS
  <2>2. PICK s0 \in S, st \in Step(S) : s0 = s[1] /\ st = step
    BY <1>1, <1>2, <2>1, Zenon
  <2>3. \E f \in [Nat -> S] :
          f[0] = s0 /\ \A n \in Nat : f[n + 1] = st[<<n, f[n]>>]
    BY NatFunction
  <2> QED BY <2>1, <2>2, <2>3
<1> DEFINE f == [i \in 1 .. Len(s) |-> g[i - 1]]
<1>5. f \in [1 .. Len(s) -> Seq(A)]
  <2>1. \A i \in 1 .. Len(s) : i - 1 \in Nat
    OBVIOUS
  <2> QED BY <2>1
<1>6. f[1] = s[1]
  BY <1>4
<1>7. ASSUME NEW i \in 2 .. Len(s) PROVE f[i] = f[i - 1] \o s[i]
  <2>1. i - 2 \in Nat /\ (i - 2) + 1 = i - 1 /\ (i - 2) + 2 = i
    OBVIOUS
  <2>2. g[(i - 2) + 1] = step[<<i - 2, g[i - 2]>>]
    BY <1>4, <2>1
  <2>3. step[<<i - 2, g[i - 2]>>] = g[i - 2] \o s[(i - 2) + 2]
    <3>1. g[i - 2] \in Seq(A) /\ (i - 2) + 2 <= Len(s)
      BY <2>1
    <3> QED BY <1>3, <2>1, <3>1
  <2>4. f[i] = g[i - 1] /\ f[i - 1] = g[i - 2]
    OBVIOUS
  <2> QED BY <2>1, <2>2, <2>3, <2>4
<1> HIDE DEF f
<1>8. Joined(s, f)
  <2>1. \A i \in 1 .. Len(s) : f[i] = IF i = 1 THEN s[i] ELSE f[i - 1] \o s[i]
    <3>1. \A i \in 1 .. Len(s) : i = 1 \/ i \in 2 .. Len(s)
      OBVIOUS
    <3>2. \A i \in 2 .. Len(s) : i # 1
      OBVIOUS
    <3> QED BY <1>6, <1>7, <3>1, <3>2, Zenon
  <2> QED BY <1>5, <2>1, Zenon DEF Joined
<1> QED BY <1>5, <1>8

LEMMA JoinedUnique ==
  ASSUME NEW A, NEW s \in Seq(Seq(A)), NEW f, NEW g, Joined(s, f), Joined(s, g)
  PROVE  f = g
<1> DEFINE T == {i \in Nat : i + 1 <= Len(s) => f[i + 1] = g[i + 1]}
<1>1. 0 \in T
  BY DEF Joined
<1>2. ASSUME NEW i \in Nat, i \in T PROVE i + 1 \in T
  <2>1. SUFFICES ASSUME (i + 1) + 1 <= Len(s) PROVE f[(i + 1) + 1] = g[(i + 1) + 1]
    OBVIOUS
  <2>2. (i + 1) + 1 \in 1 .. Len(s) /\ ((i + 1) + 1) - 1 = i + 1 /\ (i + 1) + 1 # 1
    BY <2>1
  <2>3. f[(i + 1) + 1] = f[i + 1] \o s[(i + 1) + 1]
    BY <2>2 DEF Joined
  <2>4. g[(i + 1) + 1] = g[i + 1] \o s[(i + 1) + 1]
    BY <2>2 DEF Joined
  <2>5. i + 1 <= Len(s)
    <3>1. Len(s) \in Nat
      OBVIOUS
    <3> QED BY <2>1, <3>1
  <2>6. f[i + 1] = g[i + 1]
    BY <1>2, <2>5
  <2> QED BY <2>3, <2>4, <2>6
<1> HIDE DEF T
<1>3. \A i \in Nat : i \in T
  BY <1>1, <1>2, NatSetInduction
<1>4. ASSUME NEW i \in 1 .. Len(s) PROVE f[i] = g[i]
  <2>1. i - 1 \in T /\ (i - 1) + 1 = i
    BY <1>3
  <2> QED BY <2>1 DEF T
<1> QED BY <1>4 DEF Joined

LEMMA Flattened ==
  ASSUME NEW A, NEW s \in Seq(Seq(A)), Len(s) > 0, NEW f, Joined(s, f)
  PROVE  FlattenSeq(s) = f[Len(s)]
<1> DEFINE F == CHOOSE g : Joined(s, g)
<1>1. Joined(s, F)
  OBVIOUS
<1>2. F = f
  BY <1>1, JoinedUnique
<1>3. FlattenSeq(s) = F[Len(s)]
  BY DEF FlattenSeq, Joined
<1> QED BY <1>2, <1>3

LEMMA Appending ==
  ASSUME NEW A, NEW a \in Seq(A), NEW b \in Seq(A)
  PROVE  /\ a \o b \in Seq(A) /\ Len(a \o b) = Len(a) + Len(b)
         /\ \A i \in 1 .. Len(a) : (a \o b)[i] = a[i]
         /\ \A i \in 1 .. Len(b) : (a \o b)[Len(a) + i] = b[i]
OBVIOUS

LEMMA Associative ==
  ASSUME NEW A, NEW a \in Seq(A), NEW b \in Seq(A), NEW c \in Seq(A)
  PROVE  (a \o b) \o c = a \o (b \o c)
BY ConcatAssociative

LEMMA Neutral ==
  ASSUME NEW A, NEW a \in Seq(A)
  PROVE  a \o <<>> = a /\ <<>> \o a = a /\ <<>> \in Seq(A)
OBVIOUS

LEMMA FlattenEmpty == FlattenSeq(<<>>) = <<>>
BY DEF FlattenSeq

LEMMA FlattenTyped ==
  ASSUME NEW A, NEW s \in Seq(Seq(A))
  PROVE  FlattenSeq(s) \in Seq(A)
<1>1. CASE Len(s) = 0
  <2>1. s = <<>>
    BY <1>1
  <2> QED BY <2>1, FlattenEmpty, EmptySeq
<1>2. CASE Len(s) > 0
  <2>1. PICK f \in [1 .. Len(s) -> Seq(A)] : Joined(s, f)
    BY <1>2, JoinedExists
  <2>2. FlattenSeq(s) = f[Len(s)]
    BY <1>2, <2>1, Flattened
  <2>3. Len(s) \in 1 .. Len(s)
    BY <1>2
  <2> QED BY <2>2, <2>3
<1>3. Len(s) \in Nat
  OBVIOUS
<1> QED BY <1>1, <1>2, <1>3

\* The first piece comes first.
LEMMA FlattenHead ==
  ASSUME NEW A, NEW s \in Seq(Seq(A)), s # <<>>
  PROVE  FlattenSeq(s) = Head(s) \o FlattenSeq(Tail(s))
<1>1. /\ Len(s) > 0 /\ Len(s) \in Nat /\ Head(s) = s[1] /\ Head(s) \in Seq(A)
      /\ Tail(s) \in Seq(Seq(A)) /\ Len(Tail(s)) = Len(s) - 1
      /\ \A i \in 1 .. Len(s) - 1 : Tail(s)[i] = s[i + 1]
      /\ \A i \in 1 .. Len(s) : s[i] \in Seq(A)
  OBVIOUS
<1>a. \A a, b, c \in Seq(A) : (a \o b) \o c = a \o (b \o c)
  BY Associative
<1>2. PICK f \in [1 .. Len(s) -> Seq(A)] : Joined(s, f)
  BY <1>1, JoinedExists
<1>3. FlattenSeq(s) = f[Len(s)]
  BY <1>1, <1>2, Flattened
<1>4. CASE Len(s) = 1
  <2>1. Tail(s) = <<>>
    <3>1. Len(Tail(s)) = 0
      BY <1>1, <1>4
    <3> QED BY <1>1, <3>1, EmptySeq
  <2>2. f[1] = s[1]
    BY <1>2, <1>4 DEF Joined
  <2>3. Head(s) \o <<>> = Head(s)
    BY <1>1, Neutral
  <2> QED BY <1>1, <1>3, <1>4, <2>1, <2>2, <2>3, FlattenEmpty
<1>5. CASE Len(s) > 1
  <2>0. PICK h, t : h = Head(s) /\ t = Tail(s)
    OBVIOUS
  <2>1. /\ h \in Seq(A) /\ h = s[1]
        /\ t \in Seq(Seq(A)) /\ Len(t) = Len(s) - 1 /\ Len(t) > 0
        /\ \A i \in 1 .. Len(s) - 1 : t[i] = s[i + 1]
    BY <1>1, <1>5, <2>0
  <2>2. PICK g \in [1 .. Len(t) -> Seq(A)] : Joined(t, g)
    BY <2>1, JoinedExists
  <2>3. FlattenSeq(t) = g[Len(t)]
    BY <2>1, <2>2, Flattened
  <2>n. PICK n \in Nat : n = Len(s) /\ n > 1 /\ Len(t) = n - 1
    BY <1>1, <1>5, <2>1
  <2> DEFINE T == {i \in Nat : i + 2 <= n => f[i + 2] = h \o g[i + 1]}
  <2>4. 0 \in T
    <3>1. f[2] = f[1] \o s[2] /\ f[1] = s[1]
      <4>1. 2 \in 1 .. Len(s) /\ 1 \in 1 .. Len(s) /\ 2 # 1 /\ 2 - 1 = 1
        BY <2>n
      <4> QED BY <1>2, <4>1 DEF Joined
    <3>2. g[1] = t[1]
      BY <2>1, <2>2 DEF Joined
    <3>3. t[1] = s[2]
      <4>1. 1 \in 1 .. Len(s) - 1 /\ 1 + 1 = 2
        BY <2>n
      <4> QED BY <2>1, <4>1
    <3>4. f[2] = h \o g[1]
      BY <2>1, <3>1, <3>2, <3>3, Zenon
    <3>5. 0 \in Nat /\ 0 + 2 = 2 /\ 0 + 1 = 1
      OBVIOUS
    <3> QED BY <3>4, <3>5, Zenon
  <2>5. ASSUME NEW i \in Nat, i \in T PROVE i + 1 \in T
    <3>1. SUFFICES ASSUME (i + 1) + 2 <= n
                   PROVE  f[(i + 1) + 2] = h \o g[(i + 1) + 1]
      <4>1. i + 1 \in Nat
        OBVIOUS
      <4> QED BY <4>1, Zenon
    <3>2. PICK k \in Nat : k = i + 2
      OBVIOUS
    <3>3. /\ k + 1 \in 1 .. n /\ k \in 1 .. n - 1 /\ k - 1 \in 1 .. n - 1
          /\ k + 1 # 1 /\ k # 1 /\ (k + 1) - 1 = k
          /\ k - 1 = i + 1 /\ (i + 1) + 2 = k + 1 /\ (i + 1) + 1 = k /\ i + 2 <= n
      BY <3>1, <3>2
    <3>4. f[k + 1] = f[k] \o s[k + 1]
      BY <1>2, <2>n, <3>3 DEF Joined
    <3>5. g[k] = g[k - 1] \o t[k]
      BY <2>2, <2>n, <3>3 DEF Joined
    <3>6. t[k] = s[k + 1] /\ s[k + 1] \in Seq(A) /\ g[k - 1] \in Seq(A)
      BY <1>1, <2>1, <2>2, <2>n, <3>3
    <3>7. f[k] = h \o g[k - 1]
      <4>1. f[i + 2] = h \o g[i + 1]
        BY <2>5, <3>3, Zenon
      <4> QED BY <3>2, <3>3, <4>1, Zenon
    <3>8. (h \o g[k - 1]) \o s[k + 1] = h \o (g[k - 1] \o s[k + 1])
      <4>1. PICK b \in Seq(A), c \in Seq(A) : b = g[k - 1] /\ c = s[k + 1]
        BY <3>6, Zenon
      <4>2. (h \o b) \o c = h \o (b \o c)
        <5>1. h \in Seq(A)
          BY <2>1
        <5> QED BY <1>a, <5>1, Zenon
      <4> QED BY <4>1, <4>2
    <3> QED BY <3>3, <3>4, <3>5, <3>6, <3>7, <3>8, Zenon
  <2> HIDE DEF T
  <2>6. \A i \in Nat : i \in T
    BY <2>4, <2>5, NatSetInduction
  <2>7. n - 2 \in Nat /\ (n - 2) + 2 <= n /\ (n - 2) + 2 = n /\ (n - 2) + 1 = n - 1
    BY <2>n
  <2>8. f[n] = h \o g[n - 1]
    BY <2>6, <2>7, Zenon DEF T
  <2> QED BY <1>3, <2>0, <2>3, <2>8, <2>n
<1> QED BY <1>1, <1>4, <1>5

-----------------------------------------------------------------------------
(* One FFA_CONSOLE_LOG.                                                    *)

\* Byte i of a text of up to L bytes is in register (i - 1) \div 8.
LEMMA Position ==
  ASSUME NEW L \in Nat, NEW i \in 1 .. L
  PROVE  /\ (i - 1) \div 8 \in Nat /\ ((i - 1) % 8) + 1 \in 1 .. 8
         /\ 8 * ((i - 1) \div 8) + (((i - 1) % 8) + 1) = i
         /\ (i - 1) \div 8 + 1 <= (L + 8 - 1) \div 8
OBVIOUS

LEMMA RegistersNeeded ==
  ASSUME NEW L \in 0 .. 128
  PROVE  (L + 8 - 1) \div 8 \in 0 .. 16
OBVIOUS

\* A call takes up to 128 bytes, and shows exactly these.
LEMMA Written ==
  ASSUME NEW b \in Seq(u8), Len(b) \in 0 .. FFA_MAX_CHAR_COUNT
  PROVE  Console_into(b) # TooManySmcParams /\ Shown(Console_into(b)) = b
<1> DEFINE L == Len(b)
           at(i) == IF i <= L THEN b[i] ELSE 0
           regs == (L + 8 - 1) \div 8
           bytes(k) == [i \in 1 .. 8 |-> at(8 * (k - 1) + i)]
           body == [k \in 1 .. regs |-> from_le_bytes(bytes(k))]
           s == <<L>> \o body
           params == Console_into(b)
<1>1. L \in 0 .. 128 /\ regs \in 0 .. 16
  BY RegistersNeeded DEF FFA_MAX_CHAR_COUNT
<1>2. ASSUME NEW k \in 1 .. regs
      PROVE  /\ from_le_bytes(bytes(k)) \in Nat
             /\ to_le_bytes(from_le_bytes(bytes(k))) = bytes(k)
  <2>1. \A i \in 1 .. 8 : at(8 * (k - 1) + i) \in u8
    <3>1. 0 \in u8
      BY Sizes DEF u8
    <3>2. \A i \in 1 .. 8 : 8 * (k - 1) + i \in Nat \ {0}
      BY <1>1
    <3>3. \A n \in Nat \ {0} : n <= L => n \in 1 .. L
      BY <1>1
    <3>4. \A n \in 1 .. L : b[n] \in u8
      BY ElementOfSeq
    <3> QED BY <3>1, <3>2, <3>3, <3>4
  <2>2. bytes(k) \in [1 .. REG_BYTES -> u8]
    BY <2>1 DEF REG_BYTES
  <2>3. PICK c \in [1 .. REG_BYTES -> u8] : c = bytes(k)
    BY <2>2, Zenon
  <2>4. from_le_bytes(c) \in u64 /\ to_le_bytes(from_le_bytes(c)) = c
    BY Bytes
  <2>5. from_le_bytes(c) \in Nat
    BY <2>4, Sizes DEF u64
  <2> QED BY <2>3, <2>4, <2>5, Zenon
<1>3. params = try_from_iter(s)
  BY DEF Console_into, REG_BYTES
<1>4. Len(s) = 1 + regs /\ s[1] = L /\ \A k \in 1 .. regs : s[k + 1] = body[k]
  <2>1. body \in [1 .. regs -> Nat]
    BY <1>2, Zenon
  <2> HIDE DEF body, regs
  <2>2. body \in Seq(Nat) /\ Len(body) = regs
    BY <1>1, <2>1
  <2>3. <<L>> \in Seq(Nat) /\ Len(<<L>>) = 1 /\ <<L>>[1] = L
    BY <1>1
  <2>4. PICK a \in Seq(Nat), c \in Seq(Nat) : a = <<L>> /\ c = body
    BY <2>2, <2>3, Zenon
  <2>5. /\ Len(a \o c) = 1 + regs /\ (a \o c)[1] = L
        /\ \A k \in 1 .. regs : (a \o c)[1 + k] = body[k]
    BY <1>1, <2>2, <2>3, <2>4, Appending
  <2>6. \A k \in 1 .. regs : 1 + k = k + 1
    BY <1>1
  <2> QED BY <2>4, <2>5, <2>6, Zenon
<1>5. /\ params = [i \in 1 .. 17 |-> IF i <= Len(s) THEN s[i] ELSE 0]
      /\ params # <<>>
  <2>1. Len(s) \in Nat /\ Len(s) <= 17
    BY <1>1, <1>4
  <2> HIDE DEF s, params
  <2>2. params = [i \in 1 .. 17 |-> IF i <= Len(s) THEN s[i] ELSE 0]
    BY <1>3, <2>1 DEF try_from_iter, PARAMS
  <2>3. DOMAIN params = 1 .. 17 /\ 1 \in 1 .. 17 /\ DOMAIN <<>> = {}
    BY <2>2
  <2> QED BY <2>2, <2>3
<1>6. params[1] = L /\ \A k \in 1 .. regs : params[k + 1] = from_le_bytes(bytes(k))
  <2> HIDE DEF s, params, regs, L
  <2>1. 1 \in 1 .. 17 /\ 1 <= Len(s)
    BY <1>1, <1>4
  <2>2. params[1] = s[1]
    BY <1>5, <2>1
  <2>3. ASSUME NEW k \in 1 .. regs PROVE params[k + 1] = from_le_bytes(bytes(k))
    <3>1. k + 1 \in 1 .. 17 /\ k + 1 <= Len(s)
      BY <1>1, <1>4
    <3>2. params[k + 1] = s[k + 1]
      BY <1>5, <3>1
    <3>3. body[k] = from_le_bytes(bytes(k))
      BY Zenon
    <3> QED BY <1>4, <3>2, <3>3, Zenon
  <2> QED BY <1>4, <2>2, <2>3, Zenon
<1>7. ASSUME NEW i \in 1 .. L
      PROVE  to_le_bytes(params[2 + (i - 1) \div 8])[((i - 1) % 8) + 1] = b[i]
  <2>1. PICK q \in Nat, r \in 1 .. 8 : /\ q = (i - 1) \div 8 /\ r = ((i - 1) % 8) + 1
                                     /\ 8 * q + r = i /\ q + 1 <= regs
    <3>1. L \in Nat
      BY <1>1
    <3> QED BY <3>1, Position
  <2> HIDE DEF params, regs, L
  <2>2. q + 1 \in 1 .. regs /\ 2 + q = (q + 1) + 1 /\ (q + 1) - 1 = q /\ i <= L
    BY <1>1, <2>1
  <2>3. params[2 + q] = from_le_bytes(bytes(q + 1))
    BY <1>6, <2>2
  <2>4. to_le_bytes(params[2 + q]) = bytes(q + 1)
    BY <1>2, <2>2, <2>3
  <2>5. bytes(q + 1)[r] = at(i)
    BY <2>1, <2>2
  <2> QED BY <2>1, <2>2, <2>4, <2>5
<1>8. Shown(params) = [i \in 1 .. L |-> b[i]]
  BY <1>6, <1>7 DEF Shown, REG_BYTES
<1>9. b = [i \in 1 .. L |-> b[i]]
  BY LenProperties
<1> QED BY <1>5, <1>8, <1>9 DEF TooManySmcParams

\* The beginning of a text.
LEMMA BeginsWith ==
  ASSUME NEW A, NEW p \in Seq(A), NEW q \in Seq(A)
  PROVE  IsPrefix(p, p \o q)
<1>1. /\ p \o q \in Seq(A) /\ Len(p \o q) = Len(p) + Len(q)
      /\ \A i \in 1 .. Len(p) : (p \o q)[i] = p[i]
      /\ Len(p) \in Nat /\ Len(q) \in Nat
  BY Appending
<1>2. PICK t \in Seq(A) : t = p \o q
  BY <1>1, Zenon
<1>3. /\ Len(p) <= Len(t) /\ 1 \in Int /\ Len(p) \in Int
      /\ \A i \in 1 .. Len(p) : i \in 1 .. Len(t) /\ 1 + i - 1 = i
      /\ Len(p) - 1 + 1 = Len(p)
  BY <1>1, <1>2
<1>4. SubSeq(p, 1, Len(p)) = p
  BY SubSeqFull
<1>5. \A i \in 1 .. Len(p) : t[i] \in A
  BY <1>3, ElementOfSeq
<1>6. SubSeq(t, 1, Len(p)) = p
  <2>1. PICK u \in Seq(A) : /\ u = SubSeq(t, 1, Len(p)) /\ Len(u) = Len(p)
                           /\ \A i \in 1 .. Len(p) : u[i] = t[i]
    <3>1. /\ SubSeq(t, 1, Len(p)) \in Seq(A)
          /\ Len(SubSeq(t, 1, Len(p))) = Len(p)
          /\ \A i \in 1 .. Len(p) : SubSeq(t, 1, Len(p))[i] = t[i]
      BY <1>1, <1>3, <1>5
    <3> QED BY <3>1, Zenon
  <2>2. \A i \in 1 .. Len(u) : u[i] = p[i]
    BY <1>1, <1>2, <2>1
  <2>3. u = p
    BY <2>1, <2>2, SeqEqual
  <2> QED BY <2>1, <2>3
<1> QED BY <1>2, <1>3, <1>4, <1>6 DEF IsPrefix

\* Console::new cuts the text in two.
LEMMA Cut ==
  ASSUME NEW b \in Seq(u8), b # <<>>
  PROVE  /\ Console_new(b).bytes \in Seq(u8) /\ Console_new(b).remaining \in Seq(u8)
         /\ Len(Console_new(b).bytes) \in 0 .. FFA_MAX_CHAR_COUNT
         /\ Console_new(b).bytes \o Console_new(b).remaining = b
<1> DEFINE n == MinOf(128, Len(b))
           c == Console_new(b)
<1>1. n \in 0 .. 128 /\ n \in 0 .. Len(b) /\ Len(b) \in Nat
  <2>1. Len(b) \in Nat
    OBVIOUS
  <2>2. n = IF 128 < Len(b) THEN 128 ELSE Len(b)
    BY DEF MinOf
  <2> HIDE DEF n
  <2>3. PICK l \in Nat : l = Len(b)
    BY <2>1
  <2>4. n \in 0 .. 128 /\ n \in 0 .. l
    <3>1. CASE 128 < l
      <4>1. n = 128
        BY <2>2, <2>3, <3>1
      <4> QED BY <3>1, <4>1
    <3>2. CASE ~ (128 < l)
      <4>1. n = l
        BY <2>2, <2>3, <3>2
      <4> QED BY <3>2, <4>1
    <3> QED BY <3>1, <3>2
  <2> QED BY <2>1, <2>3, <2>4
<1>2. c.bytes = SubSeq(b, 1, n) /\ c.remaining = SubSeq(b, n + 1, Len(b))
  BY DEF Console_new, FFA_MAX_CHAR_COUNT
<1> HIDE DEF n, c
<1>3. SubSeq(b, 1, n) \in Seq(u8) /\ Len(SubSeq(b, 1, n)) = n
  BY <1>1
<1>4. SubSeq(b, n + 1, Len(b)) \in Seq(u8)
  BY <1>1
<1>5. SubSeq(b, 1, n) \o SubSeq(b, n + 1, Len(b)) = b
  <2>1. /\ 1 \in 1 .. Len(b) + 1 /\ n \in 1 - 1 .. Len(b) /\ Len(b) \in n .. Len(b)
    BY <1>1
  <2>2. SubSeq(b, 1, n) \o SubSeq(b, n + 1, Len(b)) = SubSeq(b, 1, Len(b))
    BY <2>1, ConcatAdjacentSubSeq
  <2> QED BY <2>2, SubSeqFull
<1>6. /\ c.bytes \in Seq(u8) /\ c.remaining \in Seq(u8)
      /\ Len(c.bytes) \in 0 .. FFA_MAX_CHAR_COUNT
      /\ c.bytes \o c.remaining = b
  BY <1>1, <1>2, <1>3, <1>4, <1>5 DEF FFA_MAX_CHAR_COUNT
<1> QED BY <1>6 DEF c

-----------------------------------------------------------------------------
(* The logger.                                                             *)

\* What has been printed and what is left make up the record, until a second
\* panic drops the rest.
Accounted == pc # "wfe" => printed \o FlattenSeq(todo) = text

\* The panic handler runs when it has been entered once and has not stopped.
Panicking ==
  /\ pc = "idle" => ~PANIC_IN_PROGRESS
  /\ ~PANIC_IN_PROGRESS => panics = 0
  /\ pc = "write" /\ PANIC_IN_PROGRESS => panics = 1

ConsoleInv ==
  /\ ConsoleTypeOK
  /\ Accounted
  /\ Panicking
  /\ pc = "idle" => todo = <<>>
  /\ IsPrefix(printed, text)
  /\ panics <= refused

LEMMA Newline ==
  ASSUME NEW r \in Record \cup {PanicRecord}
  PROVE  println(r) \in Seq(Seq(u8))
<1>1. <<NEWLINE>> \in Seq(u8)
  <2>1. NEWLINE \in u8
    BY Sizes, DivModTyped DEF NEWLINE, u8
  <2> QED BY <2>1
<1>2. r \in Seq(Seq(u8))
  BY RecordAssumption
<1> QED BY <1>1, <1>2 DEF println

LEMMA Started ==
  ASSUME NEW r \in Record \cup {PanicRecord}, Start(r)
  PROVE  /\ pc' = "write"
         /\ todo' \in Seq(Seq(u8)) /\ text' \in Seq(u8) /\ printed' \in Seq(u8)
         /\ Accounted' /\ IsPrefix(printed, text)'
<1>1. PICK s \in Seq(Seq(u8)) : s = println(r)
  BY Newline
<1>2. pc' = "write" /\ todo' = s /\ text' = FlattenSeq(s) /\ printed' = <<>>
  BY <1>1 DEF Start
<1>3. PICK t \in Seq(u8) : t = FlattenSeq(s)
  BY FlattenTyped
<1>4. <<>> \o t = t /\ <<>> \in Seq(u8)
  BY Neutral
<1>5. IsPrefix(<<>>, t)
  BY <1>4, BeginsWith
<1> QED BY <1>2, <1>3, <1>4, <1>5 DEF Accounted

LEMMA ConsoleInit == Init => ConsoleInv
<1> SUFFICES ASSUME Init PROVE ConsoleInv
  OBVIOUS
<1>1. <<>> \o <<>> = <<>> /\ <<>> \in Seq(u8) /\ <<>> \in Seq(Seq(u8))
  BY Neutral, EmptySeq
<1>2. IsPrefix(<<>>, <<>>)
  BY <1>1, BeginsWith
<1>3. ConsoleTypeOK
  <2>1. /\ pc = "idle" /\ todo = <<>> /\ text = <<>> /\ printed = <<>>
        /\ PANIC_IN_PROGRESS = FALSE /\ panics = 0 /\ refused = 0
    BY DEF Init
  <2>2. todo \in Seq(Seq(u8)) /\ text \in Seq(u8) /\ printed \in Seq(u8)
    BY <1>1, <2>1, Zenon
  <2>3. panics \in 0 .. 2 /\ refused \in Nat
    BY <2>1
  <2>4. PANIC_IN_PROGRESS \in BOOLEAN /\ pc \in {"idle", "write", "wfe"}
    BY <2>1, Zenon
  <2> QED BY <2>2, <2>3, <2>4, Zenon DEF ConsoleTypeOK
<1>4. Accounted /\ IsPrefix(printed, text)
  <2>1. todo = <<>> /\ text = <<>> /\ printed = <<>>
    BY DEF Init
  <2>2. printed \o FlattenSeq(todo) = text
    BY <1>1, <2>1, FlattenEmpty, Zenon
  <2> QED BY <1>2, <2>1, <2>2, Zenon DEF Accounted
<1> QED BY <1>3, <1>4 DEF Init, ConsoleInv, Panicking

LEMMA ConsoleStutters ==
  ASSUME ConsoleInv, UNCHANGED vars
  PROVE  ConsoleInv'
BY DEF vars, ConsoleInv, ConsoleTypeOK, Accounted, Panicking

LEMMA ConsoleLog ==
  ASSUME ConsoleInv, NEW r \in Record, log(r)
  PROVE  ConsoleInv'
<1>1. Start(r) /\ pc = "idle" /\ UNCHANGED <<PANIC_IN_PROGRESS, panics, refused>>
  BY DEF log
<1>2. /\ pc' = "write"
      /\ todo' \in Seq(Seq(u8)) /\ text' \in Seq(u8) /\ printed' \in Seq(u8)
      /\ Accounted' /\ IsPrefix(printed, text)'
  BY <1>1, Started
<1>3. ConsoleTypeOK'
  BY <1>1, <1>2 DEF ConsoleInv, ConsoleTypeOK
<1>4. Panicking'
  BY <1>1, <1>2 DEF ConsoleInv, Panicking
<1> QED BY <1>1, <1>2, <1>3, <1>4 DEF ConsoleInv

LEMMA ConsoleReturn ==
  ASSUME ConsoleInv, return
  PROVE  ConsoleInv'
BY DEF return, ConsoleInv, ConsoleTypeOK, Accounted, Panicking

LEMMA ConsolePiece ==
  ASSUME ConsoleInv, next_piece
  PROVE  ConsoleInv'
<1>1. /\ pc = "write" /\ todo # <<>> /\ Head(todo) = <<>> /\ todo' = Tail(todo)
      /\ UNCHANGED <<pc, text, printed, PANIC_IN_PROGRESS, panics, refused>>
  BY DEF next_piece
<1>2. todo \in Seq(Seq(u8))
  BY DEF ConsoleInv, ConsoleTypeOK
<1>3. todo' \in Seq(Seq(u8))
  BY <1>1, <1>2
<1>4. FlattenSeq(todo) = Head(todo) \o FlattenSeq(Tail(todo))
  BY <1>1, <1>2, FlattenHead
<1>5. PICK t \in Seq(u8) : t = FlattenSeq(todo')
  BY <1>3, FlattenTyped
<1>6. <<>> \o t = t
  BY Neutral
<1>7. FlattenSeq(todo') = FlattenSeq(todo)
  BY <1>1, <1>4, <1>5, <1>6
<1>8. Accounted'
  BY <1>1, <1>7 DEF ConsoleInv, Accounted
<1>9. ConsoleTypeOK' /\ Panicking'
  BY <1>1, <1>3 DEF ConsoleInv, ConsoleTypeOK, Panicking
<1> QED BY <1>1, <1>8, <1>9 DEF ConsoleInv

LEMMA ConsoleWrite ==
  ASSUME ConsoleInv, NEW answer \in ConsoleAnswer, write_str(answer)
  PROVE  ConsoleInv'
<1> DEFINE piece == Head(todo)
           console == Console_new(piece)
           params == Console_into(console.bytes)
           Smc == params # TooManySmcParams
           Ok == Smc /\ handle_result_simple(answer) = "Ok"
<1>1. /\ pc = "write" /\ todo # <<>> /\ piece # <<>>
      /\ \/ /\ Ok
            /\ printed' = printed \o Shown(params)
            /\ todo' = <<console.remaining>> \o Tail(todo)
            /\ UNCHANGED <<pc, text, PANIC_IN_PROGRESS, panics, refused>>
         \/ /\ ~Ok
            /\ refused' = IF Smc THEN refused + 1 ELSE refused
            /\ panic
  BY DEF write_str
<1>2. /\ todo \in Seq(Seq(u8)) /\ text \in Seq(u8) /\ printed \in Seq(u8)
      /\ panics \in 0 .. 2 /\ refused \in Nat /\ panics <= refused
      /\ PANIC_IN_PROGRESS \in BOOLEAN /\ Panicking
      /\ printed \o FlattenSeq(todo) = text
  BY <1>1 DEF ConsoleInv, ConsoleTypeOK, Accounted
<1>3. piece \in Seq(u8) /\ Tail(todo) \in Seq(Seq(u8))
  BY <1>1, <1>2
<1>4. /\ console.bytes \in Seq(u8) /\ console.remaining \in Seq(u8)
      /\ Len(console.bytes) \in 0 .. FFA_MAX_CHAR_COUNT
      /\ console.bytes \o console.remaining = piece
  BY <1>1, <1>3, Cut
<1>a. \A s, t, u \in Seq(u8) : (s \o t) \o u = s \o (t \o u)
  BY Associative
<1>5. Smc /\ Shown(params) = console.bytes
  BY <1>4, Written
<1> HIDE DEF console, params, Smc, Ok
<1>6. CASE Ok
  <2>1. /\ printed' = printed \o console.bytes
        /\ todo' = <<console.remaining>> \o Tail(todo)
        /\ UNCHANGED <<pc, text, PANIC_IN_PROGRESS, panics, refused>>
    BY <1>1, <1>5, <1>6
  <2>2. PICK b \in Seq(u8), c \in Seq(u8), rest \in Seq(Seq(u8)) :
          b = console.bytes /\ c = console.remaining /\ rest = Tail(todo)
    BY <1>3, <1>4, Zenon
  <2>3. todo' = <<c>> \o rest
    BY <2>1, <2>2
  <2>4. todo' \in Seq(Seq(u8)) /\ todo' # <<>> /\ Head(todo') = c /\ Tail(todo') = rest
    <3>1. PICK s : s = <<c>> \o rest
      OBVIOUS
    <3>2. s \in Seq(Seq(u8)) /\ s # <<>> /\ Head(s) = c /\ Tail(s) = rest
      BY <3>1
    <3> QED BY <2>3, <3>1, <3>2
  <2>5. PICK d \in Seq(u8) : d = FlattenSeq(rest)
    BY FlattenTyped
  <2>6. FlattenSeq(todo') = c \o d
    <3>1. PICK s \in Seq(Seq(u8)) : s = todo'
      BY <2>4, Zenon
    <3>2. FlattenSeq(s) = Head(s) \o FlattenSeq(Tail(s))
      BY <2>4, <3>1, FlattenHead
    <3> QED BY <2>4, <2>5, <3>1, <3>2, Zenon
  <2>7. FlattenSeq(todo) = (b \o c) \o d
    <3>1. FlattenSeq(todo) = Head(todo) \o FlattenSeq(Tail(todo))
      BY <1>1, <1>2, FlattenHead
    <3>2. b \o c = Head(todo)
      BY <1>4, <2>2, Zenon
    <3> QED BY <2>2, <2>5, <3>1, <3>2, Zenon
  <2>8. PICK p \in Seq(u8) : p = printed
    BY <1>2, Zenon
  <2>9. /\ p \o b \in Seq(u8) /\ c \o d \in Seq(u8)
        /\ (p \o b) \o (c \o d) = p \o ((b \o c) \o d)
    <3>1. p \o b \in Seq(u8)
      BY Appending
    <3>2. PICK e \in Seq(u8) : e = c \o d
      BY Appending
    <3>3. (p \o b) \o e = p \o (b \o e)
      BY <1>a, Zenon
    <3>4. (b \o c) \o d = b \o (c \o d)
      BY <1>a, Zenon
    <3> QED BY <3>1, <3>2, <3>3, <3>4, Zenon
  <2>10. printed' = p \o b
    BY <2>1, <2>2, <2>8, Zenon
  <2>11. printed' \o FlattenSeq(todo') = text'
    <3>1. text' = text
      BY <2>1
    <3>2. text = p \o ((b \o c) \o d)
      BY <1>2, <2>7, <2>8, Zenon
    <3> QED BY <2>6, <2>9, <2>10, <3>1, <3>2, Zenon
  <2>12. IsPrefix(printed, text)'
    <3>1. PICK u \in Seq(u8), v \in Seq(u8) : u = p \o b /\ v = c \o d
      BY <2>9, Zenon
    <3>2. IsPrefix(u, u \o v)
      BY BeginsWith
    <3>3. u \o v = text' /\ u = printed'
      BY <2>6, <2>10, <2>11, <3>1, Zenon
    <3>4. IsPrefix(printed', text')
      BY <3>2, <3>3, Zenon
    <3> QED BY <3>4
  <2>13. ConsoleTypeOK'
    <3>1. printed' \in Seq(u8) /\ text' \in Seq(u8)
      BY <1>2, <2>1, <2>9, <2>10
    <3> QED BY <1>1, <2>1, <2>4, <3>1 DEF ConsoleInv, ConsoleTypeOK
  <2>14. Accounted' /\ Panicking'
    <3>1. Accounted'
      BY <2>11, Zenon DEF Accounted
    <3>2. Panicking'
      BY <1>2, <2>1, Zenon DEF Panicking
    <3> QED BY <3>1, <3>2
  <2> QED BY <1>1, <1>2, <2>1, <2>12, <2>13, <2>14 DEF ConsoleInv
<1>7. CASE ~Ok
  <2>1. refused' = refused + 1 /\ panic
    BY <1>1, <1>5, <1>7
  <2>2. CASE ~PANIC_IN_PROGRESS
    <3>1. PANIC_IN_PROGRESS' = TRUE /\ Start(PanicRecord) /\ panics' = panics + 1
      BY <2>1, <2>2 DEF panic
    <3>2. panics = 0
      BY <1>2, <2>2 DEF Panicking
    <3>3. /\ pc' = "write"
          /\ todo' \in Seq(Seq(u8)) /\ text' \in Seq(u8) /\ printed' \in Seq(u8)
          /\ Accounted' /\ IsPrefix(printed, text)'
      BY <3>1, Started
    <3>4. panics' \in 0 .. 2 /\ refused' \in Nat /\ panics' <= refused' /\ panics' = 1
      BY <1>2, <2>1, <3>1, <3>2
    <3>5. ConsoleTypeOK'
      BY <3>1, <3>3, <3>4 DEF ConsoleTypeOK
    <3>6. Panicking'
      BY <3>1, <3>3, <3>4 DEF Panicking
    <3> QED BY <3>3, <3>4, <3>5, <3>6 DEF ConsoleInv
  <2>3. CASE PANIC_IN_PROGRESS
    <3>1. /\ pc' = "wfe" /\ panics' = panics + 1
          /\ UNCHANGED <<PANIC_IN_PROGRESS, todo, text, printed>>
      BY <2>1, <2>3 DEF panic
    <3>2. panics = 1
      BY <1>1, <1>2, <2>3 DEF Panicking
    <3>3. panics' \in 0 .. 2 /\ refused' \in Nat /\ panics' <= refused'
      BY <1>2, <2>1, <3>1, <3>2
    <3>4. ConsoleTypeOK'
      BY <1>2, <3>1, <3>3 DEF ConsoleTypeOK
    <3>5. Panicking' /\ Accounted'
      BY <2>3, <3>1 DEF Panicking, Accounted
    <3> QED BY <3>1, <3>3, <3>4, <3>5 DEF ConsoleInv
  <2> QED BY <1>2, <2>2, <2>3, Zenon
<1> QED BY <1>6, <1>7

LEMMA ConsoleNext ==
  ASSUME ConsoleInv, [BoundaryNext]_all
  PROVE  ConsoleInv'
<1>1. ASSUME UNCHANGED vars PROVE ConsoleInv'
  BY <1>1, ConsoleStutters
<1>2. CASE UNCHANGED all
  BY <1>1, <1>2 DEF all
<1>3. CASE BoundaryNext
  <2>1. Next \/ UNCHANGED vars
    BY <1>3 DEF BoundaryNext
  <2>2. CASE Next
    BY <1>1, <2>2, ConsoleLog, ConsoleWrite, ConsolePiece, ConsoleReturn
       DEF Next, write, wfe
  <2> QED BY <1>1, <2>1, <2>2
<1> QED BY <1>2, <1>3

\* Whatever the text and however long, split into pieces, calls of 128 bytes
\* and registers of eight, is printed in order, and all of it when the logger
\* returns; the panic handler runs only after a refused call.
THEOREM PrintedHolds == BoundarySpec => []PrintedInOrder
<1>1. BoundaryInit => ConsoleInv
  BY ConsoleInit DEF BoundaryInit
<1>2. ConsoleInv /\ [BoundaryNext]_all => ConsoleInv'
  BY ConsoleNext
<1>3. ConsoleInv => PrintedInOrder
  <2> SUFFICES ASSUME ConsoleInv PROVE PrintedInOrder
    OBVIOUS
  <2>1. ASSUME pc = "idle" PROVE printed = text
    <3>1. printed \o FlattenSeq(todo) = text /\ todo = <<>>
      BY <2>1 DEF ConsoleInv, Accounted
    <3>2. PICK p \in Seq(u8) : p = printed
      BY DEF ConsoleInv, ConsoleTypeOK
    <3>3. p \o <<>> = p
      BY Neutral
    <3> QED BY <3>1, <3>2, <3>3, FlattenEmpty, Zenon
  <2> QED BY <2>1 DEF ConsoleInv, PrintedInOrder
<1> QED BY <1>1, <1>2, <1>3, PTL DEF BoundarySpec

-----------------------------------------------------------------------------
(* The bitwise or.                                                         *)

\* What Or returns when f is taken for Or itself.
OrOf(f, v, w) ==
  IF v = 0 /\ w = 0 THEN 0
  ELSE 2 * f[<<v \div 2, w \div 2>>] + (IF (v % 2) + (w % 2) > 0 THEN 1 ELSE 0)

Words == [Nat \X Nat -> Nat]

LEMMA OrOfTyped ==
  ASSUME NEW f \in Words, NEW v \in Nat, NEW w \in Nat
  PROVE  OrOf(f, v, w) \in Nat
<1>1. v \div 2 \in Nat /\ w \div 2 \in Nat
  OBVIOUS
<1>2. f[<<v \div 2, w \div 2>>] \in Nat
  BY <1>1 DEF Words
<1> QED BY <1>2 DEF OrOf

LEMMA Halving ==
  ASSUME NEW v \in Nat, NEW w \in Nat, ~ (v = 0 /\ w = 0)
  PROVE  /\ v \div 2 \in Nat /\ w \div 2 \in Nat
         /\ v \div 2 + w \div 2 + 1 <= v + w
OBVIOUS

LEMMA OrExists == \E f \in Words : \A v, w \in Nat : f[<<v, w>>] = OrOf(f, v, w)
<1> DEFINE zero == [p \in Nat \X Nat |-> 0]
           step == [p \in Nat \X Words |->
                      [q \in Nat \X Nat |-> OrOf(p[2], q[1], q[2])]]
<1>1. zero \in Words
  BY DEF Words
<1>2. step \in Step(Words)
  <2>1. ASSUME NEW f \in Words
        PROVE  [q \in Nat \X Nat |-> OrOf(f, q[1], q[2])] \in Words
    BY OrOfTyped DEF Words
  <2> QED BY <2>1 DEF Step
<1>3. ASSUME NEW n \in Nat, NEW f \in Words, NEW v \in Nat, NEW w \in Nat
      PROVE  step[<<n, f>>][<<v, w>>] = OrOf(f, v, w)
  OBVIOUS
<1>4. PICK G \in [Nat -> Words] :
        G[0] = zero /\ \A n \in Nat : G[n + 1] = step[<<n, G[n]>>]
  <2> HIDE DEF zero, step
  <2>1. PICK z \in Words, st \in Step(Words) : z = zero /\ st = step
    BY <1>1, <1>2, Zenon
  <2>2. \E f \in [Nat -> Words] :
          f[0] = z /\ \A n \in Nat : f[n + 1] = st[<<n, f[n]>>]
    BY NatFunction
  <2> QED BY <2>1, <2>2
<1>5. \A v, w \in Nat : G[0][<<v, w>>] = 0
  BY <1>4
<1>6. \A n, v, w \in Nat : G[n + 1][<<v, w>>] = OrOf(G[n], v, w)
  <2> TAKE n, v, w \in Nat
  <2>1. G[n] \in Words /\ G[n + 1] = step[<<n, G[n]>>]
    BY <1>4
  <2> HIDE DEF step
  <2> QED BY <1>3, <2>1
<1> HIDE DEF zero, step
\* n rounds are enough for words whose sum is n.
<1> DEFINE T == {n \in Nat : \A v, w \in Nat :
                    v + w <= n => G[n + 1][<<v, w>>] = G[n][<<v, w>>]}
<1>7. 0 \in T
  <2>1. ASSUME NEW v \in Nat, NEW w \in Nat, v + w <= 0
        PROVE  G[0 + 1][<<v, w>>] = G[0][<<v, w>>]
    <3>1. v = 0 /\ w = 0
      BY <2>1
    <3> QED BY <1>5, <1>6, <3>1 DEF OrOf
  <2> QED BY <2>1
<1>8. ASSUME NEW n \in Nat, n \in T PROVE n + 1 \in T
  <2>1. ASSUME NEW v \in Nat, NEW w \in Nat, v + w <= n + 1
        PROVE  G[(n + 1) + 1][<<v, w>>] = G[n + 1][<<v, w>>]
    <3>1. G[(n + 1) + 1][<<v, w>>] = OrOf(G[n + 1], v, w) /\ G[n + 1][<<v, w>>] = OrOf(G[n], v, w)
      BY <1>6
    <3>2. CASE v = 0 /\ w = 0
      BY <3>1, <3>2 DEF OrOf
    <3>3. CASE ~ (v = 0 /\ w = 0)
      <4>1. v \div 2 \in Nat /\ w \div 2 \in Nat /\ v \div 2 + w \div 2 <= n
        BY <2>1, <3>3, Halving
      <4>2. G[n + 1][<<v \div 2, w \div 2>>] = G[n][<<v \div 2, w \div 2>>]
        BY <1>8, <4>1
      <4> QED BY <3>1, <3>3, <4>2 DEF OrOf
    <3> QED BY <3>2, <3>3
  <2>2. n + 1 \in Nat
    OBVIOUS
  <2> QED BY <2>1, <2>2
<1> HIDE DEF T
<1>9. \A n \in Nat : n \in T
  BY <1>7, <1>8, NatSetInduction
<1> DEFINE W == {m \in Nat : \A v, w \in Nat :
                    G[v + w + m][<<v, w>>] = G[v + w][<<v, w>>]}
<1>10. 0 \in W
  OBVIOUS
<1>11. ASSUME NEW m \in Nat, m \in W PROVE m + 1 \in W
  <2>1. ASSUME NEW v \in Nat, NEW w \in Nat
        PROVE  G[v + w + (m + 1)][<<v, w>>] = G[v + w][<<v, w>>]
    <3>1. PICK n \in Nat : n = v + w + m
      OBVIOUS
    <3>2. v + w <= n /\ v + w + (m + 1) = n + 1
      BY <3>1
    <3>3. G[n + 1][<<v, w>>] = G[n][<<v, w>>]
      BY <1>9, <3>2 DEF T
    <3>4. G[n][<<v, w>>] = G[v + w][<<v, w>>]
      BY <1>11, <3>1
    <3> QED BY <3>2, <3>3, <3>4
  <2>2. m + 1 \in Nat
    OBVIOUS
  <2> QED BY <2>1, <2>2
<1> HIDE DEF W
<1>12. \A m \in Nat : m \in W
  BY <1>10, <1>11, NatSetInduction
<1>13. ASSUME NEW v \in Nat, NEW w \in Nat, NEW m \in Nat, v + w <= m
       PROVE  G[m][<<v, w>>] = G[v + w][<<v, w>>]
  <2>1. PICK k \in Nat : m = v + w + k
    <3>1. m - (v + w) \in Nat /\ m = v + w + (m - (v + w))
      BY <1>13
    <3> QED BY <3>1
  <2> QED BY <1>12, <2>1 DEF W
<1> DEFINE F == [q \in Nat \X Nat |-> G[q[1] + q[2]][q]]
<1>14. F \in Words
  BY <1>4 DEF Words
<1>15. \A v, w \in Nat : F[<<v, w>>] = G[v + w][<<v, w>>]
  OBVIOUS
<1>16. ASSUME NEW v \in Nat, NEW w \in Nat PROVE F[<<v, w>>] = OrOf(F, v, w)
  <2> HIDE DEF F
  <2>1. F[<<v, w>>] = OrOf(G[v + w], v, w)
    <3>1. v + w \in Nat /\ (v + w) + 1 \in Nat /\ v + w <= (v + w) + 1
      OBVIOUS
    <3>2. G[(v + w) + 1][<<v, w>>] = G[v + w][<<v, w>>]
      BY <1>13, <3>1
    <3> QED BY <1>6, <1>15, <3>1, <3>2
  <2>2. CASE v = 0 /\ w = 0
    BY <2>1, <2>2 DEF OrOf
  <2>3. CASE ~ (v = 0 /\ w = 0)
    <3>1. v \div 2 \in Nat /\ w \div 2 \in Nat /\ v \div 2 + w \div 2 <= v + w /\ v + w \in Nat
      BY <2>3, Halving
    <3>2. G[v + w][<<v \div 2, w \div 2>>] = F[<<v \div 2, w \div 2>>]
      BY <1>13, <1>15, <3>1
    <3> QED BY <2>1, <2>3, <3>2 DEF OrOf
  <2> QED BY <2>2, <2>3
<1> HIDE DEF F
<1> QED BY <1>14, <1>16

LEMMA OrEquation == \A v, w \in Nat : Or[<<v, w>>] = OrOf(Or, v, w)
<1>1. PICK f \in Words : \A v, w \in Nat : f[<<v, w>>] = OrOf(f, v, w)
  BY OrExists
<1>2. f = [p \in Nat \X Nat |-> OrOf(f, p[1], p[2])]
  BY <1>1 DEF Words
<1>3. Or = CHOOSE g : g = [p \in Nat \X Nat |-> OrOf(g, p[1], p[2])]
  BY DEF Or, OrOf
<1>4. Or = [p \in Nat \X Nat |-> OrOf(Or, p[1], p[2])]
  BY <1>2, <1>3, Zenon
<1> QED BY <1>4

LEMMA OrZero == \A h \in Nat : Or[<<h, 0>>] = h
<1> DEFINE T == {n \in Nat : \A h \in Nat : h <= n => Or[<<h, 0>>] = h}
<1>1. 0 \in T
  <2>1. Or[<<0, 0>>] = 0
    BY OrEquation DEF OrOf
  <2> QED BY <2>1
<1>2. ASSUME NEW n \in Nat, n \in T PROVE n + 1 \in T
  <2>1. ASSUME NEW h \in Nat, h <= n + 1 PROVE Or[<<h, 0>>] = h
    <3>1. Or[<<h, 0>>] = OrOf(Or, h, 0) /\ 0 \div 2 = 0 /\ 0 % 2 = 0
      BY OrEquation
    <3>2. CASE h = 0
      BY <3>1, <3>2 DEF OrOf
    <3>3. CASE h # 0
      <4>1. h \div 2 \in Nat /\ h \div 2 <= n /\ h % 2 \in 0 .. 1
            /\ h = 2 * (h \div 2) + (h % 2)
        BY <2>1, <3>3
      <4>2. Or[<<h \div 2, 0>>] = h \div 2
        BY <1>2, <4>1
      <4>3. OrOf(Or, h, 0) = 2 * (h \div 2) + (IF (h % 2) + 0 > 0 THEN 1 ELSE 0)
        BY <3>1, <3>3, <4>2 DEF OrOf
      <4>4. (IF (h % 2) + 0 > 0 THEN 1 ELSE 0) = h % 2
        BY <4>1
      <4> QED BY <3>1, <4>1, <4>3, <4>4
    <3> QED BY <3>2, <3>3
  <2>2. n + 1 \in Nat
    OBVIOUS
  <2> QED BY <2>1, <2>2
<1> HIDE DEF T
<1>3. \A n \in Nat : n \in T
  BY <1>1, <1>2, NatSetInduction
<1>4. \A h \in Nat : h <= h
  OBVIOUS
<1> QED BY <1>3, <1>4, Zenon DEF T

\* Numbers that separate the bits of their multiples from those of less.
Separators == {p \in Nat \ {0} : \A h, l \in Nat : l < p => Or[<<h * p, l>>] = h * p + l}

LEMMA Doubled ==
  ASSUME NEW p \in Separators
  PROVE  p * 2 \in Separators
<1>1. p \in Nat \ {0} /\ \A h, l \in Nat : l < p => Or[<<h * p, l>>] = h * p + l
  BY DEF Separators
<1>2. ASSUME NEW h \in Nat, NEW l \in Nat, l < p * 2
      PROVE  Or[<<h * (p * 2), l>>] = h * (p * 2) + l
  <2>1. PICK w \in Nat : w = h * p
    BY <1>1
  <2>2. h * (p * 2) = 2 * w
    BY <1>1, <2>1
  <2>3. /\ (2 * w) \div 2 = w /\ (2 * w) % 2 = 0 /\ 2 * w \in Nat
        /\ l \div 2 \in Nat /\ l \div 2 < p /\ l % 2 \in 0 .. 1 /\ l = 2 * (l \div 2) + (l % 2)
    BY <1>1, <1>2
  <2>4. Or[<<w, l \div 2>>] = w + l \div 2
    BY <1>1, <2>1, <2>3
  <2>5. Or[<<2 * w, l>>] = OrOf(Or, 2 * w, l)
    BY <2>3, OrEquation
  <2>6. CASE 2 * w = 0 /\ l = 0
    BY <2>2, <2>5, <2>6 DEF OrOf
  <2>7. CASE ~ (2 * w = 0 /\ l = 0)
    <3>1. OrOf(Or, 2 * w, l) = 2 * (w + l \div 2) + (IF 0 + (l % 2) > 0 THEN 1 ELSE 0)
      BY <2>3, <2>4, <2>7 DEF OrOf
    <3>2. (IF 0 + (l % 2) > 0 THEN 1 ELSE 0) = l % 2
      BY <2>3
    <3> QED BY <2>2, <2>3, <2>5, <3>1, <3>2
  <2> QED BY <2>6, <2>7
<1>3. p * 2 \in Nat \ {0}
  BY <1>1
<1> QED BY <1>2, <1>3 DEF Separators

\* Numbers that make separators of separators: the divisors of BYTE.
Scales == {q \in Nat \ {0} : \A p \in Separators : p * q \in Separators}

LEMMA DivisorScales ==
  \A d \in 1 .. BYTE : BYTE % d = 0 => d \in Scales
<1> DEFINE T == {n \in Nat : \A d \in 1 .. BYTE : d <= n + 1 /\ BYTE % d = 0 => d \in Scales}
<1>1. 1 \in Scales
  <2>1. \A p \in Separators : p * 1 = p
    BY DEF Separators
  <2> QED BY <2>1 DEF Scales
<1>2. 0 \in T
  <2>1. \A d \in 1 .. BYTE : d <= 0 + 1 => d = 1
    BY Sizes
  <2> QED BY <1>1, <2>1
<1>3. ASSUME NEW n \in Nat, n \in T PROVE n + 1 \in T
  <2>1. ASSUME NEW d \in 1 .. BYTE, d <= (n + 1) + 1, BYTE % d = 0 PROVE d \in Scales
    <3>1. CASE d = 1
      BY <1>1, <3>1
    <3>2. CASE d # 1
      <4>1. d \in 2 .. BYTE /\ d \in Nat
        BY <3>2, Sizes
      <4>2. d % 2 = 0
        BY <2>1, <4>1, PowerAssumption
      <4>3. PICK e \in Nat : e = d \div 2
        BY <4>1
      <4>4. d = e * 2 /\ e \in 1 .. BYTE /\ e <= n + 1 /\ e \in Nat \ {0}
        BY <2>1, <4>1, <4>2, <4>3, Sizes
      <4>5. BYTE % e = 0
        <5>1. PICK k \in Nat : BYTE = k * d
          <6>1. BYTE \div d \in Nat /\ BYTE = (BYTE \div d) * d + (BYTE % d)
            BY <4>1, Sizes
          <6>2. PICK k \in Nat : k = BYTE \div d
            BY <6>1
          <6>3. k * d \in Nat
            BY <4>1
          <6>4. BYTE = k * d + (BYTE % d)
            BY <6>1, <6>2, Zenon
          <6>5. BYTE = k * d + 0
            BY <2>1, <6>4, Zenon
          <6>6. BYTE = k * d
            BY <6>3, <6>5
          <6> QED BY <6>6
        <5>2. PICK j \in Nat : j = k * 2
          OBVIOUS
        <5>3. BYTE = j * e + 0
          BY <4>4, <5>1, <5>2
        <5>4. 0 \in 0 .. e - 1
          BY <4>4
        <5> QED BY <4>4, <5>3, <5>4, DivMod
      <4>6. e \in Scales
        BY <1>3, <4>4, <4>5
      <4>7. ASSUME NEW p \in Separators PROVE p * d \in Separators
        <5>1. p * e \in Separators
          BY <4>6 DEF Scales
        <5>2. (p * e) * 2 \in Separators
          BY <5>1, Doubled
        <5>3. (p * e) * 2 = p * d
          BY <4>4 DEF Separators
        <5> QED BY <5>2, <5>3
      <4> QED BY <4>1, <4>7 DEF Scales
    <3> QED BY <3>1, <3>2
  <2>2. n + 1 \in Nat
    OBVIOUS
  <2> QED BY <2>1, <2>2
<1> HIDE DEF T
<1>4. \A n \in Nat : n \in T
  BY <1>2, <1>3, NatSetInduction
<1>5. ASSUME NEW d \in 1 .. BYTE, BYTE % d = 0 PROVE d \in Scales
  <2>1. BYTE \in T /\ d <= BYTE + 1
    BY <1>4, Sizes
  <2> QED BY <1>5, <2>1 DEF T
<1> QED BY <1>5

LEMMA ByteEven == BYTE % 2 = 0
<1>1. BYTE \in 2 .. BYTE /\ BYTE % BYTE = 0
  BY Sizes
<1> QED BY <1>1, PowerAssumption

\* or-ing the halves of a word makes up the word.
LEMMA OrHalves ==
  ASSUME NEW h \in Nat, NEW l \in u32
  PROVE  Or[<<h * U32, l>>] = h * U32 + l
<1>1. BYTE \in 1 .. BYTE /\ BYTE % BYTE = 0
  BY Sizes
<1>2. BYTE \in Scales
  BY <1>1, DivisorScales
<1>3. 1 \in Separators
  <2>1. ASSUME NEW k \in Nat, NEW m \in Nat, m < 1
        PROVE  Or[<<k * 1, m>>] = k * 1 + m
    <3>1. m = 0 /\ k * 1 = k
      BY <2>1
    <3> QED BY <3>1, OrZero
  <2> QED BY <2>1 DEF Separators
<1>4. 1 * BYTE \in Separators
  BY <1>2, <1>3 DEF Scales
<1>5. (1 * BYTE) * BYTE \in Separators
  BY <1>2, <1>4 DEF Scales
<1>6. ((1 * BYTE) * BYTE) * BYTE \in Separators
  BY <1>2, <1>5 DEF Scales
<1>7. (((1 * BYTE) * BYTE) * BYTE) * BYTE \in Separators
  BY <1>2, <1>6 DEF Scales
<1>8. (((1 * BYTE) * BYTE) * BYTE) * BYTE = U32
  BY Sizes DEF U32, U16
<1>9. U32 \in Separators /\ l \in Nat /\ l < U32
  BY <1>7, <1>8, Sizes DEF u32
<1> QED BY <1>9 DEF Separators

-----------------------------------------------------------------------------
(* The bytes of a word.                                                    *)

\* The digits of v from the one that counts for K on.
From(v, K) == (v \div K) * K

Peels(v, K, R, L) ==
  \E d \in 0 .. R - 1, p \in Nat :
    /\ d = (v \div K) % R /\ p = d * K
    /\ From(v, K) = p + From(v, L) /\ From(v, L) \in Nat

LEMMA Peel ==
  ASSUME NEW K \in Nat \ {0}, NEW R \in Nat \ {0}, NEW L, L = K * R, NEW v \in Nat
  PROVE  Peels(v, K, R, L)
<1>1. PICK q \in Nat, r \in 0 .. K - 1 : q = v \div K /\ v = q * K + r
  <2>1. v \div K \in Nat /\ v % K \in 0 .. K - 1 /\ v = (v \div K) * K + (v % K)
    BY DivModTyped, Euclid
  <2> QED BY <2>1, Zenon
<1>2. PICK h \in Nat, d \in 0 .. R - 1 : q = h * R + d /\ d = q % R
  <2>1. q \div R \in Nat /\ q % R \in 0 .. R - 1 /\ q = (q \div R) * R + (q % R)
    BY DivModTyped, Euclid, Zenon
  <2> QED BY <2>1, Zenon
<1>3. PICK m \in 0 .. K * R - 1 : m = d * K + r
  BY Combined
<1>4. h * (K * R) = (h * R) * K
  OBVIOUS
<1>5. q * K = (h * R) * K + d * K
  <2>1. h * R \in Nat /\ d \in Nat
    OBVIOUS
  <2>2. (h * R + d) * K = (h * R) * K + d * K
    BY <2>1, Distribute
  <2> QED BY <1>2, <2>2, Zenon
<1>6. v = h * (K * R) + m
  BY <1>1, <1>3, <1>4, <1>5
<1>7. K * R \in Nat \ {0}
  OBVIOUS
<1>8. v \div L = h
  BY <1>6, <1>7, DivMod
<1>9. PICK p \in Nat, z \in Nat : p = d * K /\ z = h * L
  OBVIOUS
<1>10. From(v, L) = z
  BY <1>8, <1>9 DEF From
<1>11. From(v, K) = p + z
  BY <1>1, <1>4, <1>5, <1>9 DEF From
<1> QED BY <1>1, <1>2, <1>9, <1>10, <1>11 DEF Peels

LEMMA BytesOf ==
  ASSUME NEW v \in u64
  PROVE  /\ to_le_bytes(v) \in [1 .. REG_BYTES -> u8]
         /\ from_le_bytes(to_le_bytes(v)) = v
<1>v. v \in Nat /\ v < U64 /\ BYTE \in Nat \ {0}
  BY Sizes DEF u64
<1>1. to_le_bytes(v) \in [1 .. REG_BYTES -> u8]
  <2>1. ASSUME NEW i \in 1 .. 8 PROVE (v \div Unit[i]) % BYTE \in 0 .. BYTE - 1
    <3>1. PICK K \in Nat \ {0} : K = Unit[i]
      BY Units
    <3>2. PICK q \in Nat : q = v \div K
      BY <1>v, DivModTyped
    <3>3. q % BYTE \in 0 .. BYTE - 1
      BY <1>v, DivModTyped
    <3> QED BY <3>1, <3>2, <3>3
  <2> QED BY <2>1 DEF to_le_bytes, REG_BYTES, u8
<1>2. PICK k2 \in Nat \ {0}, k3 \in Nat \ {0}, k4 \in Nat \ {0}, k5 \in Nat \ {0},
           k6 \in Nat \ {0}, k7 \in Nat \ {0}, k8 \in Nat \ {0}, k9 \in Nat \ {0} :
        /\ k2 = Unit[2] /\ k3 = Unit[3] /\ k4 = Unit[4] /\ k5 = Unit[5]
        /\ k6 = Unit[6] /\ k7 = Unit[7] /\ k8 = Unit[8] /\ k9 = U64
  <2>1. /\ Unit[2] \in Nat \ {0} /\ Unit[3] \in Nat \ {0} /\ Unit[4] \in Nat \ {0}
        /\ Unit[5] \in Nat \ {0} /\ Unit[6] \in Nat \ {0} /\ Unit[7] \in Nat \ {0}
        /\ Unit[8] \in Nat \ {0} /\ U64 \in Nat \ {0}
    BY Units, Sizes
  <2> QED BY <2>1, Zenon
<1>d. PICK R \in Nat \ {0} : R = BYTE
  BY <1>v, Zenon
<1>k. /\ k2 = 1 * R /\ k3 = k2 * R /\ k4 = k3 * R /\ k5 = k4 * R
      /\ k6 = k5 * R /\ k7 = k6 * R /\ k8 = k7 * R /\ k9 = k8 * R
  <2>1. /\ Unit[2 + 1] = Unit[2] * BYTE /\ Unit[3 + 1] = Unit[3] * BYTE
        /\ Unit[4 + 1] = Unit[4] * BYTE /\ Unit[5 + 1] = Unit[5] * BYTE
        /\ Unit[6 + 1] = Unit[6] * BYTE /\ Unit[7 + 1] = Unit[7] * BYTE
    BY Units
  <2>2. Unit[2] = 1 * BYTE
    BY Units, Sizes
  <2> QED BY <1>2, <1>d, <2>1, <2>2, Units
<1>p. /\ Peels(v, 1, R, k2) /\ Peels(v, k2, R, k3) /\ Peels(v, k3, R, k4)
      /\ Peels(v, k4, R, k5) /\ Peels(v, k5, R, k6) /\ Peels(v, k6, R, k7)
      /\ Peels(v, k7, R, k8) /\ Peels(v, k8, R, k9)
  BY <1>v, <1>k, Peel
<1>3. PICK d1 \in 0 .. R - 1, p1 \in Nat :
        /\ d1 = (v \div 1) % R /\ p1 = d1 * 1
        /\ From(v, 1) = p1 + From(v, k2) /\ From(v, k2) \in Nat
  BY <1>p, <1>k, Zenon DEF Peels
<1>4. PICK d2 \in 0 .. R - 1, p2 \in Nat :
        /\ d2 = (v \div k2) % R /\ p2 = d2 * k2
        /\ From(v, k2) = p2 + From(v, k3) /\ From(v, k3) \in Nat
  BY <1>p, <1>k, Zenon DEF Peels
<1>5. PICK d3 \in 0 .. R - 1, p3 \in Nat :
        /\ d3 = (v \div k3) % R /\ p3 = d3 * k3
        /\ From(v, k3) = p3 + From(v, k4) /\ From(v, k4) \in Nat
  BY <1>p, <1>k, Zenon DEF Peels
<1>6. PICK d4 \in 0 .. R - 1, p4 \in Nat :
        /\ d4 = (v \div k4) % R /\ p4 = d4 * k4
        /\ From(v, k4) = p4 + From(v, k5) /\ From(v, k5) \in Nat
  BY <1>p, <1>k, Zenon DEF Peels
<1>7. PICK d5 \in 0 .. R - 1, p5 \in Nat :
        /\ d5 = (v \div k5) % R /\ p5 = d5 * k5
        /\ From(v, k5) = p5 + From(v, k6) /\ From(v, k6) \in Nat
  BY <1>p, <1>k, Zenon DEF Peels
<1>8. PICK d6 \in 0 .. R - 1, p6 \in Nat :
        /\ d6 = (v \div k6) % R /\ p6 = d6 * k6
        /\ From(v, k6) = p6 + From(v, k7) /\ From(v, k7) \in Nat
  BY <1>p, <1>k, Zenon DEF Peels
<1>9. PICK d7 \in 0 .. R - 1, p7 \in Nat :
        /\ d7 = (v \div k7) % R /\ p7 = d7 * k7
        /\ From(v, k7) = p7 + From(v, k8) /\ From(v, k8) \in Nat
  BY <1>p, <1>k, Zenon DEF Peels
<1>10. PICK d8 \in 0 .. R - 1, p8 \in Nat :
        /\ d8 = (v \div k8) % R /\ p8 = d8 * k8
        /\ From(v, k8) = p8 + From(v, k9) /\ From(v, k9) \in Nat
  BY <1>p, <1>k, Zenon DEF Peels
<1>11. From(v, 1) = v /\ From(v, k9) = 0
  <2>1. v \div 1 = v /\ v * 1 = v
    BY <1>v
  <2>2. v \div k9 = 0 /\ 0 * k9 = 0
    BY <1>v, <1>2
  <2> QED BY <2>1, <2>2 DEF From
<1>12. v = p1 + p2 + p3 + p4 + p5 + p6 + p7 + p8
  <2>1. /\ From(v, 1) = p1 + From(v, k2) /\ From(v, k2) = p2 + From(v, k3)
        /\ From(v, k3) = p3 + From(v, k4) /\ From(v, k4) = p4 + From(v, k5)
        /\ From(v, k5) = p5 + From(v, k6) /\ From(v, k6) = p6 + From(v, k7)
        /\ From(v, k7) = p7 + From(v, k8) /\ From(v, k8) = p8 + From(v, k9)
    BY <1>3, <1>4, <1>5, <1>6, <1>7, <1>8, <1>9, <1>10
  <2> QED BY <1>11, <2>1
<1>13. /\ to_le_bytes(v)[1] = d1 /\ to_le_bytes(v)[2] = d2 /\ to_le_bytes(v)[3] = d3
       /\ to_le_bytes(v)[4] = d4 /\ to_le_bytes(v)[5] = d5 /\ to_le_bytes(v)[6] = d6
       /\ to_le_bytes(v)[7] = d7 /\ to_le_bytes(v)[8] = d8
  <2>1. \A i \in 1 .. 8 : to_le_bytes(v)[i] = (v \div Unit[i]) % BYTE
    BY DEF to_le_bytes, REG_BYTES
  <2>2. /\ 1 \in 1 .. 8 /\ 2 \in 1 .. 8 /\ 3 \in 1 .. 8 /\ 4 \in 1 .. 8
        /\ 5 \in 1 .. 8 /\ 6 \in 1 .. 8 /\ 7 \in 1 .. 8 /\ 8 \in 1 .. 8
    OBVIOUS
  <2>3. Unit[1] = 1
    BY Units
  <2>4. /\ to_le_bytes(v)[1] = d1 /\ to_le_bytes(v)[2] = d2
        /\ to_le_bytes(v)[3] = d3 /\ to_le_bytes(v)[4] = d4
    BY <1>2, <1>3, <1>4, <1>5, <1>6, <1>d, <2>1, <2>2, <2>3, Zenon
  <2>5. /\ to_le_bytes(v)[5] = d5 /\ to_le_bytes(v)[6] = d6
        /\ to_le_bytes(v)[7] = d7 /\ to_le_bytes(v)[8] = d8
    BY <1>2, <1>7, <1>8, <1>9, <1>10, <1>d, <2>1, <2>2, Zenon
  <2> QED BY <2>4, <2>5
<1>14. from_le_bytes(to_le_bytes(v)) = d1 + p2 + p3 + p4 + p5 + p6 + p7 + p8
  BY <1>2, <1>4, <1>5, <1>6, <1>7, <1>8, <1>9, <1>10, <1>13 DEF from_le_bytes
<1>15. p1 = d1
  BY <1>3
<1> QED BY <1>1, <1>12, <1>14, <1>15

LEMMA Swapped ==
  ASSUME NEW v \in u64
  PROVE  swap(v) \in u64 /\ swap(swap(v)) = v
<1> DEFINE b == to_le_bytes(v)
           c == [i \in 1 .. 8 |-> b[9 - i]]
<1>1. b \in [1 .. 8 -> u8] /\ from_le_bytes(b) = v
  BY BytesOf DEF REG_BYTES
<1> HIDE DEF b
<1>2. \A i \in 1 .. 8 : 9 - i \in 1 .. 8 /\ 9 - (9 - i) = i
  OBVIOUS
<1>3. c \in [1 .. 8 -> u8]
  BY <1>1, <1>2
<1>4. swap(v) = from_le_bytes(c)
  BY DEF swap, REG_BYTES, b
<1>5. from_le_bytes(c) \in u64 /\ to_le_bytes(from_le_bytes(c)) = c
  <2>1. PICK e \in [1 .. REG_BYTES -> u8] : e = c
    BY <1>3 DEF REG_BYTES
  <2> QED BY <2>1, Bytes
<1>6. [i \in 1 .. 8 |-> c[9 - i]] = b
  BY <1>1, <1>2
<1> HIDE DEF c
<1>7. swap(swap(v)) = from_le_bytes([i \in 1 .. 8 |-> c[9 - i]])
  BY <1>4, <1>5 DEF swap, REG_BYTES
<1> QED BY <1>1, <1>4, <1>5, <1>6, <1>7

-----------------------------------------------------------------------------
(* Calls across the boundary.                                              *)

LEMMA Widths == u8 \subseteq u16 /\ u16 \subseteq u32 /\ u32 \subseteq u64 /\ u64 \subseteq Nat
BY Sizes DEF u8, u16, u32, u64

\* Two u16s in a register.
LEMMA Pair ==
  ASSUME NEW h \in u16, NEW l \in u16
  PROVE  /\ combine_low_high_u16(l, h) \in u64
         /\ low_u16(combine_low_high_u16(l, h)) = l
         /\ high_u16(combine_low_high_u16(l, h)) = h
<1>1. PICK K \in Nat \ {0} : K = U16 /\ U32 = K * K /\ h \in 0 .. K - 1 /\ l \in 0 .. K - 1
  BY Sizes DEF U32, u16
<1>2. h * K + l \in 0 .. K * K - 1
  BY <1>1, Combined
<1>3. (h * K + l) \div K = h /\ (h * K + l) % K = l
  BY <1>1, DivMod
<1>4. h % K = h
  BY <1>1
<1>5. h * K + l \in u64
  BY <1>1, <1>2, Widths DEF u32
<1> QED BY <1>1, <1>3, <1>4, <1>5 DEF combine_low_high_u16, low_u16, high_u16

\* A u64 in two registers of 32 bits.
LEMMA Long ==
  ASSUME NEW v \in u64
  PROVE  /\ low_u32(v) \in u32 /\ high_u32(v) \in u32
         /\ v % U32 = low_u32(v) /\ v \div U32 = high_u32(v)
         /\ combine_low_high_u32(low_u32(v), high_u32(v)) = v
<1>1. PICK K \in Nat \ {0} : K = U32 /\ U64 = K * K /\ v \in 0 .. K * K - 1
  BY Sizes DEF U64, u64
<1>2. /\ v % K \in 0 .. K - 1 /\ (v \div K) % K \in 0 .. K - 1
      /\ (v \div K) % K = v \div K /\ (v \div K) * K + (v % K) = v
  BY <1>1, Halved
<1> QED BY <1>1, <1>2 DEF u32, low_u32, high_u32, combine_low_high_u32

LEMMA Low ==
  ASSUME NEW w \in u32
  PROVE  low_u32(w) = w
<1>1. PICK K \in Nat \ {0} : K = U32 /\ w \in 0 .. K - 1
  BY Sizes DEF u32
<1>2. w % K = w
  BY <1>1
<1> QED BY <1>1, <1>2 DEF low_u32

LEMMA Registers ==
  ASSUME NEW s \in Seq(u64), Len(s) <= 17
  PROVE  /\ try_from_iter(s) \in [1 .. PARAMS -> u64]
         /\ \A i \in 1 .. Len(s) : try_from_iter(s)[i] = s[i]
<1>1. try_from_iter(s) = [i \in 1 .. 17 |-> IF i <= Len(s) THEN s[i] ELSE 0]
  <2>1. Len(s) \in Nat
    OBVIOUS
  <2> QED BY <2>1 DEF try_from_iter, PARAMS
<1>2. 0 \in u64
  BY Sizes DEF u64
<1>3. \A i \in 1 .. 17 : i <= Len(s) => s[i] \in u64
  OBVIOUS
<1>4. \A i \in 1 .. Len(s) : i \in 1 .. 17 /\ i <= Len(s)
  OBVIOUS
<1> QED BY <1>1, <1>2, <1>3, <1>4 DEF PARAMS

\* The call fits the registers, and is what the other side reads from them.
Carried(c) ==
  /\ into(c) \in Seq(u64) /\ Len(into(c)) <= 17
  /\ c.fn \in Readable => from(c.fn, try_from_iter(into(c))) = c

LEMMA OneSent ==
  ASSUME NEW a \in u64
  PROVE  /\ <<a>> \in Seq(u64) /\ Len(<<a>>) <= 17
         /\ try_from_iter(<<a>>) \in [1 .. PARAMS -> u64]
         /\ try_from_iter(<<a>>)[1] = a
<1>1. /\ <<a>> \in Seq(u64) /\ Len(<<a>>) = 1
      /\ <<a>>[1] = a
  OBVIOUS
<1>2. PICK s \in Seq(u64) : s = <<a>>
  BY <1>1, Zenon
<1>3. Len(s) <= 17 /\ 1 \in 1 .. Len(s)
  BY <1>1, <1>2
<1>4. /\ try_from_iter(s) \in [1 .. PARAMS -> u64]
      /\ try_from_iter(s)[1] = s[1]
  BY <1>3, Registers
<1> QED BY <1>1, <1>2, <1>3, <1>4, Zenon

LEMMA TwoSent ==
  ASSUME NEW a \in u64, NEW b \in u64
  PROVE  /\ <<a, b>> \in Seq(u64) /\ Len(<<a, b>>) <= 17
         /\ try_from_iter(<<a, b>>) \in [1 .. PARAMS -> u64]
         /\ try_from_iter(<<a, b>>)[1] = a
         /\ try_from_iter(<<a, b>>)[2] = b
<1>1. /\ <<a, b>> \in Seq(u64) /\ Len(<<a, b>>) = 2
      /\ <<a, b>>[1] = a
      /\ <<a, b>>[2] = b
  OBVIOUS
<1>2. PICK s \in Seq(u64) : s = <<a, b>>
  BY <1>1, Zenon
<1>3. Len(s) <= 17 /\ 1 \in 1 .. Len(s) /\ 2 \in 1 .. Len(s)
  BY <1>1, <1>2
<1>4. /\ try_from_iter(s) \in [1 .. PARAMS -> u64]
      /\ try_from_iter(s)[1] = s[1] /\ try_from_iter(s)[2] = s[2]
  BY <1>3, Registers
<1> QED BY <1>1, <1>2, <1>3, <1>4, Zenon

LEMMA ThreeSent ==
  ASSUME NEW a \in u64, NEW b \in u64, NEW d \in u64
  PROVE  /\ <<a, b, d>> \in Seq(u64) /\ Len(<<a, b, d>>) <= 17
         /\ try_from_iter(<<a, b, d>>) \in [1 .. PARAMS -> u64]
         /\ try_from_iter(<<a, b, d>>)[1] = a
         /\ try_from_iter(<<a, b, d>>)[2] = b
         /\ try_from_iter(<<a, b, d>>)[3] = d
<1>1. /\ <<a, b, d>> \in Seq(u64) /\ Len(<<a, b, d>>) = 3
      /\ <<a, b, d>>[1] = a
      /\ <<a, b, d>>[2] = b
      /\ <<a, b, d>>[3] = d
  OBVIOUS
<1>2. PICK s \in Seq(u64) : s = <<a, b, d>>
  BY <1>1, Zenon
<1>3. Len(s) <= 17 /\ 1 \in 1 .. Len(s) /\ 2 \in 1 .. Len(s) /\ 3 \in 1 .. Len(s)
  BY <1>1, <1>2
<1>4. /\ try_from_iter(s) \in [1 .. PARAMS -> u64]
      /\ try_from_iter(s)[1] = s[1] /\ try_from_iter(s)[2] = s[2] /\ try_from_iter(s)[3] = s[3]
  BY <1>3, Registers
<1> QED BY <1>1, <1>2, <1>3, <1>4, Zenon

LEMMA FourSent ==
  ASSUME NEW a \in u64, NEW b \in u64, NEW d \in u64, NEW e \in u64
  PROVE  /\ <<a, b, d, e>> \in Seq(u64) /\ Len(<<a, b, d, e>>) <= 17
         /\ try_from_iter(<<a, b, d, e>>) \in [1 .. PARAMS -> u64]
         /\ try_from_iter(<<a, b, d, e>>)[1] = a
         /\ try_from_iter(<<a, b, d, e>>)[2] = b
         /\ try_from_iter(<<a, b, d, e>>)[3] = d
         /\ try_from_iter(<<a, b, d, e>>)[4] = e
<1>1. /\ <<a, b, d, e>> \in Seq(u64) /\ Len(<<a, b, d, e>>) = 4
      /\ <<a, b, d, e>>[1] = a
      /\ <<a, b, d, e>>[2] = b
      /\ <<a, b, d, e>>[3] = d
      /\ <<a, b, d, e>>[4] = e
  OBVIOUS
<1>2. PICK s \in Seq(u64) : s = <<a, b, d, e>>
  BY <1>1, Zenon
<1>3. Len(s) <= 17 /\ 1 \in 1 .. Len(s) /\ 2 \in 1 .. Len(s) /\ 3 \in 1 .. Len(s) /\ 4 \in 1 .. Len(s)
  BY <1>1, <1>2
<1>4. /\ try_from_iter(s) \in [1 .. PARAMS -> u64]
      /\ try_from_iter(s)[1] = s[1] /\ try_from_iter(s)[2] = s[2] /\ try_from_iter(s)[3] = s[3] /\ try_from_iter(s)[4] = s[4]
  BY <1>3, Registers
<1> QED BY <1>1, <1>2, <1>3, <1>4, Zenon

LEMMA VersionCarried ==
  ASSUME NEW c \in Version
  PROVE  Carried(c)
<1>1. /\ c.fn = "Version"
      /\ c.major \in u16 /\ c.minor \in u16
      /\ c = [fn |-> "Version", major |-> c.major, minor |-> c.minor]
  BY DEF Version
<1>2. PICK a \in u64 : /\ a = combine_low_high_u16(c.minor, c.major)
                       /\ low_u16(a) = c.minor /\ high_u16(a) = c.major
  BY <1>1, Pair
<1>3. into(c) = <<a>>
  BY <1>1, <1>2 DEF into, Version_into
<1>4. <<a>> \in Seq(u64) /\ Len(<<a>>) <= 17
  BY OneSent
<1>5. PICK y : y = try_from_iter(<<a>>) /\ y[1] = a
  BY OneSent
<1>6. from(c.fn, y) = Version_from(y)
  BY <1>1 DEF from
<1>7. Version_from(y) = c
  BY <1>1, <1>2, <1>5 DEF Version_from
<1> QED BY <1>3, <1>4, <1>5, <1>6, <1>7 DEF Carried

LEMMA NotificationSetCarried ==
  ASSUME NEW c \in NotificationSet
  PROVE  Carried(c)
<1>1. /\ c.fn = "NotificationSet"
      /\ c.sender_id \in u16 /\ c.receiver_id \in u16 /\ c.flags \in u32
      /\ c.notification_bitmap \in u64
      /\ c = [fn |-> "NotificationSet", sender_id |-> c.sender_id,
            receiver_id |-> c.receiver_id, flags |-> c.flags,
            notification_bitmap |-> c.notification_bitmap]
  BY DEF NotificationSet
<1>2. PICK a \in u64 : /\ a = combine_low_high_u16(c.receiver_id, c.sender_id)
                       /\ low_u16(a) = c.receiver_id /\ high_u16(a) = c.sender_id
  BY <1>1, Pair
<1>3. PICK b \in u64 : b = c.flags /\ low_u32(b) = c.flags
  BY <1>1, Widths, Low
<1>4. PICK d \in u64 : /\ d = low_u32(c.notification_bitmap)
                       /\ low_u32(d) = low_u32(c.notification_bitmap)
  BY <1>1, Long, Low, Widths
<1>5. PICK e \in u64 : /\ e = high_u32(c.notification_bitmap)
                       /\ low_u32(e) = high_u32(c.notification_bitmap)
  BY <1>1, Long, Low, Widths
<1>6. into(c) = <<a, b, d, e>>
  BY <1>1, <1>2, <1>3, <1>4, <1>5 DEF into, NotificationSet_into
<1>7. <<a, b, d, e>> \in Seq(u64) /\ Len(<<a, b, d, e>>) <= 17
  BY FourSent
<1>8. PICK y : y = try_from_iter(<<a, b, d, e>>) /\ y[1] = a /\ y[2] = b /\ y[3] = d /\ y[4] = e
  BY FourSent
<1>9. from(c.fn, y) = NotificationSet_from(y)
  BY <1>1 DEF from
<1>10. combine_low_high_u32(low_u32(d), low_u32(e)) = c.notification_bitmap
  BY <1>1, <1>4, <1>5, Long
<1>11. NotificationSet_from(y) = c
  BY <1>1, <1>2, <1>3, <1>4, <1>5, <1>8, <1>10 DEF NotificationSet_from
<1> QED BY <1>6, <1>7, <1>8, <1>9, <1>11 DEF Carried

LEMMA NotificationBindCarried ==
  ASSUME NEW c \in NotificationBind
  PROVE  Carried(c)
<1>1. /\ c.fn = "NotificationBind"
      /\ c.sender_id \in u16 /\ c.receiver_id \in u16
      /\ c.flags \in DOMAIN NotificationBindFlags /\ c.notification_bitmap \in u64
      /\ c = [fn |-> "NotificationBind", sender_id |-> c.sender_id,
            receiver_id |-> c.receiver_id, flags |-> c.flags,
            notification_bitmap |-> c.notification_bitmap]
  BY DEF NotificationBind
<1>2. PICK a \in u64 : /\ a = combine_low_high_u16(c.receiver_id, c.sender_id)
                       /\ low_u16(a) = c.receiver_id /\ high_u16(a) = c.sender_id
  BY <1>1, Pair
<1>3. PICK b \in u64 : b = NotificationBindFlags[c.flags]
  BY <1>1, Sizes DEF NotificationBindFlags, u64
<1>4. PICK d \in u64 : /\ d = low_u32(c.notification_bitmap)
                       /\ low_u32(d) = low_u32(c.notification_bitmap)
  BY <1>1, Long, Low, Widths
<1>5. PICK e \in u64 : /\ e = high_u32(c.notification_bitmap)
                       /\ low_u32(e) = high_u32(c.notification_bitmap)
  BY <1>1, Long, Low, Widths
<1>6. into(c) = <<a, b, d, e>>
  BY <1>1, <1>2, <1>3, <1>4, <1>5 DEF into, NotificationBind_into
<1>7. <<a, b, d, e>> \in Seq(u64) /\ Len(<<a, b, d, e>>) <= 17
  BY FourSent
<1> QED BY <1>1, <1>6, <1>7 DEF Carried, Readable

LEMMA NotificationGetCarried ==
  ASSUME NEW c \in NotificationGet
  PROVE  Carried(c)
<1>1. /\ c.fn = "NotificationGet"
      /\ c.receiver_cpu_id \in u16 /\ c.receiver_endpoint_id \in u16
      /\ c.flags \in u32
      /\ c = [fn |-> "NotificationGet", receiver_cpu_id |-> c.receiver_cpu_id,
            receiver_endpoint_id |-> c.receiver_endpoint_id, flags |-> c.flags]
  BY DEF NotificationGet
<1>2. PICK a \in u64 : /\ a = combine_low_high_u16(c.receiver_endpoint_id, c.receiver_cpu_id)
                       /\ low_u16(a) = c.receiver_endpoint_id
                       /\ high_u16(a) = c.receiver_cpu_id
  BY <1>1, Pair
<1>3. PICK b \in u64 : b = c.flags /\ low_u32(b) = c.flags
  BY <1>1, Widths, Low
<1>4. into(c) = <<a, b>>
  BY <1>1, <1>2, <1>3 DEF into, NotificationGet_into
<1>5. <<a, b>> \in Seq(u64) /\ Len(<<a, b>>) <= 17
  BY TwoSent
<1>6. PICK y : y = try_from_iter(<<a, b>>) /\ y[1] = a /\ y[2] = b
  BY TwoSent
<1>7. from(c.fn, y) = NotificationGet_from(y)
  BY <1>1 DEF from
<1>8. NotificationGet_from(y) = c
  BY <1>1, <1>2, <1>3, <1>6 DEF NotificationGet_from
<1> QED BY <1>4, <1>5, <1>6, <1>7, <1>8 DEF Carried

LEMMA FeaturesCarried ==
  ASSUME NEW c \in Features
  PROVE  Carried(c)
<1>1. /\ c.fn = "Features"
      /\ c.feature_id \in u64 /\ c.input_properties \in u64
      /\ c = [fn |-> "Features", feature_id |-> c.feature_id,
            input_properties |-> c.input_properties]
  BY DEF Features
<1>2. PICK a \in u64 : a = c.feature_id
  BY <1>1
<1>3. PICK b \in u64 : b = c.input_properties
  BY <1>1
<1>4. into(c) = <<a, b>>
  BY <1>1, <1>2, <1>3 DEF into, Features_into
<1>5. <<a, b>> \in Seq(u64) /\ Len(<<a, b>>) <= 17
  BY TwoSent
<1>6. PICK y : y = try_from_iter(<<a, b>>) /\ y[1] = a /\ y[2] = b
  BY TwoSent
<1>7. from(c.fn, y) = Features_from(y)
  BY <1>1 DEF from
<1>8. Features_from(y) = c
  BY <1>1, <1>2, <1>3, <1>6 DEF Features_from
<1> QED BY <1>4, <1>5, <1>6, <1>7, <1>8 DEF Carried

LEMMA RxTxMapCarried ==
  ASSUME NEW c \in RxTxMap
  PROVE  Carried(c)
<1>1. /\ c.fn = "RxTxMap"
      /\ c.tx_address \in u64 /\ c.rx_address \in u64 /\ c.page_count \in u32
      /\ c = [fn |-> "RxTxMap", tx_address |-> c.tx_address,
            rx_address |-> c.rx_address, page_count |-> c.page_count]
  BY DEF RxTxMap
<1>2. PICK a \in u64 : a = c.tx_address
  BY <1>1
<1>3. PICK b \in u64 : b = c.rx_address
  BY <1>1
<1>4. PICK d \in u64 : d = c.page_count /\ low_u32(d) = c.page_count
  BY <1>1, Widths, Low
<1>5. into(c) = <<a, b, d>>
  BY <1>1, <1>2, <1>3, <1>4 DEF into, RxTxMap_into
<1>6. <<a, b, d>> \in Seq(u64) /\ Len(<<a, b, d>>) <= 17
  BY ThreeSent
<1>7. PICK y : y = try_from_iter(<<a, b, d>>) /\ y[1] = a /\ y[2] = b /\ y[3] = d
  BY ThreeSent
<1>8. from(c.fn, y) = RxTxMap_from(y)
  BY <1>1 DEF from
<1>9. RxTxMap_from(y) = c
  BY <1>1, <1>2, <1>3, <1>4, <1>7 DEF RxTxMap_from
<1> QED BY <1>5, <1>6, <1>7, <1>8, <1>9 DEF Carried

LEMMA MemRetrieveReqCarried ==
  ASSUME NEW c \in MemRetrieveReq
  PROVE  Carried(c)
<1>1. /\ c.fn = "MemRetrieveReq"
      /\ c.total_length \in u64 /\ c.frag_length \in u64 /\ c.tx_address \in u64
      /\ c.page_count \in u64
      /\ c = [fn |-> "MemRetrieveReq", total_length |-> c.total_length,
            frag_length |-> c.frag_length, tx_address |-> c.tx_address,
            page_count |-> c.page_count]
  BY DEF MemRetrieveReq
<1>2. PICK a \in u64 : a = c.total_length
  BY <1>1
<1>3. PICK b \in u64 : b = c.frag_length
  BY <1>1
<1>4. PICK d \in u64 : d = c.tx_address
  BY <1>1
<1>5. PICK e \in u64 : e = c.page_count
  BY <1>1
<1>6. into(c) = <<a, b, d, e>>
  BY <1>1, <1>2, <1>3, <1>4, <1>5 DEF into, MemRetrieveReq_into
<1>7. <<a, b, d, e>> \in Seq(u64) /\ Len(<<a, b, d, e>>) <= 17
  BY FourSent
<1>8. PICK y : y = try_from_iter(<<a, b, d, e>>) /\ y[1] = a /\ y[2] = b /\ y[3] = d /\ y[4] = e
  BY FourSent
<1>9. from(c.fn, y) = MemRetrieveReq_from(y)
  BY <1>1 DEF from
<1>10. MemRetrieveReq_from(y) = c
  BY <1>1, <1>2, <1>3, <1>4, <1>5, <1>8 DEF MemRetrieveReq_from
<1> QED BY <1>6, <1>7, <1>8, <1>9, <1>10 DEF Carried

LEMMA InterruptCarried ==
  ASSUME NEW c \in Interrupt
  PROVE  Carried(c)
<1>1. /\ c.fn = "Interrupt"
      /\ c.endpoint_id \in u16 /\ c.vcpu_id \in u16 /\ c.interrupt_id \in u32
      /\ c = [fn |-> "Interrupt", endpoint_id |-> c.endpoint_id,
            vcpu_id |-> c.vcpu_id, interrupt_id |-> c.interrupt_id]
  BY DEF Interrupt
<1>2. PICK a \in u64 : /\ a = combine_low_high_u16(c.vcpu_id, c.endpoint_id)
                       /\ low_u16(a) = c.vcpu_id /\ high_u16(a) = c.endpoint_id
  BY <1>1, Pair
<1>3. PICK b \in u64 : b = c.interrupt_id /\ low_u32(b) = c.interrupt_id
  BY <1>1, Widths, Low
<1>4. into(c) = <<a, b>>
  BY <1>1, <1>2, <1>3 DEF into, Interrupt_into
<1>5. <<a, b>> \in Seq(u64) /\ Len(<<a, b>>) <= 17
  BY TwoSent
<1> QED BY <1>1, <1>4, <1>5 DEF Carried, Readable

LEMMA MsgYieldCarried ==
  ASSUME NEW c \in MsgYield
  PROVE  Carried(c)
<1>1. /\ c.fn = "MsgYield"
      /\ c.vcpu_id \in u16 /\ c.endpoint_id \in u16 /\ c.timeout \in u64
      /\ c = [fn |-> "MsgYield", vcpu_id |-> c.vcpu_id,
            endpoint_id |-> c.endpoint_id, timeout |-> c.timeout]
  BY DEF MsgYield
<1>2. PICK a \in u64 : /\ a = combine_low_high_u16(c.vcpu_id, c.endpoint_id)
                       /\ low_u16(a) = c.vcpu_id /\ high_u16(a) = c.endpoint_id
  BY <1>1, Pair
<1>3. PICK b \in u64 : b = low_u32(c.timeout) /\ low_u32(b) = low_u32(c.timeout)
  BY <1>1, Long, Low, Widths
<1>4. PICK d \in u64 : d = high_u32(c.timeout) /\ low_u32(d) = high_u32(c.timeout)
  BY <1>1, Long, Low, Widths
<1>5. into(c) = <<a, b, d>>
  BY <1>1, <1>2, <1>3, <1>4 DEF into, MsgYield_into
<1>6. <<a, b, d>> \in Seq(u64) /\ Len(<<a, b, d>>) <= 17
  BY ThreeSent
<1>7. PICK y : y = try_from_iter(<<a, b, d>>) /\ y[1] = a /\ y[2] = b /\ y[3] = d
  BY ThreeSent
<1>8. from(c.fn, y) = MsgYield_from(y)
  BY <1>1 DEF from
<1>9. PICK h \in Nat, l \in u32 : /\ h = low_u32(d) /\ l = b
                                /\ h * U32 + l = c.timeout
  BY <1>1, <1>3, <1>4, Long, Widths DEF combine_low_high_u32
<1>10. combine_low_high_u32(0, h) = h * U32
  BY Sizes DEF combine_low_high_u32
<1>11. Or[<<combine_low_high_u32(0, low_u32(d)), b>>] = c.timeout
  BY <1>9, <1>10, OrHalves
<1>12. MsgYield_from(y) = c
  BY <1>1, <1>2, <1>3, <1>4, <1>7, <1>9, <1>10, <1>11 DEF MsgYield_from
<1> QED BY <1>5, <1>6, <1>7, <1>8, <1>12 DEF Carried

LEMMA MsgSend2Carried ==
  ASSUME NEW c \in MsgSend2
  PROVE  Carried(c)
<1>1. /\ c.fn = "MsgSend2"
      /\ c.sender_id \in u16 /\ c.flags \in u32
      /\ c = [fn |-> "MsgSend2", sender_id |-> c.sender_id, flags |-> c.flags]
  BY DEF MsgSend2
<1>2. PICK a \in u64 : /\ a = combine_low_high_u16(0, c.sender_id)
                       /\ high_u16(a) = c.sender_id
  BY <1>1, Pair, Sizes DEF u16
<1>3. PICK b \in u64 : b = c.flags /\ low_u32(b) = c.flags
  BY <1>1, Widths, Low
<1>4. into(c) = <<a, b>>
  BY <1>1, <1>2, <1>3 DEF into, MsgSend2_into
<1>5. <<a, b>> \in Seq(u64) /\ Len(<<a, b>>) <= 17
  BY TwoSent
<1>6. PICK y : y = try_from_iter(<<a, b>>) /\ y[1] = a /\ y[2] = b
  BY TwoSent
<1>7. from(c.fn, y) = MsgSend2_from(y)
  BY <1>1 DEF from
<1>8. MsgSend2_from(y) = c
  BY <1>1, <1>2, <1>3, <1>6 DEF MsgSend2_from
<1> QED BY <1>4, <1>5, <1>6, <1>7, <1>8 DEF Carried

LEMMA FunctionSeq ==
  ASSUME NEW S, NEW n \in Nat, NEW f \in [1 .. n -> S]
  PROVE  f \in Seq(S) /\ Len(f) = n
OBVIOUS

Payload == [1 .. PAYLOAD_LEN -> u8]

\* A payload in fourteen registers.
LEMMA PayloadRegisters ==
  ASSUME NEW payload \in Payload
  PROVE  /\ registers_iter(payload) \in Seq(u64) /\ Len(registers_iter(payload)) = 14
         /\ \A k \in 1 .. 14, i \in 1 .. 8 :
              to_le_bytes(registers_iter(payload)[k])[i] = payload[8 * (k - 1) + i]
<1> DEFINE bytes(k) == [i \in 1 .. 8 |-> payload[8 * (k - 1) + i]]
           regs == [k \in 1 .. 14 |-> from_le_bytes(bytes(k))]
<1>1. registers_iter(payload) = regs
  BY DEF registers_iter, REG_BYTES, PAYLOAD_REGS
<1>2. ASSUME NEW k \in 1 .. 14
      PROVE  from_le_bytes(bytes(k)) \in u64 /\ to_le_bytes(from_le_bytes(bytes(k))) = bytes(k)
  <2>1. \A i \in 1 .. 8 : 8 * (k - 1) + i \in 1 .. 14 * 8
    OBVIOUS
  <2>2. bytes(k) \in [1 .. 8 -> u8]
    BY <2>1 DEF Payload, PAYLOAD_LEN, PAYLOAD_REGS, REG_BYTES
  <2>3. PICK b \in [1 .. REG_BYTES -> u8] : b = bytes(k)
    BY <2>2, Zenon DEF REG_BYTES
  <2>4. from_le_bytes(b) \in u64 /\ to_le_bytes(from_le_bytes(b)) = b
    BY Bytes
  <2> QED BY <2>3, <2>4, Zenon
<1>3. regs \in [1 .. 14 -> u64]
  BY <1>2, Zenon
<1>4. ASSUME NEW k \in 1 .. 14, NEW i \in 1 .. 8
      PROVE  to_le_bytes(regs[k])[i] = payload[8 * (k - 1) + i]
  <2>1. regs[k] = from_le_bytes(bytes(k)) /\ bytes(k)[i] = payload[8 * (k - 1) + i]
    BY Zenon
  <2> QED BY <1>2, <2>1, Zenon
<1> HIDE DEF regs
<1>5. regs \in Seq(u64) /\ Len(regs) = 14
  <2>1. 14 \in Nat
    OBVIOUS
  <2>2. \A n \in Nat : \A f \in [1 .. n -> u64] : f \in Seq(u64) /\ Len(f) = n
    BY FunctionSeq
  <2> QED BY <1>3, <2>1, <2>2, Zenon
<1> QED BY <1>1, <1>4, <1>5

LEMMA DirectMessageCarried ==
  ASSUME NEW c \in DirectMessage(Payload)
  PROVE  Carried(c)
<1>1. /\ c.fn \in {"MsgSendDirectReq2", "MsgSendDirectResp2"}
      /\ c.source_id \in u16 /\ c.destination_id \in u16
      /\ c.uuid_high \in u64 /\ c.uuid_low \in u64 /\ c.payload \in Payload
      /\ c = [fn |-> c.fn, source_id |-> c.source_id, destination_id |-> c.destination_id,
              uuid_high |-> c.uuid_high, uuid_low |-> c.uuid_low, payload |-> c.payload]
  BY DEF DirectMessage
<1>2. PICK a \in u64 : /\ a = combine_low_high_u16(c.destination_id, c.source_id)
                       /\ low_u16(a) = c.destination_id /\ high_u16(a) = c.source_id
  BY <1>1, Pair
<1>3. PICK b \in u64 : b = swap(c.uuid_high) /\ swap(b) = c.uuid_high
  BY <1>1, Swapped
<1>4. PICK d \in u64 : d = swap(c.uuid_low) /\ swap(d) = c.uuid_low
  BY <1>1, Swapped
<1>5. PICK head \in Seq(u64) : /\ head = <<a, b, d>> /\ Len(head) = 3
                              /\ head[1] = a /\ head[2] = b /\ head[3] = d
  <2>1. /\ <<a, b, d>> \in Seq(u64) /\ Len(<<a, b, d>>) = 3
        /\ <<a, b, d>>[1] = a /\ <<a, b, d>>[2] = b /\ <<a, b, d>>[3] = d
    OBVIOUS
  <2> QED BY <2>1, Zenon
<1>6. PICK body \in Seq(u64) :
        /\ body = registers_iter(c.payload) /\ Len(body) = 14
        /\ \A k \in 1 .. 14, i \in 1 .. 8 :
             to_le_bytes(body[k])[i] = c.payload[8 * (k - 1) + i]
  BY <1>1, PayloadRegisters
<1>7. into(c) = head \o body
  BY <1>1, <1>2, <1>3, <1>4, <1>5, <1>6 DEF into, DirectMessage_into
<1>8. PICK s \in Seq(u64) : /\ s = head \o body /\ Len(s) = 17
                           /\ s[1] = a /\ s[2] = b /\ s[3] = d
                           /\ \A k \in 1 .. 14 : s[3 + k] = body[k]
  <2>1. /\ head \o body \in Seq(u64) /\ Len(head \o body) = Len(head) + Len(body)
        /\ \A i \in 1 .. Len(head) : (head \o body)[i] = head[i]
        /\ \A i \in 1 .. Len(body) : (head \o body)[Len(head) + i] = body[i]
    BY Appending
  <2>2. PICK s \in Seq(u64) : s = head \o body
    BY <2>1, Zenon
  <2>3. Len(s) = 17 /\ 1 \in 1 .. Len(head) /\ 2 \in 1 .. Len(head) /\ 3 \in 1 .. Len(head)
    BY <1>5, <1>6, <2>1, <2>2
  <2>4. s[1] = a /\ s[2] = b /\ s[3] = d
    BY <1>5, <2>1, <2>2, <2>3, Zenon
  <2>5. \A k \in 1 .. 14 : s[3 + k] = body[k]
    BY <1>5, <1>6, <2>1, <2>2, Zenon
  <2> QED BY <2>2, <2>3, <2>4, <2>5
<1>9. PICK y : /\ y = try_from_iter(s) /\ y[1] = a /\ y[2] = b /\ y[3] = d
               /\ \A k \in 1 .. 14 : y[3 + k] = body[k]
  <2>1. Len(s) <= 17 /\ 1 \in 1 .. Len(s) /\ 2 \in 1 .. Len(s) /\ 3 \in 1 .. Len(s)
        /\ \A k \in 1 .. 14 : 3 + k \in 1 .. Len(s)
    BY <1>8
  <2>2. PICK y : y = try_from_iter(s) /\ \A i \in 1 .. Len(s) : y[i] = s[i]
    BY <2>1, Registers
  <2>3. y[1] = a /\ y[2] = b /\ y[3] = d
    BY <1>8, <2>1, <2>2, Zenon
  <2>4. \A k \in 1 .. 14 : y[3 + k] = body[k]
    BY <1>8, <2>1, <2>2, Zenon
  <2> QED BY <2>2, <2>3, <2>4
<1>10. from(c.fn, y) = DirectMessage_from(c.fn, y)
  BY <1>1 DEF from
<1> DEFINE bytes == [i \in 1 .. 112 |->
                       to_le_bytes(y[4 + ((i - 1) \div 8)])[((i - 1) % 8) + 1]]
<1>11. bytes = c.payload
  <2>1. ASSUME NEW i \in 1 .. 112
        PROVE  to_le_bytes(y[4 + ((i - 1) \div 8)])[((i - 1) % 8) + 1] = c.payload[i]
    <3>1. PICK q \in Nat, r \in 1 .. 8 :
            /\ q = (i - 1) \div 8 /\ r = ((i - 1) % 8) + 1 /\ 8 * q + r = i
      BY Position
    <3>2. q + 1 \in 1 .. 14 /\ 4 + q = 3 + (q + 1) /\ 8 * ((q + 1) - 1) + r = i
      BY <3>1
    <3>3. y[4 + q] = body[q + 1]
      BY <1>9, <3>2
    <3>4. to_le_bytes(body[q + 1])[r] = c.payload[8 * ((q + 1) - 1) + r]
      BY <1>6, <3>2, Zenon
    <3> QED BY <3>1, <3>2, <3>3, <3>4, Zenon
  <2>2. c.payload \in [1 .. 112 -> u8]
    BY <1>1 DEF Payload, PAYLOAD_LEN, PAYLOAD_REGS, REG_BYTES
  <2>3. c.payload = [i \in 1 .. 112 |-> c.payload[i]]
    BY <2>2, Zenon
  <2>4. bytes = [i \in 1 .. 112 |-> c.payload[i]]
    BY <2>1, Zenon
  <2> QED BY <2>3, <2>4, Zenon
<1>12. DirectMessage_from(c.fn, y).payload = c.payload
  <2>1. DirectMessage_from(c.fn, y).payload = payload_from_iter(bytes)
    BY DEF DirectMessage_from, PAYLOAD_REGS, REG_BYTES
  <2> HIDE DEF bytes
  <2>2. c.payload \in [1 .. 112 -> u8]
    BY <1>1 DEF Payload, PAYLOAD_LEN, PAYLOAD_REGS, REG_BYTES
  <2>3. Len(c.payload) = 112
    BY <2>2
  <2>4. payload_from_iter(c.payload) = [i \in 1 .. 112 |-> c.payload[i]]
    <3>1. \A i \in 1 .. 112 : i <= Len(c.payload)
      BY <2>3
    <3>2. PAYLOAD_LEN = 112
      BY DEF PAYLOAD_LEN, PAYLOAD_REGS, REG_BYTES
    <3> QED BY <3>1, <3>2, Zenon DEF payload_from_iter
  <2> QED BY <1>11, <2>1, <2>2, <2>4
<1>13. DirectMessage_from(c.fn, y) = c
  BY <1>1, <1>2, <1>3, <1>4, <1>9, <1>12 DEF DirectMessage_from
<1> QED BY <1>7, <1>8, <1>9, <1>10, <1>13 DEF Carried

LEMMA AllCarried ==
  ASSUME NEW c, WellTyped(c)
  PROVE  Carried(c)
BY VersionCarried, NotificationSetCarried, NotificationBindCarried,
   NotificationGetCarried, FeaturesCarried, RxTxMapCarried, MemRetrieveReqCarried,
   InterruptCarried, MsgYieldCarried, MsgSend2Carried, DirectMessageCarried
   DEF WellTyped, Payload

LEMMA CallTyped ==
  ASSUME NEW c \in Call
  PROVE  WellTyped(c)
<1>1. CASE c \in [fn : {"Version"}, major : Ids, minor : Ids]
  <2>1. c \in Version
    BY <1>1, SamplesAssumption DEF Version
  <2> QED BY <2>1 DEF WellTyped
<1>2. CASE c \in [fn : {"NotificationSet"}, sender_id : Ids, receiver_id : Ids,
                  flags : Flags, notification_bitmap : Longs]
  <2>1. c \in NotificationSet
    BY <1>2, SamplesAssumption DEF NotificationSet
  <2> QED BY <2>1 DEF WellTyped
<1>3. CASE c \in [fn : {"NotificationBind"}, sender_id : Ids, receiver_id : Ids,
                  flags : DOMAIN NotificationBindFlags, notification_bitmap : Longs]
  <2>1. c \in NotificationBind
    BY <1>3, SamplesAssumption DEF NotificationBind
  <2> QED BY <2>1 DEF WellTyped
<1>4. CASE c \in [fn : {"NotificationGet"}, receiver_cpu_id : Ids,
                  receiver_endpoint_id : Ids, flags : Flags]
  <2>1. c \in NotificationGet
    BY <1>4, SamplesAssumption DEF NotificationGet
  <2> QED BY <2>1 DEF WellTyped
<1>5. CASE c \in [fn : {"Features"}, feature_id : Longs, input_properties : Longs]
  <2>1. c \in Features
    BY <1>5, SamplesAssumption DEF Features
  <2> QED BY <2>1 DEF WellTyped
<1>6. CASE c \in [fn : {"RxTxMap"}, tx_address : Longs, rx_address : Longs,
                  page_count : Flags]
  <2>1. c \in RxTxMap
    BY <1>6, SamplesAssumption DEF RxTxMap
  <2> QED BY <2>1 DEF WellTyped
<1>7. CASE c \in [fn : {"MemRetrieveReq"}, total_length : Longs, frag_length : Longs,
                  tx_address : Longs, page_count : Longs]
  <2>1. c \in MemRetrieveReq
    BY <1>7, SamplesAssumption DEF MemRetrieveReq
  <2> QED BY <2>1 DEF WellTyped
<1>8. CASE c \in [fn : {"Interrupt"}, endpoint_id : Ids, vcpu_id : Ids,
                  interrupt_id : Flags]
  <2>1. c \in Interrupt
    BY <1>8, SamplesAssumption DEF Interrupt
  <2> QED BY <2>1 DEF WellTyped
<1>9. CASE c \in [fn : {"MsgYield"}, vcpu_id : Ids, endpoint_id : Ids, timeout : Longs]
  <2>1. c \in MsgYield
    BY <1>9, SamplesAssumption DEF MsgYield
  <2> QED BY <2>1 DEF WellTyped
<1>10. CASE c \in [fn : {"MsgSend2"}, sender_id : Ids, flags : Flags]
  <2>1. c \in MsgSend2
    BY <1>10, SamplesAssumption DEF MsgSend2
  <2> QED BY <2>1 DEF WellTyped
<1>11. CASE c \in [fn : {"MsgSendDirectReq2"}, source_id : Ids, destination_id : Ids,
                  uuid_high : Longs, uuid_low : Longs, payload : Payloads]
  <2>1. c \in DirectMessage([1 .. PAYLOAD_LEN -> u8])
    BY <1>11, SamplesAssumption DEF DirectMessage
  <2> QED BY <2>1 DEF WellTyped
<1> QED BY <1>1, <1>2, <1>3, <1>4, <1>5, <1>6, <1>7, <1>8, <1>9, <1>10, <1>11 DEF Call

LEMMA RequestTyped ==
  ASSUME NEW c, WellTyped(c), c.fn = "MsgSendDirectReq2"
  PROVE  c \in DirectMessage(Payload)
BY DEF WellTyped, Payload, Version, NotificationSet, NotificationBind, NotificationGet,
       Features, RxTxMap, MemRetrieveReq, Interrupt, MsgYield, MsgSend2

LEMMA ResponseTyped ==
  ASSUME NEW req \in DirectMessage(Payload), NEW payload \in Payloads
  PROVE  WellTyped(from_req_with_payload(req, payload))
<1>1. payload \in Payload
  BY SamplesAssumption DEF Payload
<1>2. from_req_with_payload(req, payload) \in DirectMessage(Payload)
  BY <1>1 DEF from_req_with_payload, DirectMessage
<1> QED BY <1>2 DEF WellTyped, Payload

\* The SPMC's version is taken for one, and its error for an error.
LEMMA VersionAnswered ==
  ASSUME NEW major \in Ids, major < U16 \div 2, NEW minor \in Ids
  PROVE  /\ Version_exec(major * U16 + minor) =
              [fn |-> "Version", major |-> major, minor |-> minor]
         /\ Version_exec(U32 - 1) = [fn |-> "InvalidFunctionId"]
<1>1. major \in u16 /\ minor \in u16
  BY SamplesAssumption
<1>2. /\ low_u16(major * U16 + minor) = minor /\ high_u16(major * U16 + minor) = major
  BY <1>1, Pair DEF combine_low_high_u16
<1>3. PICK h \in Nat \ {0} : BYTE = h * 2
  <2>1. BYTE \div 2 \in Nat \ {0} /\ BYTE = (BYTE \div 2) * 2
    BY ByteEven, Sizes
  <2> QED BY <2>1
<1>4. PICK H \in Nat \ {0} : U16 = H * 2
  <2>1. PICK H \in Nat \ {0} : H = h * BYTE
    BY Sizes
  <2>2. BYTE * BYTE = H * 2
    BY <1>3, <2>1
  <2> QED BY <2>2 DEF U16
<1>5. PICK M \in Nat \ {0} : M = H * U16 /\ U32 = M * 2
  <2>1. PICK K \in Nat \ {0} : K = U16 /\ K = H * 2
    BY <1>4, Sizes
  <2>2. PICK M \in Nat \ {0} : M = H * K
    OBVIOUS
  <2>3. K * K = M * 2
    BY <2>1, <2>2
  <2> QED BY <2>1, <2>2, <2>3 DEF U32
<1>6. U32 \div 2 = M /\ U16 \div 2 = H
  BY <1>4, <1>5
<1>7. major * U16 + minor \in 0 .. M - 1
  <2>1. PICK K \in Nat \ {0} : K = U16 /\ minor \in 0 .. K - 1
    BY <1>1, Sizes DEF u16
  <2>2. major \in 0 .. H - 1
    BY <1>1, <1>6, Sizes DEF u16
  <2>3. major * K + minor \in 0 .. K * H - 1
    BY <2>1, <2>2, Combined
  <2>4. K * H = M
    BY <1>5, <2>1
  <2> QED BY <2>1, <2>3, <2>4
<1>8. ASSUME NEW w \in 0 .. M - 1 PROVE w \div M = 0
  OBVIOUS
<1>9. (U32 - 1) \div M = 1
  <2>1. U32 - 1 = 1 * M + (M - 1) /\ M - 1 \in 0 .. M - 1
    BY <1>5
  <2> QED BY <2>1, DivMod
<1>10. ((major * U16 + minor) \div (U32 \div 2)) % 2 = 0
  BY <1>6, <1>7, <1>8
<1>11. ((U32 - 1) \div (U32 \div 2)) % 2 = 1
  BY <1>6, <1>9
<1> QED BY <1>2, <1>10, <1>11 DEF Version_exec

\* Three bitmaps in six registers.
LEMMA BitmapsAnswered ==
  ASSUME NEW sp \in Longs, NEW vm \in Longs, NEW fw \in Longs, NEW y,
         y = try_from_iter(<<0, sp % U32, sp \div U32, vm % U32, vm \div U32,
                             fw % U32, fw \div U32>>)
  PROVE  /\ y \in [1 .. PARAMS -> u64]
         /\ NotificationGet_exec(y) = [sp |-> sp, vm |-> vm, fw |-> fw]
<1>1. sp \in u64 /\ vm \in u64 /\ fw \in u64
  BY SamplesAssumption
<1>2. PICK a1 \in u64, a2 \in u64, b1 \in u64, b2 \in u64, c1 \in u64, c2 \in u64, z \in u64 :
        /\ a1 = sp % U32 /\ a2 = sp \div U32 /\ b1 = vm % U32 /\ b2 = vm \div U32
        /\ c1 = fw % U32 /\ c2 = fw \div U32 /\ z = 0
  <2>1. /\ sp % U32 \in u64 /\ sp \div U32 \in u64 /\ vm % U32 \in u64 /\ vm \div U32 \in u64
        /\ fw % U32 \in u64 /\ fw \div U32 \in u64
    BY <1>1, Long, Widths
  <2>2. 0 \in u64
    BY Sizes DEF u64
  <2> QED BY <2>1, <2>2, Zenon
<1>3. /\ combine_low_high_u32(low_u32(a1), low_u32(a2)) = sp
      /\ combine_low_high_u32(low_u32(b1), low_u32(b2)) = vm
      /\ combine_low_high_u32(low_u32(c1), low_u32(c2)) = fw
  BY <1>1, <1>2, Long, Low
<1>4. /\ <<z, a1, a2, b1, b2, c1, c2>> \in Seq(u64)
      /\ Len(<<z, a1, a2, b1, b2, c1, c2>>) = 7
  OBVIOUS
<1>5. PICK s \in Seq(u64) : /\ s = <<z, a1, a2, b1, b2, c1, c2>> /\ Len(s) = 7
                           /\ s[2] = a1 /\ s[3] = a2 /\ s[4] = b1 /\ s[5] = b2
                           /\ s[6] = c1 /\ s[7] = c2
  BY <1>4
<1>6. y = try_from_iter(s)
  BY <1>2, <1>5
<1>7. /\ y \in [1 .. PARAMS -> u64]
      /\ y[2] = a1 /\ y[3] = a2 /\ y[4] = b1 /\ y[5] = b2 /\ y[6] = c1 /\ y[7] = c2
  <2>1. /\ Len(s) <= 17 /\ 2 \in 1 .. Len(s) /\ 3 \in 1 .. Len(s) /\ 4 \in 1 .. Len(s)
        /\ 5 \in 1 .. Len(s) /\ 6 \in 1 .. Len(s) /\ 7 \in 1 .. Len(s)
    BY <1>5
  <2>2. /\ try_from_iter(s) \in [1 .. PARAMS -> u64]
        /\ \A i \in 1 .. Len(s) : try_from_iter(s)[i] = s[i]
    BY <2>1, Registers
  <2> QED BY <1>5, <1>6, <2>1, <2>2, Zenon
<1> QED BY <1>3, <1>7 DEF NotificationGet_exec

-----------------------------------------------------------------------------
(* The boundary.                                                           *)

\* While a call is on its way, the registers hold it; a service answers a
\* request that was read.
Underway ==
  /\ phase \in {"ready", "smc", "respond", "answer", "done"}
  /\ x \in [1 .. PARAMS -> u64]
  /\ phase = "smc" => WellTyped(call) /\ x = try_from_iter(into(call))
  /\ phase = "respond" => heard \in DirectMessage(Payload)
  /\ RoundTrip

BoundaryInv == ConsoleInv /\ Underway

LEMMA NoRegisters == try_from_iter(<<>>) \in [1 .. PARAMS -> u64]
<1>1. PICK s \in Seq(u64) : s = <<>> /\ Len(s) <= 17
  <2>1. <<>> \in Seq(u64) /\ Len(<<>>) <= 17
    BY EmptySeq
  <2> QED BY <2>1, Zenon
<1> QED BY <1>1, Registers

LEMMA Sending ==
  ASSUME NEW c, WellTyped(c), Send(c)
  PROVE  Underway'
<1>1. Carried(c)
  BY AllCarried
<1>2. call' = c /\ x' = try_from_iter(into(c)) /\ phase' = "smc" /\ heard' = Nothing
  BY DEF Send
<1>3. PICK s \in Seq(u64) : s = into(c) /\ Len(s) <= 17
  BY <1>1 DEF Carried
<1>4. try_from_iter(s) \in [1 .. PARAMS -> u64]
  BY <1>3, Registers
<1>5. x' \in [1 .. PARAMS -> u64]
  BY <1>2, <1>3, <1>4, Zenon
<1> QED BY <1>2, <1>5 DEF Underway, RoundTrip

LEMMA Reading ==
  ASSUME Underway, NEW F \in Readable, try_from_smc_call(F)
  PROVE  Underway'
<1>1. phase = "smc" /\ call' = call /\ x' = x /\ x' \in [1 .. PARAMS -> u64]
  BY DEF try_from_smc_call, Underway
<1>2. CASE call.fn # F
  <2>1. heard' = UnexpectedFunctionId /\ phase' = "done"
    BY <1>2 DEF try_from_smc_call
  <2> QED BY <1>1, <2>1, Zenon DEF Underway, RoundTrip
<1>3. CASE call.fn = F
  <2>1. /\ heard' = from(call.fn, x)
        /\ phase' \in {"respond", "answer", "done"}
        /\ phase' = "respond" => call.fn = "MsgSendDirectReq2"
    BY <1>3 DEF try_from_smc_call
  <2>2. WellTyped(call) /\ x = try_from_iter(into(call))
    BY <1>1 DEF Underway
  <2>3. PICK c : c = call
    OBVIOUS
  <2>4. Carried(c)
    BY <2>2, <2>3, AllCarried
  <2>5. heard' = call'
    BY <1>1, <1>3, <2>1, <2>2, <2>3, <2>4 DEF Carried
  <2>6. ASSUME phase' = "respond" PROVE heard' \in DirectMessage(Payload)
    <3>1. c.fn = "MsgSendDirectReq2" /\ WellTyped(c)
      BY <2>1, <2>2, <2>3, <2>6
    <3>2. c \in DirectMessage(Payload)
      BY <3>1, RequestTyped
    <3> QED BY <1>1, <2>3, <2>5, <3>2
  <2>7. phase' \in {"ready", "smc", "respond", "answer", "done"} /\ phase' # "smc"
    BY <2>1
  <2> QED BY <1>1, <2>5, <2>6, <2>7, Zenon DEF Underway, RoundTrip
<1> QED BY <1>2, <1>3

LEMMA BoundaryStep ==
  ASSUME Underway, smc
  PROVE  Underway'
<1>1. ASSUME NEW c \in Call, ffa_smc(c) PROVE Underway'
  BY <1>1, CallTyped, Sending DEF ffa_smc
<1>2. ASSUME NEW F \in Readable, try_from_smc_call(F) PROVE Underway'
  BY <1>2, Reading
<1>3. CASE Consumed
  <2>1. phase' = "done" /\ call' = call /\ x' = x /\ heard' = heard
    BY <1>3 DEF Consumed
  <2>2. x' \in [1 .. PARAMS -> u64] /\ RoundTrip'
    BY <2>1, Zenon DEF Underway, RoundTrip
  <2> QED BY <2>1, <2>2, Zenon DEF Underway
<1>4. CASE Respond
  <2>1. phase = "respond" /\ heard \in DirectMessage(Payload)
    BY <1>4 DEF Respond, Underway
  <2>2. PICK payload \in Payloads : Send(from_req_with_payload(heard, payload))
    BY <1>4 DEF Respond
  <2>3. PICK c : c = from_req_with_payload(heard, payload)
    OBVIOUS
  <2>4. WellTyped(c)
    <3>1. PICK req \in DirectMessage(Payload) : req = heard
      BY <2>1, Zenon
    <3>2. WellTyped(from_req_with_payload(req, payload))
      BY ResponseTyped
    <3> QED BY <2>3, <3>1, <3>2, Zenon
  <2>5. Send(c)
    BY <2>2, <2>3, Zenon
  <2> QED BY <2>4, <2>5, Sending
<1>5. ASSUME NEW sp \in Longs, NEW vm \in Longs, NEW fw \in Longs,
             NotificationGet_answer(sp, vm, fw)
      PROVE  Underway'
  <2>1. /\ phase' = "done" /\ heard' = NotificationGet_exec(x')
        /\ x' = try_from_iter(<<0, sp % U32, sp \div U32, vm % U32, vm \div U32,
                                fw % U32, fw \div U32>>)
        /\ call' = [sp |-> sp, vm |-> vm, fw |-> fw]
    BY <1>5 DEF NotificationGet_answer
  <2>2. x' \in [1 .. PARAMS -> u64] /\ heard' = call'
    BY <2>1, BitmapsAnswered
  <2> QED BY <2>1, <2>2, Zenon DEF Underway, RoundTrip
<1>6. ASSUME NEW major \in {i \in Ids : i < U16 \div 2}, NEW minor \in Ids,
             Version_answer(major, minor)
      PROVE  Underway'
  <2>1. /\ phase' = "done" /\ x' = x
        /\ \/ /\ heard' = Version_exec(major * U16 + minor)
              /\ call' = [fn |-> "Version", major |-> major, minor |-> minor]
           \/ /\ heard' = Version_exec(U32 - 1)
              /\ call' = [fn |-> "InvalidFunctionId"]
    BY <1>6 DEF Version_answer
  <2>2. heard' = call'
    <3>1. major \in Ids /\ major < U16 \div 2
      OBVIOUS
    <3>2. /\ Version_exec(major * U16 + minor) =
               [fn |-> "Version", major |-> major, minor |-> minor]
          /\ Version_exec(U32 - 1) = [fn |-> "InvalidFunctionId"]
      BY <3>1, VersionAnswered
    <3> QED BY <2>1, <3>2
  <2>3. x' \in [1 .. PARAMS -> u64]
    BY <2>1 DEF Underway
  <2> QED BY <2>1, <2>2, <2>3, Zenon DEF Underway, RoundTrip
<1>7. ASSUME NEW properties \in Flags, Features_answer(properties)
      PROVE  Underway'
  <2>1. /\ phase' = "done" /\ x' = try_from_iter(<<0, properties>>)
        /\ heard' = Features_exec(x')
        /\ call' = [interface_properties |-> properties]
    BY <1>7 DEF Features_answer
  <2>2. 0 \in u64 /\ properties \in u64
    BY SamplesAssumption, Widths, Sizes DEF u64, u32
  <2>3. x' \in [1 .. PARAMS -> u64] /\ x'[2] = properties
    BY <2>1, <2>2, TwoSent
  <2>4. heard' = call'
    BY <2>1, <2>3 DEF Features_exec
  <2> QED BY <2>1, <2>3, <2>4, Zenon DEF Underway, RoundTrip
<1>8. CASE Return
  <2>1. phase' = "ready" /\ heard' = Nothing /\ x' = try_from_iter(<<>>)
    BY <1>8 DEF Return
  <2>2. x' \in [1 .. PARAMS -> u64]
    BY <2>1, NoRegisters, Zenon
  <2> QED BY <2>1, <2>2, Zenon DEF Underway, RoundTrip
<1> QED BY <1>1, <1>2, <1>3, <1>4, <1>5, <1>6, <1>7, <1>8 DEF smc

LEMMA BoundaryInductive ==
  /\ BoundaryInit => BoundaryInv
  /\ BoundaryInv /\ [BoundaryNext]_all => BoundaryInv'
<1>1. ASSUME BoundaryInit PROVE BoundaryInv
  <2>1. /\ Init /\ phase = "ready" /\ heard = Nothing /\ x = try_from_iter(<<>>)
    BY <1>1 DEF BoundaryInit
  <2>2. x \in [1 .. PARAMS -> u64]
    BY <2>1, NoRegisters, Zenon
  <2>3. Underway
    BY <2>1, <2>2, Zenon DEF Underway, RoundTrip
  <2> QED BY <2>1, <2>3, ConsoleInit DEF BoundaryInv
<1>2. ASSUME BoundaryInv, [BoundaryNext]_all PROVE BoundaryInv'
  <2>1. ConsoleInv'
    BY <1>2, ConsoleNext DEF BoundaryInv
  <2>2. smc \/ UNCHANGED calls
    BY <1>2 DEF BoundaryNext, all
  <2>3. CASE smc
    BY <1>2, <2>1, <2>3, BoundaryStep DEF BoundaryInv
  <2>4. CASE UNCHANGED calls
    <3>1. phase' = phase /\ call' = call /\ x' = x /\ heard' = heard
      BY <2>4 DEF calls
    <3>2. Underway'
      BY <1>2, <3>1, Zenon DEF BoundaryInv, Underway, RoundTrip
    <3> QED BY <2>1, <3>2 DEF BoundaryInv
  <2> QED BY <2>2, <2>3, <2>4
<1> QED BY <1>1, <1>2

\* The registers hold u64s, every encoder fits into seventeen of them, a call
\* that is read has fields of their widths, and the panic handler is entered
\* at most twice.
THEOREM TypeCorrect == BoundarySpec => []TypeOK
<1>1. BoundaryInv => TypeOK
  <2> SUFFICES ASSUME BoundaryInv PROVE TypeOK
    OBVIOUS
  <2>1. phase = "respond" => WellTyped(heard)
    BY DEF BoundaryInv, Underway, WellTyped, Payload
  <2> QED BY <2>1 DEF BoundaryInv, ConsoleInv, Underway, TypeOK
<1> QED BY <1>1, BoundaryInductive, PTL DEF BoundarySpec

\* Whatever the fields, the other side reads from the registers what was put
\* into them, for every call that can be read back, and for the answers to
\* FFA_VERSION and FFA_NOTIFICATION_GET.
THEOREM RoundTripHolds == BoundarySpec => []RoundTrip
<1>1. BoundaryInv => RoundTrip
  BY DEF BoundaryInv, Underway
<1> QED BY <1>1, BoundaryInductive, PTL DEF BoundarySpec

-----------------------------------------------------------------------------
(* Sums of fields.  MapThenSumSet recurses over the subsets of a set; for  *)
(* a finite set the recursion is well-founded, and the order in which it   *)
(* takes the elements does not matter.                                     *)

Fields == [v : Nat, reg : Nat, unit : Nat]
Worth(f) == f.v * f.unit
Total(S) == MapThenSumSet(LAMBDA f : f.v * f.unit, S)

LEMMA WorthTyped ==
  ASSUME NEW f \in Fields
  PROVE  Worth(f) \in Nat
<1>1. f.v \in Nat /\ f.unit \in Nat
  BY DEF Fields
<1> QED BY <1>1 DEF Worth

Some(s) == CHOOSE f \in s : TRUE
SumOf(h, s) == IF s = {} THEN 0 ELSE Worth(Some(s)) + h[s \ {Some(s)}]
Summed(S, g) == g = [s \in SUBSET S |-> SumOf(g, s)]

LEMMA SomeOf ==
  ASSUME NEW s, s # {}
  PROVE  Some(s) \in s
BY DEF Some

LEMMA SumTyped ==
  ASSUME NEW S \in SUBSET Fields, NEW h \in [SUBSET S -> Nat], NEW s \in SUBSET S
  PROVE  SumOf(h, s) \in Nat
<1>1. CASE s = {}
  BY <1>1 DEF SumOf
<1>2. CASE s # {}
  <2>1. Some(s) \in s /\ Some(s) \in Fields
    BY <1>2, SomeOf
  <2>2. Worth(Some(s)) \in Nat
    BY <2>1, WorthTyped
  <2>3. s \ {Some(s)} \in SUBSET S
    OBVIOUS
  <2>4. h[s \ {Some(s)}] \in Nat
    BY <2>3
  <2> QED BY <1>2, <2>2, <2>4 DEF SumOf
<1> QED BY <1>1, <1>2

\* The sums over sets of up to n elements, for each n, make up the function.
LEMMA SummedExists ==
  ASSUME NEW S \in SUBSET Fields, IsFiniteSet(S)
  PROVE  \E g : Summed(S, g)
<1> DEFINE P == [SUBSET S -> Nat]
           zero == [s \in SUBSET S |-> 0]
           step == [p \in Nat \X P |-> [s \in SUBSET S |-> SumOf(p[2], s)]]
<1>1. zero \in P
  OBVIOUS
<1>2. ASSUME NEW h \in P PROVE [s \in SUBSET S |-> SumOf(h, s)] \in P
  <2>1. \A s \in SUBSET S : SumOf(h, s) \in Nat
    BY SumTyped
  <2> QED BY <2>1, Zenon
<1>3. step \in Step(P)
  <2>1. \A p \in Nat \X P : p[2] \in P
    OBVIOUS
  <2>2. \A p \in Nat \X P : [s \in SUBSET S |-> SumOf(p[2], s)] \in P
    BY <1>2, <2>1, Zenon
  <2> QED BY <2>2, Zenon DEF Step
<1>4. \A n \in Nat, h \in P : step[<<n, h>>] = [s \in SUBSET S |-> SumOf(h, s)]
  <2>1. \A n \in Nat, h \in P : <<n, h>> \in Nat \X P /\ <<n, h>>[2] = h
    OBVIOUS
  <2> QED BY <2>1, Zenon
<1> HIDE DEF zero, step
<1>5. PICK h \in [Nat -> P] : \A n \in Nat : h[n + 1] = step[<<n, h[n]>>]
  <2> HIDE DEF P
  <2>1. PICK Q : Q = P
    OBVIOUS
  <2>2. PICK s0 \in Q, st \in Step(Q) : s0 = zero /\ st = step
    BY <1>1, <1>3, <2>1, Zenon
  <2>3. \E f \in [Nat -> Q] :
          f[0] = s0 /\ \A n \in Nat : f[n + 1] = st[<<n, f[n]>>]
    BY NatFunction
  <2> QED BY <2>1, <2>2, <2>3
<1>6. ASSUME NEW n \in Nat, NEW s \in SUBSET S
      PROVE  h[n + 1][s] = SumOf(h[n], s)
  <2>1. h[n] \in P
    OBVIOUS
  <2>2. h[n + 1] = [r \in SUBSET S |-> SumOf(h[n], r)]
    BY <1>4, <1>5, <2>1, Zenon
  <2> QED BY <2>2, Zenon
<1> DEFINE g == [s \in SUBSET S |-> h[Cardinality(s) + 1][s]]
<1>7. ASSUME NEW s \in SUBSET S PROVE g[s] = SumOf(g, s)
  <2>1. IsFiniteSet(s) /\ Cardinality(s) \in Nat
    BY FS_Subset, FS_CardinalityType
  <2>2. g[s] = SumOf(h[Cardinality(s)], s)
    BY <1>6, <2>1, Zenon
  <2>3. CASE s = {}
    BY <2>2, <2>3 DEF SumOf
  <2>4. CASE s # {}
    <3>1. PICK r \in SUBSET S : r = s \ {Some(s)}
      BY Zenon
    <3>2. Cardinality(r) + 1 = Cardinality(s)
      <4>1. Some(s) \in s
        BY <2>4, SomeOf
      <4>2. Cardinality(s \ {Some(s)}) = Cardinality(s) - 1
        BY <2>1, <4>1, FS_RemoveElement
      <4> QED BY <2>1, <3>1, <4>2
    <3>3. g[r] = h[Cardinality(s)][r]
      BY <3>2, Zenon
    <3> HIDE DEF g
    <3> QED BY <2>2, <2>4, <3>1, <3>3 DEF SumOf
  <2> QED BY <2>3, <2>4
<1>8. g = [s \in SUBSET S |-> SumOf(g, s)]
  <2>1. g = [s \in SUBSET S |-> g[s]]
    OBVIOUS
  <2> HIDE DEF g
  <2> QED BY <1>7, <2>1, Zenon
<1> QED BY <1>8, Zenon DEF Summed

LEMMA TotalIs ==
  ASSUME NEW S \in SUBSET Fields, IsFiniteSet(S)
  PROVE  \E g : Summed(S, g) /\ Total(S) = g[S]
<1> DEFINE F == CHOOSE g : Summed(S, g)
<1>1. Summed(S, F)
  BY SummedExists, Zenon
<1>2. Total(S) = F[S]
  BY DEF Total, MapThenSumSet, MapThenFoldSet, Summed, SumOf, Some, Worth
<1> QED BY <1>1, <1>2, Zenon

LEMMA SummedTyped ==
  ASSUME NEW S \in SUBSET Fields, IsFiniteSet(S), NEW g, Summed(S, g)
  PROVE  g[{}] = 0 /\ \A s \in SUBSET S : g[s] \in Nat
<1> DEFINE T == {n \in Nat : \A s \in SUBSET S : Cardinality(s) = n => g[s] \in Nat}
<1>1. \A s \in SUBSET S : g[s] = SumOf(g, s)
  BY Zenon DEF Summed
<1>2. g[{}] = 0
  BY <1>1 DEF SumOf
<1>3. \A s \in SUBSET S : IsFiniteSet(s) /\ Cardinality(s) \in Nat
  BY FS_Subset, FS_CardinalityType
<1>4. 0 \in T
  <2>1. \A s \in SUBSET S : Cardinality(s) = 0 => s = {}
    BY <1>3, FS_EmptySet
  <2> QED BY <1>2, <2>1
<1>5. ASSUME NEW n \in Nat, n \in T PROVE n + 1 \in T
  <2>1. SUFFICES ASSUME NEW s \in SUBSET S, Cardinality(s) = n + 1 PROVE g[s] \in Nat
    OBVIOUS
  <2>2. s # {}
    <3>1. Cardinality({}) = 0
      BY FS_EmptySet
    <3> QED BY <2>1, <3>1
  <2>3. PICK f \in s : g[s] = Worth(f) + g[s \ {f}]
    BY <1>1, <2>2, SomeOf DEF SumOf
  <2>4. Cardinality(s \ {f}) = n
    <3>1. Cardinality(s \ {f}) = Cardinality(s) - 1
      BY <1>3, FS_RemoveElement
    <3> QED BY <2>1, <3>1
  <2>5. g[s \ {f}] \in Nat
    <3>1. s \ {f} \in SUBSET S
      OBVIOUS
    <3> QED BY <1>5, <2>4, <3>1
  <2>6. Worth(f) \in Nat
    <3>1. f \in Fields
      OBVIOUS
    <3> QED BY <3>1, WorthTyped
  <2> QED BY <2>3, <2>5, <2>6
<1> HIDE DEF T
<1>6. \A n \in Nat : n \in T
  BY <1>4, <1>5, NatSetInduction
<1> QED BY <1>2, <1>3, <1>6 DEF T

\* Any element may be taken out first.
LEMMA TakenOut ==
  ASSUME NEW S \in SUBSET Fields, IsFiniteSet(S), NEW g, Summed(S, g)
  PROVE  \A s \in SUBSET S : \A a \in s : g[s] = Worth(a) + g[s \ {a}]
<1> DEFINE Good(s) == \A a \in s : g[s] = Worth(a) + g[s \ {a}]
           T == {n \in Nat : \A s \in SUBSET S : Cardinality(s) = n => Good(s)}
<1>1. \A s \in SUBSET S : g[s] = SumOf(g, s)
  BY Zenon DEF Summed
<1>2. \A s \in SUBSET S : g[s] \in Nat
  BY SummedTyped
<1>3. \A s \in SUBSET S : IsFiniteSet(s) /\ Cardinality(s) \in Nat
  BY FS_Subset, FS_CardinalityType
<1>4. 0 \in T
  <2>1. \A s \in SUBSET S : Cardinality(s) = 0 => s = {}
    BY <1>3, FS_EmptySet
  <2> QED BY <2>1
<1>5. ASSUME NEW n \in Nat, n \in T PROVE n + 1 \in T
  <2>1. SUFFICES ASSUME NEW s \in SUBSET S, Cardinality(s) = n + 1, NEW a \in s
                 PROVE  g[s] = Worth(a) + g[s \ {a}]
    OBVIOUS
  <2>2. ASSUME NEW b \in s PROVE Good(s \ {b})
    <3>1. Cardinality(s \ {b}) = n
      <4>1. Cardinality(s \ {b}) = Cardinality(s) - 1
        BY <1>3, FS_RemoveElement
      <4> QED BY <2>1, <4>1
    <3>2. s \ {b} \in SUBSET S
      OBVIOUS
    <3> HIDE DEF Good
    <3> QED BY <1>5, <3>1, <3>2
  <2>3. PICK f \in s : g[s] = Worth(f) + g[s \ {f}]
    BY <1>1, SomeOf DEF SumOf
  <2>4. CASE a = f
    BY <2>3, <2>4
  <2>5. CASE a # f
    <3>1. a \in s \ {f} /\ f \in s \ {a} /\ (s \ {f}) \ {a} = (s \ {a}) \ {f}
      BY <2>5
    <3>2. g[s \ {f}] = Worth(a) + g[(s \ {f}) \ {a}]
      BY <2>2, <3>1, Zenon
    <3>3. g[s \ {a}] = Worth(f) + g[(s \ {f}) \ {a}]
      BY <2>2, <3>1, Zenon
    <3>4. Worth(a) \in Nat /\ Worth(f) \in Nat
      <4>1. a \in Fields /\ f \in Fields
        OBVIOUS
      <4> QED BY <4>1, WorthTyped
    <3>5. g[(s \ {f}) \ {a}] \in Nat
      <4>1. (s \ {f}) \ {a} \in SUBSET S
        OBVIOUS
      <4> QED BY <1>2, <4>1, Zenon
    <3> QED BY <2>3, <3>2, <3>3, <3>4, <3>5
  <2> QED BY <2>4, <2>5
<1> HIDE DEF T
<1>6. \A n \in Nat : n \in T
  BY <1>4, <1>5, NatSetInduction
<1> QED BY <1>3, <1>6 DEF T

LEMMA TotalNone == Total({}) = 0
<1>1. {} \in SUBSET Fields /\ IsFiniteSet({})
  BY FS_EmptySet
<1>2. PICK S \in SUBSET Fields : S = {} /\ IsFiniteSet(S)
  BY <1>1
<1>3. PICK g : Summed(S, g) /\ Total(S) = g[S]
  BY <1>2, TotalIs
<1> QED BY <1>2, <1>3, SummedTyped

LEMMA TotalOne ==
  ASSUME NEW a \in Fields
  PROVE  Total({a}) = Worth(a)
<1>1. PICK S \in SUBSET Fields : S = {a} /\ IsFiniteSet(S)
  BY FS_Singleton
<1>2. PICK g : Summed(S, g) /\ Total(S) = g[S]
  BY <1>1, TotalIs
<1>3. a \in S /\ S \in SUBSET S /\ S \ {a} = {}
  BY <1>1
<1>4. g[S] = Worth(a) + g[S \ {a}]
  BY <1>1, <1>2, <1>3, TakenOut
<1>5. g[{}] = 0
  BY <1>1, <1>2, SummedTyped
<1>6. Worth(a) \in Nat
  BY WorthTyped
<1> QED BY <1>1, <1>2, <1>3, <1>4, <1>5, <1>6

LEMMA TotalTwo ==
  ASSUME NEW a \in Fields, NEW b \in Fields, a # b
  PROVE  Total({a, b}) = Worth(a) + Worth(b)
<1>1. PICK S \in SUBSET Fields : S = {a, b} /\ IsFiniteSet(S)
  <2>1. {a, b} = {a} \cup {b} /\ {a, b} \in SUBSET Fields
    OBVIOUS
  <2>2. IsFiniteSet({a} \cup {b})
    BY FS_Singleton, FS_AddElement
  <2> QED BY <2>1, <2>2, Zenon
<1>2. PICK g : Summed(S, g) /\ Total(S) = g[S]
  BY <1>1, TotalIs
<1>3. /\ a \in S /\ S \in SUBSET S /\ S \ {a} \in SUBSET S
      /\ b \in S \ {a} /\ (S \ {a}) \ {b} = {}
  BY <1>1
<1>4. g[S] = Worth(a) + g[S \ {a}]
  BY <1>1, <1>2, <1>3, TakenOut
<1>5. g[S \ {a}] = Worth(b) + g[(S \ {a}) \ {b}]
  BY <1>1, <1>2, <1>3, TakenOut
<1>6. g[{}] = 0
  BY <1>1, <1>2, SummedTyped
<1>7. Worth(a) \in Nat /\ Worth(b) \in Nat
  BY WorthTyped
<1>8. g[S \ {a}] = Worth(b)
  BY <1>3, <1>5, <1>6, <1>7
<1>9. g[S] = Worth(a) + Worth(b)
  BY <1>4, <1>8, Zenon
<1> QED BY <1>1, <1>2, <1>9, Zenon

LEMMA TotalEight ==
  ASSUME NEW F \in [1 .. 8 -> Fields], \A i, j \in 1 .. 8 : F[i] = F[j] => i = j
  PROVE  Total({F[i] : i \in 1 .. 8}) =
           Worth(F[1]) + Worth(F[2]) + Worth(F[3]) + Worth(F[4]) + Worth(F[5])
             + Worth(F[6]) + Worth(F[7]) + Worth(F[8])
<1> DEFINE T(k) == {F[i] : i \in 1 .. k}
<1>1. T(0) = {}
  OBVIOUS
<1>2. ASSUME NEW k \in 0 .. 7
      PROVE  /\ T(k + 1) = T(k) \cup {F[k + 1]} /\ F[k + 1] \in T(k + 1)
             /\ T(k + 1) \ {F[k + 1]} = T(k)
  <2>1. /\ \A i \in 1 .. k + 1 : i \in 1 .. k \/ i = k + 1
        /\ \A i \in 1 .. k : i \in 1 .. k + 1 /\ i \in 1 .. 8 /\ i # k + 1
        /\ k + 1 \in 1 .. k + 1 /\ k + 1 \in 1 .. 8
    OBVIOUS
  <2>2. /\ \A f \in T(k + 1) : f \in T(k) \/ f = F[k + 1]
        /\ \A f \in T(k) : f \in T(k + 1)
    BY <2>1, Zenon
  <2>3. F[k + 1] \in T(k + 1)
    BY <2>1, Zenon
  <2>4. F[k + 1] \notin T(k)
    BY <2>1, Zenon
  <2> HIDE DEF T
  <2> QED BY <2>2, <2>3, <2>4
<1>3. /\ \A i \in 1 .. 8 : Worth(F[i]) \in Nat
      /\ \A k \in 0 .. 8 : T(k) \subseteq T(8) /\ T(k) \in SUBSET Fields
  <2>1. \A i \in 1 .. 8 : Worth(F[i]) \in Nat
    BY WorthTyped
  <2>2. \A k \in 0 .. 8 : \A i \in 1 .. k : i \in 1 .. 8
    OBVIOUS
  <2>3. \A k \in 0 .. 8 : T(k) \subseteq T(8) /\ T(k) \in SUBSET Fields
    BY <2>2, Zenon
  <2> QED BY <2>1, <2>3
<1> HIDE DEF T
<1>4. /\ T(1) = T(0) \cup {F[1]} /\ T(2) = T(1) \cup {F[2]} /\ T(3) = T(2) \cup {F[3]}
      /\ T(4) = T(3) \cup {F[4]} /\ T(5) = T(4) \cup {F[5]} /\ T(6) = T(5) \cup {F[6]}
      /\ T(7) = T(6) \cup {F[7]} /\ T(8) = T(7) \cup {F[8]}
  <2>1. \A k \in 0 .. 7 : T(k + 1) = T(k) \cup {F[k + 1]}
    BY <1>2
  <2> QED BY <2>1
<1>5. IsFiniteSet(T(8))
  <2>1. IsFiniteSet(T(0))
    BY <1>1, FS_EmptySet
  <2>2. IsFiniteSet(T(1)) /\ IsFiniteSet(T(2))
    BY <1>4, <2>1, FS_AddElement
  <2>3. IsFiniteSet(T(3)) /\ IsFiniteSet(T(4))
    BY <1>4, <2>2, FS_AddElement
  <2>4. IsFiniteSet(T(5)) /\ IsFiniteSet(T(6))
    BY <1>4, <2>3, FS_AddElement
  <2>5. IsFiniteSet(T(7)) /\ IsFiniteSet(T(8))
    BY <1>4, <2>4, FS_AddElement
  <2> QED BY <2>5
<1>6. PICK S \in SUBSET Fields : S = T(8) /\ IsFiniteSet(S)
  BY <1>3, <1>5
<1>7. PICK g : Summed(S, g) /\ Total(S) = g[S]
  BY <1>6, TotalIs
<1>8. \A s \in SUBSET S : g[s] \in Nat /\ \A a \in s : g[s] = Worth(a) + g[s \ {a}]
  BY <1>6, <1>7, TakenOut, SummedTyped
<1>9. ASSUME NEW k \in 0 .. 7
      PROVE  g[T(k + 1)] = Worth(F[k + 1]) + g[T(k)]
  <2>1. k + 1 \in 0 .. 8
    OBVIOUS
  <2>2. T(k + 1) \in SUBSET S
    BY <1>3, <1>6, <2>1
  <2>3. g[T(k + 1)] = Worth(F[k + 1]) + g[T(k + 1) \ {F[k + 1]}]
    BY <1>2, <1>8, <2>2
  <2> QED BY <1>2, <2>3
<1>10. /\ g[T(1)] = Worth(F[1]) + g[T(0)] /\ g[T(2)] = Worth(F[2]) + g[T(1)]
       /\ g[T(3)] = Worth(F[3]) + g[T(2)] /\ g[T(4)] = Worth(F[4]) + g[T(3)]
       /\ g[T(5)] = Worth(F[5]) + g[T(4)] /\ g[T(6)] = Worth(F[6]) + g[T(5)]
       /\ g[T(7)] = Worth(F[7]) + g[T(6)] /\ g[T(8)] = Worth(F[8]) + g[T(7)]
  <2>1. \A k \in 0 .. 7 : g[T(k + 1)] = Worth(F[k + 1]) + g[T(k)]
    BY <1>9
  <2> QED BY <2>1
<1>11. g[T(0)] = 0
  BY <1>1, <1>6, <1>7, SummedTyped
<1>12. Total(T(8)) = Worth(F[1]) + Worth(F[2]) + Worth(F[3]) + Worth(F[4]) + Worth(F[5])
                       + Worth(F[6]) + Worth(F[7]) + Worth(F[8])
  BY <1>3, <1>6, <1>7, <1>10, <1>11
<1> QED BY <1>12 DEF T

-----------------------------------------------------------------------------
(* The encoders and the tables of the ABI.                                 *)

At(S, r) == {f \in S : f.reg = r}

\* The registers of the words s hold the fields S and nothing else.
Placed(s, S) == \A r \in 1 .. PARAMS : try_from_iter(s)[r] = Total(At(S, r))

LEMMA TotalWord ==
  ASSUME NEW v \in Nat, NEW r \in Nat
  PROVE  Total(Word(v, r)) = v
<1>1. PICK a \in Fields : a = [v |-> v, reg |-> r, unit |-> 1]
  BY DEF Fields
<1>2. Word(v, r) = {a} /\ Worth(a) = v
  BY <1>1 DEF Word, Field, Worth
<1> QED BY <1>2, TotalOne

LEMMA TotalHalves ==
  ASSUME NEW h \in u16, NEW l \in u16
  PROVE  Total(Halves(h, l)) = combine_low_high_u16(l, h)
<1>1. U16 \in Nat /\ U16 # 1 /\ h \in Nat /\ l \in Nat
  BY Sizes DEF u16
<1>2. PICK a \in Fields, b \in Fields :
        a = [v |-> h, reg |-> 1, unit |-> U16] /\ b = [v |-> l, reg |-> 1, unit |-> 1]
  BY <1>1 DEF Fields
<1>3. a # b
  BY <1>1, <1>2
<1>4. Halves(h, l) = {a, b}
  BY <1>2 DEF Halves, Field
<1>5. Worth(a) = h * U16 /\ Worth(b) = l
  BY <1>1, <1>2 DEF Worth
<1> QED BY <1>3, <1>4, <1>5, TotalTwo DEF combine_low_high_u16

LEMMA AtFirst ==
  ASSUME NEW h, NEW l
  PROVE  \A f \in Halves(h, l) : f.reg = 1
BY DEF Halves, Field

LEMMA Placing ==
  ASSUME NEW s \in Seq(u64), Len(s) <= 17, NEW S,
         \A f \in S : f.reg \in 1 .. Len(s),
         \A r \in 1 .. Len(s) : Total(At(S, r)) = s[r]
  PROVE  Placed(s, S)
<1>1. try_from_iter(s) = [i \in 1 .. 17 |-> IF i <= Len(s) THEN s[i] ELSE 0]
  <2>1. Len(s) \in Nat
    OBVIOUS
  <2> QED BY <2>1 DEF try_from_iter, PARAMS
<1>2. ASSUME NEW r \in 1 .. 17 PROVE try_from_iter(s)[r] = Total(At(S, r))
  <2>1. CASE r <= Len(s)
    <3>1. r \in 1 .. Len(s)
      BY <2>1
    <3> QED BY <1>1, <2>1, <3>1
  <2>2. CASE ~ (r <= Len(s))
    <3>1. r \notin 1 .. Len(s)
      BY <2>2
    <3>2. At(S, r) = {}
      BY <3>1 DEF At
    <3> QED BY <1>1, <2>2, <3>2, TotalNone
  <2> QED BY <2>1, <2>2
<1> QED BY <1>2 DEF Placed, PARAMS

\* Fields in register 1, and words in those that follow.
LEMMA WordsPlaced ==
  ASSUME NEW s \in Seq(u64), 1 <= Len(s), Len(s) <= 17, NEW F, \A f \in F : f.reg = 1,
         Total(F) = s[1]
  PROVE  Placed(s, F \cup UNION {Word(s[r], r) : r \in 2 .. Len(s)})
<1> DEFINE S == F \cup UNION {Word(s[r], r) : r \in 2 .. Len(s)}
<1>1. \A r \in 2 .. Len(s) : r # 1 /\ r \in 1 .. Len(s) /\ r \in Nat /\ s[r] \in Nat
  <2>1. PICK n \in Nat : n = Len(s)
    OBVIOUS
  <2>2. \A r \in 2 .. n : r # 1 /\ r \in 1 .. n /\ r \in Nat
    OBVIOUS
  <2>3. \A r \in 1 .. Len(s) : s[r] \in u64
    OBVIOUS
  <2> QED BY <2>1, <2>2, <2>3, Widths, Zenon
<1>2. \A v, r : \A f \in Word(v, r) : f.reg = r
  BY DEF Word, Field
<1>3. 1 \in 1 .. Len(s)
  <2>1. Len(s) \in Nat
    OBVIOUS
  <2> QED BY <2>1
<1>4. \A f \in S : f.reg \in 1 .. Len(s)
  <2>1. SUFFICES ASSUME NEW f \in S PROVE f.reg \in 1 .. Len(s)
    BY Zenon
  <2>2. f \in F \/ \E r \in 2 .. Len(s) : f \in Word(s[r], r)
    BY Zenon
  <2> QED BY <1>1, <1>2, <1>3, <2>2, Zenon
<1>5. At(S, 1) = F
  <2>1. ASSUME NEW f \in At(S, 1) PROVE f \in F
    <3>1. f.reg = 1 /\ (f \in F \/ \E r \in 2 .. Len(s) : f \in Word(s[r], r))
      BY Zenon DEF At
    <3> QED BY <1>1, <1>2, <3>1, Zenon
  <2>2. ASSUME NEW f \in F PROVE f \in At(S, 1)
    BY <2>2, Zenon DEF At
  <2> HIDE DEF S
  <2> QED BY <2>1, <2>2
<1>6. ASSUME NEW r \in 2 .. Len(s) PROVE At(S, r) = Word(s[r], r)
  <2>1. ASSUME NEW f \in At(S, r) PROVE f \in Word(s[r], r)
    <3>1. f.reg = r /\ (f \in F \/ \E q \in 2 .. Len(s) : f \in Word(s[q], q))
      BY Zenon DEF At
    <3> QED BY <1>1, <1>2, <3>1, Zenon
  <2>2. ASSUME NEW f \in Word(s[r], r) PROVE f \in At(S, r)
    BY <1>2, Zenon DEF At
  <2> HIDE DEF S
  <2> QED BY <2>1, <2>2
<1> HIDE DEF S
<1>7. ASSUME NEW r \in 1 .. Len(s) PROVE Total(At(S, r)) = s[r]
  <2>1. r = 1 \/ r \in 2 .. Len(s)
    OBVIOUS
  <2>2. CASE r = 1
    BY <1>5, <2>2
  <2>3. CASE r \in 2 .. Len(s)
    <3>1. Total(Word(s[r], r)) = s[r]
      BY <1>1, <2>3, TotalWord
    <3> QED BY <1>6, <2>3, <3>1
  <2> QED BY <2>1, <2>2, <2>3
<1>8. Placed(s, S)
  BY <1>4, <1>7, Placing
<1> QED BY <1>8 DEF S

LEMMA OnePlaced ==
  ASSUME NEW a \in u64, NEW F, \A f \in F : f.reg = 1, Total(F) = a
  PROVE  Placed(<<a>>, F)
<1>1. PICK s \in Seq(u64) : s = <<a>> /\ Len(s) = 1 /\ s[1] = a
  <2>1. /\ <<a>> \in Seq(u64) /\ Len(<<a>>) = 1
        /\ <<a>>[1] = a
    OBVIOUS
  <2> QED BY <2>1, Zenon
<1>2. Placed(s, F \cup UNION {Word(s[r], r) : r \in 2 .. Len(s)})
  <2>1. 1 <= Len(s) /\ Len(s) <= 17 /\ Total(F) = s[1]
    BY <1>1
  <2> QED BY <2>1, WordsPlaced
<1>3. 2 .. Len(s) = {}
  BY <1>1
<1> QED BY <1>1, <1>2, <1>3

LEMMA TwoPlaced ==
  ASSUME NEW a \in u64, NEW b \in u64, NEW F, \A f \in F : f.reg = 1, Total(F) = a
  PROVE  Placed(<<a, b>>, F \cup Word(b, 2))
<1>1. PICK s \in Seq(u64) : s = <<a, b>> /\ Len(s) = 2 /\ s[1] = a /\ s[2] = b
  <2>1. /\ <<a, b>> \in Seq(u64) /\ Len(<<a, b>>) = 2
        /\ <<a, b>>[1] = a /\ <<a, b>>[2] = b
    OBVIOUS
  <2> QED BY <2>1, Zenon
<1>2. Placed(s, F \cup UNION {Word(s[r], r) : r \in 2 .. Len(s)})
  <2>1. 1 <= Len(s) /\ Len(s) <= 17 /\ Total(F) = s[1]
    BY <1>1
  <2> QED BY <2>1, WordsPlaced
<1>3. 2 .. Len(s) = {2}
  BY <1>1
<1>4. UNION {Word(s[r], r) : r \in {2}} = Word(b, 2)
  BY <1>1, Zenon
<1> QED BY <1>1, <1>2, <1>3, <1>4, Zenon

LEMMA ThreePlaced ==
  ASSUME NEW a \in u64, NEW b \in u64, NEW d \in u64,
         NEW F, \A f \in F : f.reg = 1, Total(F) = a
  PROVE  Placed(<<a, b, d>>, F \cup Word(b, 2) \cup Word(d, 3))
<1>1. PICK s \in Seq(u64) :
        s = <<a, b, d>> /\ Len(s) = 3 /\ s[1] = a /\ s[2] = b /\ s[3] = d
  <2>1. /\ <<a, b, d>> \in Seq(u64) /\ Len(<<a, b, d>>) = 3
        /\ <<a, b, d>>[1] = a /\ <<a, b, d>>[2] = b /\ <<a, b, d>>[3] = d
    OBVIOUS
  <2> QED BY <2>1, Zenon
<1>2. Placed(s, F \cup UNION {Word(s[r], r) : r \in 2 .. Len(s)})
  <2>1. 1 <= Len(s) /\ Len(s) <= 17 /\ Total(F) = s[1]
    BY <1>1
  <2> QED BY <2>1, WordsPlaced
<1>3. 2 .. Len(s) = {2, 3}
  BY <1>1
<1>4. UNION {Word(s[r], r) : r \in {2, 3}} = Word(b, 2) \cup Word(d, 3)
  BY <1>1, Zenon
<1>5. F \cup UNION {Word(s[r], r) : r \in {2, 3}} = F \cup Word(b, 2) \cup Word(d, 3)
  BY <1>4
<1> QED BY <1>1, <1>2, <1>3, <1>5, Zenon

LEMMA FourPlaced ==
  ASSUME NEW a \in u64, NEW b \in u64, NEW d \in u64, NEW e \in u64,
         NEW F, \A f \in F : f.reg = 1, Total(F) = a
  PROVE  Placed(<<a, b, d, e>>, F \cup Word(b, 2) \cup Word(d, 3) \cup Word(e, 4))
<1>1. PICK s \in Seq(u64) :
        /\ s = <<a, b, d, e>> /\ Len(s) = 4
        /\ s[1] = a /\ s[2] = b /\ s[3] = d /\ s[4] = e
  <2>1. /\ <<a, b, d, e>> \in Seq(u64) /\ Len(<<a, b, d, e>>) = 4
        /\ <<a, b, d, e>>[1] = a /\ <<a, b, d, e>>[2] = b /\ <<a, b, d, e>>[3] = d /\ <<a, b, d, e>>[4] = e
    OBVIOUS
  <2> QED BY <2>1, Zenon
<1>2. Placed(s, F \cup UNION {Word(s[r], r) : r \in 2 .. Len(s)})
  <2>1. 1 <= Len(s) /\ Len(s) <= 17 /\ Total(F) = s[1]
    BY <1>1
  <2> QED BY <2>1, WordsPlaced
<1>3. 2 .. Len(s) = {2, 3, 4}
  BY <1>1
<1>4. UNION {Word(s[r], r) : r \in {2, 3, 4}} = Word(b, 2) \cup Word(d, 3) \cup Word(e, 4)
  BY <1>1, Zenon
<1>5. F \cup UNION {Word(s[r], r) : r \in {2, 3, 4}}
        = F \cup Word(b, 2) \cup Word(d, 3) \cup Word(e, 4)
  BY <1>4
<1> QED BY <1>1, <1>2, <1>3, <1>5, Zenon

\* Bytes in the order of their units.
LEMMA UnitsDiffer == \A i, j \in 1 .. 8 : Unit[i] = Unit[j] => i = j
<1>1. \A i \in 1 .. 8 : Unit[i] \in Nat \ {0}
  BY Units
<1>2. \A i \in 1 .. 7 : Unit[i] < Unit[i + 1]
  <2>1. ASSUME NEW i \in 1 .. 7 PROVE Unit[i] < Unit[i + 1]
    <3>1. PICK u \in Nat \ {0} : u = Unit[i] /\ Unit[i + 1] = u * BYTE
      BY <1>1, Units
    <3>2. u < u * BYTE
      BY Sizes
    <3> QED BY <3>1, <3>2
  <2> QED BY <2>1
<1>3. PICK u1, u2, u3, u4, u5, u6, u7, u8x \in Nat :
        /\ u1 = Unit[1] /\ u2 = Unit[2] /\ u3 = Unit[3] /\ u4 = Unit[4]
        /\ u5 = Unit[5] /\ u6 = Unit[6] /\ u7 = Unit[7] /\ u8x = Unit[8]
        /\ u1 < u2 /\ u2 < u3 /\ u3 < u4 /\ u4 < u5 /\ u5 < u6 /\ u6 < u7 /\ u7 < u8x
  <2>1. /\ Unit[1] < Unit[2] /\ Unit[2] < Unit[3] /\ Unit[3] < Unit[4]
        /\ Unit[4] < Unit[5] /\ Unit[5] < Unit[6] /\ Unit[6] < Unit[7]
        /\ Unit[7] < Unit[8]
    BY <1>2
  <2>2. /\ Unit[1] \in Nat /\ Unit[2] \in Nat /\ Unit[3] \in Nat /\ Unit[4] \in Nat
        /\ Unit[5] \in Nat /\ Unit[6] \in Nat /\ Unit[7] \in Nat /\ Unit[8] \in Nat
    BY <1>1
  <2> QED BY <2>1, <2>2, Zenon
<1>4. \A i \in 1 .. 8 : i = 1 \/ i = 2 \/ i = 3 \/ i = 4 \/ i = 5 \/ i = 6
                          \/ i = 7 \/ i = 8
  OBVIOUS
<1> QED BY <1>3, <1>4

LEMMA TotalBytes ==
  ASSUME NEW b \in [1 .. 8 -> u8], NEW r \in Nat
  PROVE  Total({[v |-> b[i], reg |-> r, unit |-> Unit[i]] : i \in 1 .. 8}) = from_le_bytes(b)
<1> DEFINE F == [i \in 1 .. 8 |-> [v |-> b[i], reg |-> r, unit |-> Unit[i]]]
<1>1. \A i \in 1 .. 8 : b[i] \in Nat /\ Unit[i] \in Nat
  BY Units, Sizes DEF u8
<1>2. F \in [1 .. 8 -> Fields]
  BY <1>1 DEF Fields
<1>3. \A i \in 1 .. 8 : F[i].unit = Unit[i] /\ Worth(F[i]) = b[i] * Unit[i]
  BY DEF Worth
<1>4. \A i, j \in 1 .. 8 : F[i] = F[j] => i = j
  BY <1>3, UnitsDiffer, Zenon
<1>5. {F[i] : i \in 1 .. 8} = {[v |-> b[i], reg |-> r, unit |-> Unit[i]] : i \in 1 .. 8}
  BY Zenon
<1> HIDE DEF F
<1>6. Total({F[i] : i \in 1 .. 8}) =
        Worth(F[1]) + Worth(F[2]) + Worth(F[3]) + Worth(F[4]) + Worth(F[5])
          + Worth(F[6]) + Worth(F[7]) + Worth(F[8])
  BY <1>2, <1>4, TotalEight
<1>7. Worth(F[1]) = b[1] /\ Worth(F[2]) = b[2] * Unit[2] /\ Worth(F[3]) = b[3] * Unit[3]
      /\ Worth(F[4]) = b[4] * Unit[4] /\ Worth(F[5]) = b[5] * Unit[5]
      /\ Worth(F[6]) = b[6] * Unit[6] /\ Worth(F[7]) = b[7] * Unit[7]
      /\ Worth(F[8]) = b[8] * Unit[8]
  <2>1. b[1] * Unit[1] = b[1]
    BY <1>1, Units
  <2>2. 1 \in 1 .. 8 /\ 2 \in 1 .. 8 /\ 3 \in 1 .. 8 /\ 4 \in 1 .. 8 /\ 5 \in 1 .. 8
        /\ 6 \in 1 .. 8 /\ 7 \in 1 .. 8 /\ 8 \in 1 .. 8
    OBVIOUS
  <2> QED BY <1>3, <2>1, <2>2, Zenon
<1> QED BY <1>5, <1>6, <1>7, Zenon DEF from_le_bytes

LEMMA TotalBigEndian ==
  ASSUME NEW v \in u64, NEW r \in Nat
  PROVE  Total(BigEndian(v, r)) = swap(v)
<1> DEFINE b == to_le_bytes(v)
           c == [i \in 1 .. 8 |-> b[9 - i]]
<1>1. b \in [1 .. 8 -> u8] /\ \A i \in 1 .. 8 : b[i] = (v \div Unit[i]) % BYTE
  <2>1. to_le_bytes(v) \in [1 .. REG_BYTES -> u8]
    BY BytesOf
  <2> QED BY <2>1 DEF REG_BYTES, to_le_bytes
<1> HIDE DEF b
<1>2. \A i \in 1 .. 8 : 9 - i \in 1 .. 8 /\ 9 - (9 - i) = i
  OBVIOUS
<1>3. c \in [1 .. 8 -> u8] /\ \A i \in 1 .. 8 : c[i] = b[9 - i]
  BY <1>1, <1>2
<1>4. swap(v) = from_le_bytes(c)
  BY DEF swap, REG_BYTES, b
<1> HIDE DEF c
<1>5. BigEndian(v, r) = {[v |-> c[i], reg |-> r, unit |-> Unit[i]] : i \in 1 .. 8}
  <2> DEFINE byte(i) == [v |-> c[i], reg |-> r, unit |-> Unit[i]]
  <2>1. \A i \in 1 .. 8 : 8 + 1 - i = 9 - i
    OBVIOUS
  <2>2. ASSUME NEW i \in 1 .. 8
        PROVE  Field((v \div Unit[i]) % BYTE, r, Unit[8 + 1 - i]) = {byte(9 - i)}
    <3>1. (v \div Unit[i]) % BYTE = c[9 - i]
      BY <1>1, <1>2, <1>3
    <3>2. Unit[8 + 1 - i] = Unit[9 - i]
      BY <2>1
    <3> QED BY <3>1, <3>2, Zenon DEF Field
  <2>3. BigEndian(v, r) =
          UNION {Field((v \div Unit[i]) % BYTE, r, Unit[8 + 1 - i]) : i \in 1 .. 8}
    BY Zenon DEF BigEndian, REG_BYTES
  <2> HIDE DEF byte
  <2>4. ASSUME NEW f \in BigEndian(v, r) PROVE \E j \in 1 .. 8 : f = byte(j)
    <3>1. PICK i \in 1 .. 8 : f \in Field((v \div Unit[i]) % BYTE, r, Unit[8 + 1 - i])
      BY <2>3, Zenon
    <3> QED BY <1>2, <2>2, <3>1, Zenon
  <2>5. ASSUME NEW j \in 1 .. 8 PROVE byte(j) \in BigEndian(v, r)
    <3>1. PICK i \in 1 .. 8 : i = 9 - j /\ 9 - i = j
      BY <1>2, Zenon
    <3>2. byte(j) \in Field((v \div Unit[i]) % BYTE, r, Unit[8 + 1 - i])
      BY <2>2, <3>1, Zenon
    <3> QED BY <2>3, <3>2, Zenon
  <2>6. BigEndian(v, r) = {byte(i) : i \in 1 .. 8}
    BY <2>4, <2>5, Zenon
  <2> QED BY <2>6, Zenon DEF byte
<1>6. Total({[v |-> c[i], reg |-> r, unit |-> Unit[i]] : i \in 1 .. 8}) = from_le_bytes(c)
  BY <1>3, TotalBytes
<1> QED BY <1>4, <1>5, <1>6, Zenon

LEMMA VersionPlaced ==
  ASSUME NEW c \in Version
  PROVE  Placed(into(c), Layout(c))
<1>1. c.fn = "Version" /\ c.major \in u16 /\ c.minor \in u16
  BY DEF Version
<1>2. PICK a \in u64 : a = combine_low_high_u16(c.minor, c.major)
  BY <1>1, Pair
<1>3. into(c) = <<a>>
  BY <1>1, <1>2 DEF into, Version_into
<1>4. PICK F : F = Halves(c.major, c.minor)
  OBVIOUS
<1>5. (\A f \in F : f.reg = 1) /\ Total(F) = a
  BY <1>1, <1>2, <1>4, AtFirst, TotalHalves
<1>6. Layout(c) = F
  BY <1>1, <1>4 DEF Layout
<1> QED BY <1>3, <1>5, <1>6, OnePlaced

LEMMA NotificationSetPlaced ==
  ASSUME NEW c \in NotificationSet
  PROVE  Placed(into(c), Layout(c))
<1>1. /\ c.fn = "NotificationSet" /\ c.sender_id \in u16 /\ c.receiver_id \in u16
      /\ c.flags \in u32 /\ c.notification_bitmap \in u64
  BY DEF NotificationSet
<1>2. PICK a \in u64, b \in u64, d \in u64, e \in u64 :
        /\ a = combine_low_high_u16(c.receiver_id, c.sender_id) /\ b = c.flags
        /\ d = low_u32(c.notification_bitmap) /\ e = high_u32(c.notification_bitmap)
        /\ d = c.notification_bitmap % U32 /\ e = c.notification_bitmap \div U32
  BY <1>1, Pair, Long, Widths
<1>3. into(c) = <<a, b, d, e>>
  BY <1>1, <1>2 DEF into, NotificationSet_into
<1>4. PICK F : F = Halves(c.sender_id, c.receiver_id)
  OBVIOUS
<1>5. (\A f \in F : f.reg = 1) /\ Total(F) = a
  BY <1>1, <1>2, <1>4, AtFirst, TotalHalves
<1>6. Layout(c) = F \cup Word(b, 2) \cup (Word(d, 3) \cup Word(e, 3 + 1))
  BY <1>1, <1>2, <1>4 DEF Layout, Split
<1>7. Layout(c) = F \cup Word(b, 2) \cup Word(d, 3) \cup Word(e, 4)
  BY <1>6
<1> QED BY <1>3, <1>5, <1>7, FourPlaced

LEMMA NotificationBindPlaced ==
  ASSUME NEW c \in NotificationBind
  PROVE  Placed(into(c), Layout(c))
<1>1. /\ c.fn = "NotificationBind" /\ c.sender_id \in u16 /\ c.receiver_id \in u16
      /\ c.flags \in DOMAIN NotificationBindFlags /\ c.notification_bitmap \in u64
  BY DEF NotificationBind
<1>2. PICK a \in u64, d \in u64, e \in u64 :
        /\ a = combine_low_high_u16(c.receiver_id, c.sender_id)
        /\ d = low_u32(c.notification_bitmap) /\ e = high_u32(c.notification_bitmap)
        /\ d = c.notification_bitmap % U32 /\ e = c.notification_bitmap \div U32
  BY <1>1, Pair, Long, Widths
<1>3. PICK b \in u64 : /\ b = NotificationBindFlags[c.flags]
                       /\ b = IF c.flags = "PerVCpu" THEN 1 ELSE 0
  BY <1>1, Sizes DEF NotificationBindFlags, u64
<1>4. into(c) = <<a, b, d, e>>
  BY <1>1, <1>2, <1>3 DEF into, NotificationBind_into
<1>5. PICK F : F = Halves(c.sender_id, c.receiver_id)
  OBVIOUS
<1>6. (\A f \in F : f.reg = 1) /\ Total(F) = a
  BY <1>1, <1>2, <1>5, AtFirst, TotalHalves
<1>7. Layout(c) = F \cup Word(b, 2) \cup (Word(d, 3) \cup Word(e, 3 + 1))
  BY <1>1, <1>2, <1>3, <1>5 DEF Layout, Split
<1>8. Layout(c) = F \cup Word(b, 2) \cup Word(d, 3) \cup Word(e, 4)
  BY <1>7
<1> QED BY <1>4, <1>6, <1>8, FourPlaced

LEMMA NotificationGetPlaced ==
  ASSUME NEW c \in NotificationGet
  PROVE  Placed(into(c), Layout(c))
<1>1. /\ c.fn = "NotificationGet" /\ c.receiver_cpu_id \in u16
      /\ c.receiver_endpoint_id \in u16 /\ c.flags \in u32
  BY DEF NotificationGet
<1>2. PICK a \in u64, b \in u64 :
        /\ a = combine_low_high_u16(c.receiver_endpoint_id, c.receiver_cpu_id)
        /\ b = c.flags
  BY <1>1, Pair, Widths
<1>3. into(c) = <<a, b>>
  BY <1>1, <1>2 DEF into, NotificationGet_into
<1>4. PICK F : F = Halves(c.receiver_cpu_id, c.receiver_endpoint_id)
  OBVIOUS
<1>5. (\A f \in F : f.reg = 1) /\ Total(F) = a
  BY <1>1, <1>2, <1>4, AtFirst, TotalHalves
<1>6. Layout(c) = F \cup Word(b, 2)
  BY <1>1, <1>2, <1>4 DEF Layout
<1> QED BY <1>3, <1>5, <1>6, TwoPlaced

LEMMA WordFirst ==
  ASSUME NEW v \in u64
  PROVE  (\A f \in Word(v, 1) : f.reg = 1) /\ Total(Word(v, 1)) = v
<1>1. v \in Nat
  BY Widths
<1> QED BY <1>1, TotalWord DEF Word, Field

LEMMA FeaturesPlaced ==
  ASSUME NEW c \in Features
  PROVE  Placed(into(c), Layout(c))
<1>1. c.fn = "Features" /\ c.feature_id \in u64 /\ c.input_properties \in u64
  BY DEF Features
<1>2. into(c) = <<c.feature_id, c.input_properties>>
  BY <1>1 DEF into, Features_into
<1>3. Layout(c) = Word(c.feature_id, 1) \cup Word(c.input_properties, 2)
  BY <1>1 DEF Layout
<1> QED BY <1>1, <1>2, <1>3, WordFirst, TwoPlaced

LEMMA RxTxMapPlaced ==
  ASSUME NEW c \in RxTxMap
  PROVE  Placed(into(c), Layout(c))
<1>1. /\ c.fn = "RxTxMap" /\ c.tx_address \in u64 /\ c.rx_address \in u64
      /\ c.page_count \in u64
  BY Widths DEF RxTxMap
<1>2. into(c) = <<c.tx_address, c.rx_address, c.page_count>>
  BY <1>1 DEF into, RxTxMap_into
<1>3. Layout(c) = Word(c.tx_address, 1) \cup Word(c.rx_address, 2) \cup Word(c.page_count, 3)
  BY <1>1 DEF Layout
<1> QED BY <1>1, <1>2, <1>3, WordFirst, ThreePlaced

LEMMA MemRetrieveReqPlaced ==
  ASSUME NEW c \in MemRetrieveReq
  PROVE  Placed(into(c), Layout(c))
<1>1. /\ c.fn = "MemRetrieveReq" /\ c.total_length \in u64 /\ c.frag_length \in u64
      /\ c.tx_address \in u64 /\ c.page_count \in u64
  BY DEF MemRetrieveReq
<1>2. into(c) = <<c.total_length, c.frag_length, c.tx_address, c.page_count>>
  BY <1>1 DEF into, MemRetrieveReq_into
<1>3. Layout(c) = Word(c.total_length, 1) \cup Word(c.frag_length, 2)
                    \cup Word(c.tx_address, 3) \cup Word(c.page_count, 4)
  BY <1>1 DEF Layout
<1> QED BY <1>1, <1>2, <1>3, WordFirst, FourPlaced

LEMMA InterruptPlaced ==
  ASSUME NEW c \in Interrupt
  PROVE  Placed(into(c), Layout(c))
<1>1. /\ c.fn = "Interrupt" /\ c.endpoint_id \in u16 /\ c.vcpu_id \in u16
      /\ c.interrupt_id \in u32
  BY DEF Interrupt
<1>2. PICK a \in u64, b \in u64 :
        a = combine_low_high_u16(c.vcpu_id, c.endpoint_id) /\ b = c.interrupt_id
  BY <1>1, Pair, Widths
<1>3. into(c) = <<a, b>>
  BY <1>1, <1>2 DEF into, Interrupt_into
<1>4. PICK F : F = Halves(c.endpoint_id, c.vcpu_id)
  OBVIOUS
<1>5. (\A f \in F : f.reg = 1) /\ Total(F) = a
  BY <1>1, <1>2, <1>4, AtFirst, TotalHalves
<1>6. Layout(c) = F \cup Word(b, 2)
  BY <1>1, <1>2, <1>4 DEF Layout
<1> QED BY <1>3, <1>5, <1>6, TwoPlaced

LEMMA MsgYieldPlaced ==
  ASSUME NEW c \in MsgYield
  PROVE  Placed(into(c), Layout(c))
<1>1. /\ c.fn = "MsgYield" /\ c.endpoint_id \in u16 /\ c.vcpu_id \in u16
      /\ c.timeout \in u64
  BY DEF MsgYield
<1>2. PICK a \in u64, b \in u64, d \in u64 :
        /\ a = combine_low_high_u16(c.vcpu_id, c.endpoint_id)
        /\ b = low_u32(c.timeout) /\ d = high_u32(c.timeout)
        /\ b = c.timeout % U32 /\ d = c.timeout \div U32
  BY <1>1, Pair, Long, Widths
<1>3. into(c) = <<a, b, d>>
  BY <1>1, <1>2 DEF into, MsgYield_into
<1>4. PICK F : F = Halves(c.endpoint_id, c.vcpu_id)
  OBVIOUS
<1>5. (\A f \in F : f.reg = 1) /\ Total(F) = a
  BY <1>1, <1>2, <1>4, AtFirst, TotalHalves
<1>6. Layout(c) = F \cup (Word(b, 2) \cup Word(d, 2 + 1))
  BY <1>1, <1>2, <1>4 DEF Layout, Split
<1>7. Layout(c) = F \cup Word(b, 2) \cup Word(d, 3)
  BY <1>6
<1> QED BY <1>3, <1>5, <1>7, ThreePlaced

LEMMA MsgSend2Placed ==
  ASSUME NEW c \in MsgSend2
  PROVE  Placed(into(c), Layout(c))
<1>1. c.fn = "MsgSend2" /\ c.sender_id \in u16 /\ c.flags \in u32 /\ 0 \in u16
  BY Sizes DEF MsgSend2, u16
<1>2. PICK a \in u64, b \in u64 : a = combine_low_high_u16(0, c.sender_id) /\ b = c.flags
  BY <1>1, Pair, Widths
<1>3. into(c) = <<a, b>>
  BY <1>1, <1>2 DEF into, MsgSend2_into
<1>4. PICK F : F = Halves(c.sender_id, 0)
  OBVIOUS
<1>5. (\A f \in F : f.reg = 1) /\ Total(F) = a
  BY <1>1, <1>2, <1>4, AtFirst, TotalHalves
<1>6. Layout(c) = F \cup Word(b, 2)
  BY <1>1, <1>2, <1>4 DEF Layout
<1> QED BY <1>3, <1>5, <1>6, TwoPlaced

\* The bytes of a payload that go into register 3 + k.
PayloadFields(payload) ==
  UNION {Field(payload[i], 4 + (i - 1) \div REG_BYTES, Unit[((i - 1) % REG_BYTES) + 1]) :
           i \in 1 .. PAYLOAD_LEN}

LEMMA PayloadPlaced ==
  ASSUME NEW payload \in Payload
  PROVE  /\ \A f \in PayloadFields(payload) : f.reg \in 4 .. 17
         /\ \A k \in 1 .. 14 :
              Total(At(PayloadFields(payload), 3 + k)) = registers_iter(payload)[k]
<1> DEFINE fld(i) == [v |-> payload[i], reg |-> 4 + (i - 1) \div 8,
                      unit |-> Unit[((i - 1) % 8) + 1]]
<1>1. PayloadFields(payload) = {fld(i) : i \in 1 .. 112}
  <2>1. PAYLOAD_LEN = 112 /\ REG_BYTES = 8
    BY DEF PAYLOAD_LEN, PAYLOAD_REGS, REG_BYTES
  <2> QED BY <2>1, Zenon DEF PayloadFields, Field
<1>2. \A i : fld(i).reg = 4 + (i - 1) \div 8
  OBVIOUS
<1>3. \A i \in 1 .. 112 : 4 + (i - 1) \div 8 \in 4 .. 17
  OBVIOUS
<1>4. \A f \in PayloadFields(payload) : f.reg \in 4 .. 17
  BY <1>1, <1>2, <1>3, Zenon
<1>5. ASSUME NEW k \in 1 .. 14
      PROVE  Total(At(PayloadFields(payload), 3 + k)) = registers_iter(payload)[k]
  <2> DEFINE b == [i \in 1 .. 8 |-> payload[8 * (k - 1) + i]]
             R == {[v |-> b[i], reg |-> 3 + k, unit |-> Unit[i]] : i \in 1 .. 8}
  <2>1. \A i \in 1 .. 8 :
          /\ 8 * (k - 1) + i \in 1 .. 112
          /\ 4 + ((8 * (k - 1) + i) - 1) \div 8 = 3 + k
          /\ (((8 * (k - 1) + i) - 1) % 8) + 1 = i
    OBVIOUS
  <2>2. \A i \in 1 .. 112 : 4 + (i - 1) \div 8 = 3 + k =>
          ((i - 1) % 8) + 1 \in 1 .. 8 /\ i = 8 * (k - 1) + (((i - 1) % 8) + 1)
    OBVIOUS
  <2>3. \A i \in 1 .. 8 :
          [v |-> b[i], reg |-> 3 + k, unit |-> Unit[i]] = fld(8 * (k - 1) + i)
    BY <2>1, Zenon
  <2>4. R \subseteq At(PayloadFields(payload), 3 + k)
    <3>1. \A i \in 1 .. 8 : fld(8 * (k - 1) + i) \in PayloadFields(payload)
      BY <1>1, <2>1, Zenon
    <3>2. \A i \in 1 .. 8 : [v |-> b[i], reg |-> 3 + k, unit |-> Unit[i]].reg = 3 + k
      OBVIOUS
    <3>3. SUFFICES ASSUME NEW i \in 1 .. 8
                   PROVE  [v |-> b[i], reg |-> 3 + k, unit |-> Unit[i]]
                            \in At(PayloadFields(payload), 3 + k)
      BY Zenon
    <3>4. PICK f : f = [v |-> b[i], reg |-> 3 + k, unit |-> Unit[i]]
      BY Zenon
    <3>5. f \in PayloadFields(payload) /\ f.reg = 3 + k
      BY <2>3, <3>1, <3>2, <3>4, Zenon
    <3> QED BY <3>4, <3>5, Zenon DEF At
  <2>5. At(PayloadFields(payload), 3 + k) \subseteq R
    <3>1. SUFFICES ASSUME NEW i \in 1 .. 112, fld(i).reg = 3 + k PROVE fld(i) \in R
      BY <1>1, Zenon DEF At
    <3>2. 4 + (i - 1) \div 8 = 3 + k
      BY <1>2, <3>1, Zenon
    <3>3. PICK j \in 1 .. 8 : i = 8 * (k - 1) + j
      BY <2>2, <3>2, Zenon
    <3> QED BY <2>3, <3>3, Zenon
  <2>6. b \in [1 .. 8 -> u8]
    BY <2>1 DEF Payload, PAYLOAD_LEN, PAYLOAD_REGS, REG_BYTES
  <2>7. registers_iter(payload)[k] = from_le_bytes(b)
    BY DEF registers_iter, REG_BYTES, PAYLOAD_REGS
  <2> HIDE DEF b
  <2>8. Total(R) = from_le_bytes(b)
    <3>1. 3 + k \in Nat
      OBVIOUS
    <3> QED BY <2>6, <3>1, TotalBytes
  <2> HIDE DEF R
  <2> QED BY <2>4, <2>5, <2>7, <2>8
<1> QED BY <1>4, <1>5

LEMMA DirectMessagePlaced ==
  ASSUME NEW c \in DirectMessage(Payload)
  PROVE  Placed(into(c), Layout(c))
<1>1. /\ c.fn \in {"MsgSendDirectReq2", "MsgSendDirectResp2"}
      /\ c.source_id \in u16 /\ c.destination_id \in u16
      /\ c.uuid_high \in u64 /\ c.uuid_low \in u64 /\ c.payload \in Payload
  BY DEF DirectMessage
<1>2. PICK a \in u64, b \in u64, d \in u64 :
        /\ a = combine_low_high_u16(c.destination_id, c.source_id)
        /\ b = swap(c.uuid_high) /\ d = swap(c.uuid_low)
  BY <1>1, Pair, Swapped
<1>3. PICK head \in Seq(u64) : /\ head = <<a, b, d>> /\ Len(head) = 3
                              /\ head[1] = a /\ head[2] = b /\ head[3] = d
  <2>1. /\ <<a, b, d>> \in Seq(u64) /\ Len(<<a, b, d>>) = 3
        /\ <<a, b, d>>[1] = a /\ <<a, b, d>>[2] = b /\ <<a, b, d>>[3] = d
    OBVIOUS
  <2> QED BY <2>1, Zenon
<1>4. PICK body \in Seq(u64) : body = registers_iter(c.payload) /\ Len(body) = 14
  BY <1>1, PayloadRegisters
<1>5. into(c) = head \o body
  BY <1>1, <1>2, <1>3, <1>4 DEF into, DirectMessage_into
<1>6. PICK s \in Seq(u64) : /\ s = head \o body /\ Len(s) = 17
                           /\ s[1] = a /\ s[2] = b /\ s[3] = d
                           /\ \A k \in 1 .. 14 : s[3 + k] = body[k]
  <2>1. /\ head \o body \in Seq(u64) /\ Len(head \o body) = Len(head) + Len(body)
        /\ \A i \in 1 .. Len(head) : (head \o body)[i] = head[i]
        /\ \A i \in 1 .. Len(body) : (head \o body)[Len(head) + i] = body[i]
    BY Appending
  <2>2. PICK s \in Seq(u64) : s = head \o body
    BY <2>1, Zenon
  <2>3. Len(s) = 17 /\ 1 \in 1 .. Len(head) /\ 2 \in 1 .. Len(head) /\ 3 \in 1 .. Len(head)
    BY <1>3, <1>4, <2>1, <2>2
  <2>4. s[1] = a /\ s[2] = b /\ s[3] = d
    BY <1>3, <2>1, <2>2, <2>3, Zenon
  <2>5. \A k \in 1 .. 14 : s[3 + k] = body[k]
    BY <1>3, <1>4, <2>1, <2>2, Zenon
  <2> QED BY <2>2, <2>3, <2>4, <2>5
<1>7. PICK A, B, D, E : /\ A = Halves(c.source_id, c.destination_id)
                        /\ B = BigEndian(c.uuid_high, 2) /\ D = BigEndian(c.uuid_low, 3)
                        /\ E = PayloadFields(c.payload)
  OBVIOUS
<1>8. PICK S : S = A \cup B \cup D \cup E
  OBVIOUS
<1>9. Layout(c) = S
  BY <1>1, <1>7, <1>8 DEF Layout, PayloadFields
<1>10. /\ \A f \in A : f.reg = 1
       /\ \A f \in B : f.reg = 2
       /\ \A f \in D : f.reg = 3
       /\ \A f \in E : f.reg \in 4 .. 17
  <2>1. \A v, r : \A f \in BigEndian(v, r) : f.reg = r
    BY DEF BigEndian, Field
  <2> QED BY <1>1, <1>7, <2>1, AtFirst, PayloadPlaced
<1>11. At(S, 1) = A /\ At(S, 2) = B /\ At(S, 3) = D
  <2>1. \A n \in 4 .. 17 : n # 1 /\ n # 2 /\ n # 3
    OBVIOUS
  <2>2. 1 # 2 /\ 1 # 3 /\ 2 # 3
    OBVIOUS
  <2> QED BY <1>8, <1>10, <2>1, <2>2, Zenon DEF At
<1>12. \A k \in 1 .. 14 : At(S, 3 + k) = At(E, 3 + k)
  <2>1. \A k \in 1 .. 14 : 3 + k # 1 /\ 3 + k # 2 /\ 3 + k # 3
    OBVIOUS
  <2> QED BY <1>8, <1>10, <2>1, Zenon DEF At
<1>13. ASSUME NEW r \in 1 .. Len(s) PROVE Total(At(S, r)) = s[r]
  <2>1. r = 1 \/ r = 2 \/ r = 3 \/ (r - 3 \in 1 .. 14 /\ 3 + (r - 3) = r)
    BY <1>6
  <2>2. CASE r = 1
    BY <1>1, <1>2, <1>6, <1>7, <1>11, <2>2, TotalHalves
  <2>3. CASE r = 2
    <3>1. Total(B) = b
      BY <1>1, <1>2, <1>7, TotalBigEndian
    <3> QED BY <1>6, <1>11, <2>3, <3>1
  <2>4. CASE r = 3
    <3>1. Total(D) = d
      BY <1>1, <1>2, <1>7, TotalBigEndian
    <3> QED BY <1>6, <1>11, <2>4, <3>1
  <2>5. CASE r - 3 \in 1 .. 14 /\ 3 + (r - 3) = r
    <3>1. Total(At(E, 3 + (r - 3))) = body[r - 3]
      BY <1>1, <1>4, <1>7, <2>5, PayloadPlaced
    <3> QED BY <1>6, <1>12, <2>5, <3>1, Zenon
  <2> QED BY <2>1, <2>2, <2>3, <2>4, <2>5
<1>14. \A f \in S : f.reg \in 1 .. Len(s)
  <2>1. 1 \in 1 .. 17 /\ 2 \in 1 .. 17 /\ 3 \in 1 .. 17 /\ \A n \in 4 .. 17 : n \in 1 .. 17
    OBVIOUS
  <2> QED BY <1>6, <1>8, <1>10, <2>1, Zenon
<1>15. Placed(s, S)
  <2>1. Len(s) <= 17
    BY <1>6
  <2> QED BY <1>13, <1>14, <2>1, Placing
<1> QED BY <1>5, <1>6, <1>9, <1>15

LEMMA AllPlaced ==
  ASSUME NEW c, WellTyped(c)
  PROVE  Placed(into(c), Layout(c))
BY VersionPlaced, NotificationSetPlaced, NotificationBindPlaced,
   NotificationGetPlaced, FeaturesPlaced, RxTxMapPlaced, MemRetrieveReqPlaced,
   InterruptPlaced, MsgYieldPlaced, MsgSend2Placed, DirectMessagePlaced
   DEF WellTyped, Payload

\* Whatever the fields, each encoder puts them where the tables of the ABI
\* have them, and leaves the other bits of all seventeen registers zero.
THEOREM LayoutCorrect == BoundarySpec => []LayoutHolds
<1>1. BoundaryInv => LayoutHolds
  <2>1. SUFFICES ASSUME BoundaryInv, phase = "smc", NEW r \in 1 .. PARAMS
                 PROVE  x[r] = Total(At(Layout(call), r))
    BY Zenon DEF LayoutHolds, Total, At
  <2>2. WellTyped(call) /\ x = try_from_iter(into(call))
    BY <2>1 DEF BoundaryInv, Underway
  <2>3. Placed(into(call), Layout(call))
    BY <2>2, AllPlaced
  <2> QED BY <2>2, <2>3 DEF Placed
<1> QED BY <1>1, BoundaryInductive, PTL DEF BoundarySpec

=============================================================================
