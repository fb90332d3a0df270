-------------------------- MODULE AutoIPScanProofs --------------------------
(***************************************************************************)
(* Proofs about AutoIPScan, for any ports and timeouts, any number of      *)
(* calls and datagrams, any number of octets of any number of bits.        *)
(*                                                                         *)
(* Traced follows a confirmation back to the assign it answers, over the   *)
(* socket, the network and the device.  Listing says where a reply that    *)
(* came in time is until it is in the list: in the socket, and then the    *)
(* time has not run out, or runs out while an earlier one is handled.      *)
(*                                                                         *)
(* The octets of the mask leave the bits of the host 0 (MaskOctet), those  *)
(* of the broadcast address have them 1 (OctetOfBroadcast), and the octets *)
(* so far are, as a number, those of the client with the host bits among   *)
(* them 1 (BroadcastNumber).  The induction over octets and bits is on     *)
(* sets of numbers: a set that has 0 and the successor of each member has  *)
(* every number, or the intervals up to those it lacks had a least one.    *)
(***************************************************************************)
EXTENDS AutoIPScan, SequenceTheorems, FiniteSetTheorems, WellFoundedInduction, TLAPS

-----------------------------------------------------------------------------
(* Induction and recursion *)

\* A set that has 0 and, with a number, the next one has every number.
LEMMA Induction ==
  ASSUME NEW S, 0 \in S, \A n \in Nat : n \in S => n + 1 \in S
  PROVE  Nat \subseteq S
<1> DEFINE Bad == {n \in Nat : n \notin S}
           Below == {1 .. n : n \in Bad}
<1> SUFFICES ASSUME Bad # {} PROVE FALSE
  OBVIOUS
<1>1. Below # {}
  OBVIOUS
<1>2. Below \subseteq FiniteSubsetsOf(Nat)
  <2>1. \A n \in Nat : IsFiniteSet(1 .. n) /\ 1 .. n \subseteq Nat
    BY FS_Interval
  <2>2. \A n \in Nat : 1 .. n \in FiniteSubsetsOf(Nat)
    BY <2>1 DEF FiniteSubsetsOf
  <2> QED  BY <2>2
<1>3. \A n \in Bad : n - 1 \in Bad
  OBVIOUS
<1>4. IsWellFoundedOn(StrictSubsetOrdering(Nat), FiniteSubsetsOf(Nat))
  BY FS_StrictSubsetOrderingWellFounded
<1>5. PICK x \in Below : \A y \in Below : <<y, x>> \notin StrictSubsetOrdering(Nat)
  <2> HIDE DEF Below
  <2> QED  BY <1>1, <1>2, <1>4, WFMin
<1>6. PICK n \in Bad : x = 1 .. n
  OBVIOUS
<1>7. 1 .. n - 1 \in Below
  BY <1>3
<1>8. n \in Nat /\ n # 0
  OBVIOUS
<1>9. n \in 1 .. n /\ n \notin 1 .. n - 1 /\ 1 .. n - 1 \subseteq 1 .. n /\ 1 .. n \subseteq Nat
  BY <1>8
<1> QED  BY <1>5, <1>6, <1>7, <1>9 DEF StrictSubsetOrdering

\* A function is defined by its value at 0 and a step from each value to the next.
LEMMA Recursion ==
  ASSUME NEW a \in Nat, NEW step \in [Nat \X Nat -> Nat]
  PROVE  \E f \in [Nat -> Nat] : f[0] = a /\ \A n \in Nat : f[n + 1] = step[<<n, f[n]>>]
<1> DEFINE Part(n) == {g \in [0 .. n -> Nat] : /\ g[0] = a
                                             /\ \A i \in 0 .. n - 1 : g[i + 1] = step[<<i, g[i]>>]}
<1>1. \A n \in Nat : Part(n) # {}
  <2> DEFINE S == {n \in Nat : Part(n) # {}}
  <2>1. 0 \in S
    <3>1. [i \in 0 .. 0 |-> a] \in Part(0)
      OBVIOUS
    <3> QED  BY <3>1
  <2>2. ASSUME NEW n \in Nat, n \in S PROVE n + 1 \in S
    <3>1. PICK g \in [0 .. n -> Nat] : g \in Part(n)
      BY <2>2
    <3> DEFINE h == [i \in 0 .. n + 1 |-> IF i <= n THEN g[i] ELSE step[<<n, g[n]>>]]
    <3>2. h \in [0 .. n + 1 -> Nat]
      OBVIOUS
    <3>3. h[0] = a
      BY <3>1
    <3>4. ASSUME NEW i \in 0 .. (n + 1) - 1 PROVE h[i + 1] = step[<<i, h[i]>>]
      <4>1. CASE i = n
        <5>1. h[n + 1] = step[<<n, g[n]>>] /\ h[n] = g[n]
          OBVIOUS
        <5> HIDE DEF h
        <5> QED  BY <4>1, <5>1
      <4>2. CASE i # n
        BY <3>1, <4>2
      <4> QED  BY <4>1, <4>2
    <3> HIDE DEF h
    <3>5. h \in Part(n + 1)
      BY <3>2, <3>3, <3>4
    <3> HIDE DEF Part
    <3> QED  BY <3>5
  <2> HIDE DEF S
  <2>3. Nat \subseteq S
    BY <2>1, <2>2, Induction
  <2> QED  BY <2>3 DEF S
<1>2. ASSUME NEW i \in Nat
      PROVE  \A n, m \in Nat : \A g \in Part(n), h \in Part(m) : i <= n /\ i <= m => g[i] = h[i]
  <2> DEFINE S == {j \in Nat : \A n, m \in Nat : \A g \in Part(n), h \in Part(m) :
                                 j <= n /\ j <= m => g[j] = h[j]}
  <2>1. 0 \in S
    OBVIOUS
  <2>2. ASSUME NEW j \in Nat, j \in S PROVE j + 1 \in S
    <3>1. ASSUME NEW n \in Nat, NEW m \in Nat, NEW g \in Part(n), NEW h \in Part(m),
                 j + 1 <= n, j + 1 <= m
          PROVE  g[j + 1] = h[j + 1]
      <4>1. j \in 0 .. n - 1 /\ j \in 0 .. m - 1 /\ j <= n /\ j <= m
        BY <3>1
      <4>2. g[j] = h[j]
        BY <2>2, <4>1
      <4>3. g[j + 1] = step[<<j, g[j]>>] /\ h[j + 1] = step[<<j, h[j]>>]
        BY <4>1
      <4> QED  BY <4>2, <4>3
    <3> HIDE DEF Part
    <3> QED  BY <3>1
  <2> HIDE DEF S
  <2>3. Nat \subseteq S
    BY <2>1, <2>2, Induction
  <2> QED  BY <2>3 DEF S
<1> DEFINE part == [n \in Nat |-> CHOOSE g \in Part(n) : TRUE]
           f == [n \in Nat |-> part[n][n]]
<1>3. \A n \in Nat : part[n] \in Part(n)
  BY <1>1
<1> HIDE DEF part
<1>4. f \in [Nat -> Nat]
  BY <1>3
<1>5. f[0] = a
  BY <1>3
<1>6. ASSUME NEW n \in Nat PROVE f[n + 1] = step[<<n, f[n]>>]
  <2>1. part[n + 1][n + 1] = step[<<n, part[n + 1][n]>>]
    BY <1>3
  <2>2. part[n + 1] \in Part(n + 1) /\ part[n] \in Part(n)
    BY <1>3
  <2> HIDE DEF Part
  <2>3. part[n + 1][n] = part[n][n]
    BY <1>2, <2>2
  <2> QED  BY <2>1, <2>3
<1> QED  BY <1>4, <1>5, <1>6

-----------------------------------------------------------------------------
(* Powers, quotients and bits *)

\* What the recursive TwoTo is.
LEMMA Powers ==
  /\ TwoTo \in [Nat -> Nat] /\ TwoTo[0] = 1
  /\ \A k \in Nat : TwoTo[k + 1] = 2 * TwoTo[k] /\ TwoTo[k] > 0
<1>1. /\ TwoTo \in [Nat -> Nat] /\ TwoTo[0] = 1
      /\ \A k \in Nat : TwoTo[k + 1] = 2 * TwoTo[k]
  <2>1. PICK f \in [Nat -> Nat] : f[0] = 1 /\ \A n \in Nat : f[n + 1] = 2 * f[n]
    <3>1. PICK step \in [Nat \X Nat -> Nat] : \A n, v \in Nat : step[<<n, v>>] = 2 * v
      <4>1. [x \in Nat \X Nat |-> 2 * x[2]] \in [Nat \X Nat -> Nat]
        OBVIOUS
      <4> QED  BY <4>1
    <3>2. 1 \in Nat
      OBVIOUS
    <3>3. \E f \in [Nat -> Nat] : f[0] = 1 /\ \A n \in Nat : f[n + 1] = step[<<n, f[n]>>]
      BY <3>2, Recursion
    <3> QED  BY <3>1, <3>3
  <2>2. \A k \in Nat : f[k] = IF k = 0 THEN 1 ELSE 2 * f[k - 1]
    BY <2>1
  <2>3. f = [k \in Nat |-> IF k = 0 THEN 1 ELSE 2 * f[k - 1]]
    BY <2>2
  <2>4. TwoTo = [k \in Nat |-> IF k = 0 THEN 1 ELSE 2 * TwoTo[k - 1]]
    BY <2>3 DEF TwoTo
  <2> DEFINE S == {k \in Nat : TwoTo[k] \in Nat}
  <2>5. 0 \in S
    BY <2>4
  <2>6. \A k \in Nat : TwoTo[k + 1] = 2 * TwoTo[k]
    BY <2>4
  <2>7. \A k \in Nat : k \in S => k + 1 \in S
    BY <2>6
  <2> HIDE DEF S
  <2>8. Nat \subseteq S
    BY <2>5, <2>7, Induction
  <2>9. \A k \in Nat : TwoTo[k] \in Nat
    BY <2>8 DEF S
  <2> QED  BY <2>4, <2>6, <2>9
<1> DEFINE S == {k \in Nat : TwoTo[k] > 0}
<1>2. 0 \in S
  BY <1>1
<1>3. \A k \in Nat : k \in S => k + 1 \in S
  BY <1>1
<1> HIDE DEF S
<1>4. Nat \subseteq S
  BY <1>2, <1>3, Induction
<1> QED  BY <1>1, <1>4 DEF S

LEMMA PowerOfSum == ASSUME NEW a \in Nat, NEW b \in Nat PROVE TwoTo[a + b] = TwoTo[a] * TwoTo[b]
<1> DEFINE S == {n \in Nat : TwoTo[a + n] = TwoTo[a] * TwoTo[n]}
<1>1. 0 \in S
  BY Powers
<1>2. ASSUME NEW n \in Nat, n \in S PROVE n + 1 \in S
  <2>1. TwoTo[a + (n + 1)] = 2 * TwoTo[a + n]
    <3>1. a + (n + 1) = (a + n) + 1 /\ a + n \in Nat
      OBVIOUS
    <3> QED  BY <3>1, Powers
  <2>2. TwoTo[n + 1] = 2 * TwoTo[n] /\ TwoTo[a + n] = TwoTo[a] * TwoTo[n] /\ TwoTo[a] \in Nat /\ TwoTo[n] \in Nat
    BY <1>2, Powers
  <2>3. \A x, y \in Nat : 2 * (x * y) = x * (2 * y)
    OBVIOUS
  <2>4. TwoTo[a + (n + 1)] = TwoTo[a] * TwoTo[n + 1]
    BY <2>1, <2>2, <2>3
  <2> QED  BY <2>4
<1> HIDE DEF S
<1>3. Nat \subseteq S
  BY <1>1, <1>2, Induction
<1> QED  BY <1>3 DEF S

\* A smaller power divides a larger one.
LEMMA PowerRatio ==
  ASSUME NEW a \in Nat, NEW b \in Nat, a <= b
  PROVE  /\ b - a \in Nat /\ TwoTo[a] \in Nat /\ TwoTo[b] \in Nat /\ TwoTo[b - a] \in Nat
         /\ TwoTo[b] = TwoTo[a] * TwoTo[b - a]
         /\ 0 < TwoTo[a] /\ 0 < TwoTo[b - a] /\ TwoTo[a] <= TwoTo[b]
<1>1. b - a \in Nat /\ a + (b - a) = b
  OBVIOUS
<1>2. TwoTo[b] = TwoTo[a] * TwoTo[b - a]
  BY <1>1, PowerOfSum
<1>3. TwoTo[a] \in Nat /\ TwoTo[b] \in Nat /\ TwoTo[b - a] \in Nat /\ 0 < TwoTo[a] /\ 0 < TwoTo[b - a]
  BY <1>1, Powers
<1>4. \A x, y \in Nat : y > 0 => x <= x * y
  OBVIOUS
<1> QED  BY <1>1, <1>2, <1>3, <1>4

LEMMA Division ==
  ASSUME NEW a \in Nat, NEW b \in Nat, b > 0
  PROVE  /\ a \div b \in Nat /\ a % b \in 0 .. b - 1
         /\ a = (a \div b) * b + (a % b)
<1>1. a \div b \in Nat
  OBVIOUS
<1>2. a % b \in 0 .. b - 1
  OBVIOUS
<1>3. a % b = a - (a \div b) * b
  OBVIOUS
<1> QED  BY <1>1, <1>2, <1>3

\* A quotient and a remainder are determined by the number they make.
LEMMA Quotient ==
  ASSUME NEW b \in Nat, NEW q \in Nat, NEW r \in Nat, r < b
  PROVE  (q * b + r) \div b = q /\ (q * b + r) % b = r
  OBVIOUS

\* The quotient and the remainder of x by D * T, from those by D.
LEMMA Digits ==
  \A D, T, n, x \in Nat : 0 < D /\ 0 < T /\ n = D * T
     => \E u, v, r \in Nat : /\ u = (x \div D) \div T /\ v = (x \div D) % T /\ r = x % D
                             /\ x \div n = u /\ x % n = v * D + r
<1> SUFFICES ASSUME NEW D \in Nat, NEW T \in Nat, NEW n \in Nat, NEW x \in Nat, 0 < D, 0 < T, n = D * T
             PROVE  \E u, v, r \in Nat : /\ u = (x \div D) \div T /\ v = (x \div D) % T /\ r = x % D
                                         /\ x \div n = u /\ x % n = v * D + r
  OBVIOUS
<1>0. PICK q, r \in Nat : q = x \div D /\ r = x % D /\ r < D /\ x = q * D + r
  <2>1. /\ x \div D \in Nat /\ x % D \in 0 .. D - 1
        /\ x = (x \div D) * D + (x % D)
    BY Division
  <2> QED  BY <2>1
<1>1. PICK u, v \in Nat : u = q \div T /\ v = q % T /\ v <= T - 1 /\ q = u * T + v
  BY Division
<1>2. x = u * (D * T) + (v * D + r)
  <2>1. (u * T + v) * D = u * (D * T) + v * D
    OBVIOUS
  <2> QED  BY <1>0, <1>1, <2>1
<1>3. v * D + r \in Nat /\ v * D + r < D * T /\ D * T \in Nat
  <2>1. v * D <= (T - 1) * D
    BY <1>1
  <2>2. (T - 1) * D = D * T - D
    OBVIOUS
  <2>3. D * T \in Nat /\ v * D \in Nat
    OBVIOUS
  <2> QED  BY <1>0, <2>1, <2>2, <2>3
<1>4. PICK s \in Nat : s = v * D + r /\ s < n
  BY <1>3
<1>5. (u * n + s) \div n = u /\ (u * n + s) % n = s
  BY <1>4, Quotient
<1> QED  BY <1>0, <1>1, <1>2, <1>4, <1>5

LEMMA HighDigits ==
  ASSUME NEW D \in Nat, NEW T \in Nat, NEW n \in Nat, NEW x \in Nat, 0 < D, 0 < T, n = D * T
  PROVE  x \div n = (x \div D) \div T
  BY Digits

LEMMA BitIsBit == ASSUME NEW a \in Nat, NEW k \in Nat PROVE Bit(a, k) \in {0, 1}
<1>1. TwoTo[k] \in Nat /\ TwoTo[k] > 0
  BY Powers
<1>2. PICK n \in Nat : n = a \div TwoTo[k]
  BY <1>1, Division
<1>3. n % 2 \in {0, 1}
  OBVIOUS
<1> QED  BY <1>2, <1>3 DEF Bit

\* The last d bits are all 1, and the others those of a number q.
LEMMA LowBits ==
  ASSUME NEW d \in Nat, NEW q \in Nat, NEW k \in Nat, k < d
  PROVE  Bit(q * TwoTo[d] + (TwoTo[d] - 1), k) = 1
<1>1. PICK K, S \in Nat : K = TwoTo[k] /\ TwoTo[d] = (2 * K) * S /\ K > 0 /\ S > 0
  <2>1. k + 1 \in Nat /\ k + 1 <= d /\ d - (k + 1) \in Nat
    OBVIOUS
  <2>2. TwoTo[d] = TwoTo[k + 1] * TwoTo[d - (k + 1)] /\ TwoTo[d - (k + 1)] \in Nat /\ TwoTo[d - (k + 1)] > 0
    BY <2>1, PowerRatio
  <2>3. TwoTo[k + 1] = 2 * TwoTo[k] /\ TwoTo[k] \in Nat /\ TwoTo[k] > 0
    BY Powers
  <2> QED  BY <2>2, <2>3
<1>2. PICK m \in Nat : m = q * S + (S - 1)
  <2>1. \A x, y \in Nat : x * y \in Nat
    OBVIOUS
  <2> QED  BY <1>1, <2>1
<1>3. q * TwoTo[d] + (TwoTo[d] - 1) = (m * 2 + 1) * K + (K - 1)
  <2>1. (m * 2 + 1) * K + (K - 1) = 2 * (m * K) + 2 * K - 1
    OBVIOUS
  <2>2. m * K = q * (S * K) + S * K - K
    BY <1>1, <1>2
  <2>3. q * ((2 * K) * S) + ((2 * K) * S - 1) = 2 * (q * (S * K)) + 2 * (S * K) - 1
    BY <1>1
  <2> QED  BY <1>1, <2>1, <2>2, <2>3
<1>4. PICK n \in Nat : n = m * 2 + 1
  OBVIOUS
<1>5. K - 1 \in Nat /\ K - 1 < K
  BY <1>1
<1>6. (n * K + (K - 1)) \div K = n
  BY <1>5, Quotient
<1>7. n % 2 = 1
  BY <1>4
<1> QED  BY <1>1, <1>3, <1>4, <1>6, <1>7 DEF Bit

\* The bits from bit d on are those of the quotient by 2^d.
LEMMA HighBits ==
  ASSUME NEW d \in Nat, NEW k \in Nat, NEW x \in Nat, NEW y \in Nat,
         d <= k, x \div TwoTo[d] = y \div TwoTo[d]
  PROVE  Bit(x, k) = Bit(y, k)
<1>1. PICK D, T, K \in Nat : D = TwoTo[d] /\ K = TwoTo[k] /\ K = D * T /\ 0 < D /\ 0 < T
  <2>1. /\ TwoTo[d] \in Nat /\ TwoTo[k] \in Nat /\ TwoTo[k - d] \in Nat
        /\ TwoTo[k] = TwoTo[d] * TwoTo[k - d] /\ 0 < TwoTo[d] /\ 0 < TwoTo[k - d]
    BY PowerRatio
  <2> QED  BY <2>1
<1>2. x \div K = (x \div D) \div T
  BY <1>1, HighDigits
<1>3. y \div K = (y \div D) \div T
  BY <1>1, HighDigits
<1> QED  BY <1>1, <1>2, <1>3 DEF Bit

\* Numbers with the same bits are the same number.
LEMMA BitsDecide ==
  ASSUME NEW a \in Nat, NEW b \in Nat, NEW n \in Nat,
         \A k \in 0 .. n - 1 : Bit(a, k) = Bit(b, k)
  PROVE  a % TwoTo[n] = b % TwoTo[n]
<1> DEFINE S == {m \in Nat : m <= n => a % TwoTo[m] = b % TwoTo[m]}
<1>1. 0 \in S
  <2>1. a % 1 = 0 /\ b % 1 = 0
    OBVIOUS
  <2> QED  BY <2>1, Powers
<1>2. ASSUME NEW x \in Nat, NEW m \in Nat
      PROVE  x % TwoTo[m + 1] = Bit(x, m) * TwoTo[m] + (x % TwoTo[m])
  <2>1. PICK D, n2 \in Nat : D = TwoTo[m] /\ D > 0 /\ n2 = TwoTo[m + 1] /\ n2 = D * 2
    BY Powers
  <2>2. PICK T \in Nat : T = 2
    OBVIOUS
  <2>3. 0 < D /\ 0 < T /\ n2 = D * T
    BY <2>1, <2>2
  <2>4. PICK v, r \in Nat : v = (x \div D) % T /\ r = x % D /\ x % n2 = v * D + r
    BY <2>3, Digits
  <2> QED  BY <2>1, <2>2, <2>4 DEF Bit
<1>3. ASSUME NEW m \in Nat, m \in S PROVE m + 1 \in S
  <2> SUFFICES ASSUME m + 1 <= n PROVE a % TwoTo[m + 1] = b % TwoTo[m + 1]
    OBVIOUS
  <2>1. a % TwoTo[m] = b % TwoTo[m] /\ Bit(a, m) = Bit(b, m)
    BY <1>3
  <2> QED  BY <1>2, <2>1
<1> HIDE DEF S
<1>4. Nat \subseteq S
  BY <1>1, <1>3, Induction
<1> QED  BY <1>4 DEF S

\* One more digit of a number; D is of the host.
LEMMA NetworkDigit ==
  \A O, D, T, v, x, u, y \in Nat :
    /\ 0 < D /\ O = D * T /\ u = v * O + x
    /\ y = v * O + ((x \div D) * D + (D - 1))
    => \E m \in Nat : m = u \div D /\ y = m * D + (D - 1)
<1> SUFFICES ASSUME NEW O \in Nat, NEW D \in Nat, NEW T \in Nat, NEW v \in Nat, NEW x \in Nat,
                    NEW u \in Nat, NEW y \in Nat, 0 < D, O = D * T, u = v * O + x,
                    y = v * O + ((x \div D) * D + (D - 1))
             PROVE  \E m \in Nat : m = u \div D /\ y = m * D + (D - 1)
  OBVIOUS
<1>1. PICK q, r \in Nat : q = x \div D /\ r = x % D /\ r < D /\ x = q * D + r
  <2>1. /\ x \div D \in Nat /\ x % D \in 0 .. D - 1
        /\ x = (x \div D) * D + (x % D)
    BY Division
  <2> QED  BY <2>1
<1>2. PICK m \in Nat : m = v * T + q
  <2>1. v * T \in Nat
    OBVIOUS
  <2> QED  BY <2>1
<1>3. m * D = v * O + q * D
  <2>1. (v * T + q) * D = v * (D * T) + q * D
    OBVIOUS
  <2> QED  BY <1>2, <2>1
<1>4. (m * D + r) \div D = m
  BY <1>1, Quotient
<1>5. u = m * D + r
  BY <1>1, <1>3
<1>6. u \div D = m
  BY <1>4, <1>5
<1>7. y = m * D + (D - 1)
  BY <1>1, <1>3
<1> QED  BY <1>6, <1>7

-----------------------------------------------------------------------------
(* Masks and octets *)

\* The host bits among the bits of octet i, and among those of the first i
\* octets, in an address whose last h bits are the host.
Rest(i) == (Octets - i) * OctetBits
FreeBits(h, i) ==
  IF h <= Rest(i) THEN 0 ELSE IF h >= Rest(i) + OctetBits THEN OctetBits ELSE h - Rest(i)
HostBits(h, i) == IF h <= Rest(i) THEN 0 ELSE h - Rest(i)

\* The bits before octet i, its own and those after it.
LEMMA Widths ==
  /\ Width \in Nat /\ OctetBits \in Nat /\ OctetBits <= Width
  /\ \A i \in 1 .. Octets :
       /\ Rest(i) \in Nat /\ (i - 1) * OctetBits \in Nat
       /\ Width = (i - 1) * OctetBits + OctetBits + Rest(i)
  /\ \A h \in 0 .. Width, i \in 1 .. Octets : FreeBits(h, i) \in 0 .. OctetBits
<1>1. Width \in Nat /\ OctetBits \in Nat
  BY AutoIPAssumption DEF Width
<1>2. \A n, b \in Nat : n > 0 => b <= n * b
  OBVIOUS
<1>3. OctetBits <= Width
  BY AutoIPAssumption, <1>2 DEF Width
<1>4. ASSUME NEW i \in 1 .. Octets
      PROVE  /\ Rest(i) \in Nat /\ (i - 1) * OctetBits \in Nat
             /\ Width = (i - 1) * OctetBits + OctetBits + Rest(i)
  <2>1. \A n, b \in Nat : n * b \in Nat
    OBVIOUS
  <2>2. i - 1 \in Nat /\ Octets - i \in Nat /\ OctetBits \in Nat /\ Octets \in Nat /\ i \in Nat
    BY AutoIPAssumption
  <2>3. \A n, k, b \in Nat : k * b + b + (n - (k + 1)) * b = n * b
    OBVIOUS
  <2>4. Width = (i - 1) * OctetBits + OctetBits + (Octets - ((i - 1) + 1)) * OctetBits
    BY <2>2, <2>3 DEF Width
  <2>5. (i - 1) + 1 = i
    BY <2>2
  <2> QED  BY <2>1, <2>2, <2>4, <2>5 DEF Rest
<1>5. \A h \in 0 .. Width, i \in 1 .. Octets : FreeBits(h, i) \in 0 .. OctetBits
  BY <1>1, <1>4 DEF FreeBits
<1> QED  BY <1>1, <1>3, <1>4, <1>5

\* The mask leaves the host bits of each octet 0.
LEMMA MaskOctet ==
  ASSUME NEW p \in 0 .. Width, NEW i \in 1 .. Octets
  PROVE  networkPrefixToMask(p)[i] = Octet - TwoTo[FreeBits(Width - p, i)]
<1> DEFINE h == Width - p
           s == (i - 1) * OctetBits
           e == Rest(i)
<1>1. /\ h \in Nat /\ h <= Width /\ s \in Nat /\ e \in Nat /\ OctetBits \in Nat /\ Width \in Nat
      /\ Width = s + OctetBits + e
  BY Widths
<1> DEFINE shifted == (HostPrefix(p) * TwoTo[s]) % TwoTo[Width]
<1>2. networkPrefixToMask(p)[i] = shifted \div TwoTo[Width - OctetBits]
  BY DEF networkPrefixToMask
<1> HIDE DEF h, s, e
<1>3. PICK W, H, S, E, B \in Nat :
        /\ W = TwoTo[Width] /\ H = TwoTo[h] /\ S = TwoTo[s] /\ E = TwoTo[Width - OctetBits] /\ B = Octet
        /\ W > 0 /\ H > 0 /\ S > 0 /\ E > 0 /\ B > 0
        /\ H <= W /\ W = E * B
  <2>1. Width - OctetBits \in Nat /\ OctetBits <= Width
    BY <1>1
  <2>2. /\ TwoTo[Width] \in Nat /\ TwoTo[h] \in Nat /\ TwoTo[s] \in Nat /\ TwoTo[Width - OctetBits] \in Nat
        /\ TwoTo[Width] > 0 /\ TwoTo[h] > 0 /\ TwoTo[s] > 0 /\ TwoTo[Width - OctetBits] > 0
        /\ Octet \in Nat /\ Octet > 0
    BY <1>1, <2>1, Powers DEF Octet
  <2>3. TwoTo[h] <= TwoTo[Width]
    BY <1>1, PowerRatio
  <2>4. TwoTo[Width] = TwoTo[Width - OctetBits] * Octet
    <3>1. TwoTo[Width] = TwoTo[OctetBits] * TwoTo[Width - OctetBits]
      BY <1>1, <2>1, PowerRatio
    <3> QED  BY <2>2, <3>1 DEF Octet
  <2> QED  BY <2>2, <2>3, <2>4
<1>4. HostPrefix(p) = W - H
  <2>1. HostPrefix(p) = ((W - 1) * H) % W
    BY <1>3 DEF HostPrefix, h
  <2>2. (W - 1) * H = (H - 1) * W + (W - H)
    BY <1>3
  <2>3. H - 1 \in Nat /\ W - H \in Nat /\ W - H < W
    BY <1>3
  <2>4. ((H - 1) * W + (W - H)) % W = W - H
    BY <1>3, <2>3, Quotient
  <2> QED  BY <2>1, <2>2, <2>4
<1>5. shifted = ((W - H) * S) % W
  BY <1>3, <1>4
<1> HIDE DEF shifted
<1>6. TwoTo[h + s] = H * S /\ h + s \in Nat
  BY <1>1, <1>3, PowerOfSum
<1>7. CASE h >= e + OctetBits
  <2>1. FreeBits(h, i) = OctetBits
    BY <1>1, <1>7 DEF FreeBits, e
  <2>2. PICK T \in Nat : H * S = W * T /\ T <= S
    <3>1. h + s - Width \in Nat /\ Width <= h + s /\ h + s - Width <= s
      BY <1>1, <1>7
    <3>2. TwoTo[h + s] = TwoTo[Width] * TwoTo[h + s - Width] /\ TwoTo[h + s - Width] \in Nat
      BY <1>1, <1>6, <3>1, PowerRatio
    <3>3. TwoTo[h + s - Width] <= TwoTo[s]
      BY <1>1, <3>1, PowerRatio
    <3> QED  BY <1>3, <1>6, <3>2, <3>3
  <2>3. (W - H) * S = (S - T) * W + 0 /\ S - T \in Nat
    <3>1. (W - H) * S = W * S - H * S
      BY <1>3
    <3>2. (S - T) * W + 0 = W * S - W * T
      BY <1>3, <2>2
    <3> QED  BY <1>3, <2>2, <3>1, <3>2
  <2>4. shifted = 0
    <3>1. ((S - T) * W + 0) % W = 0
      BY <1>3, <2>3, Quotient
    <3> QED  BY <1>5, <2>3, <3>1
  <2>5. (0 * E + 0) \div E = 0 /\ 0 * E + 0 = 0
    BY <1>3, Quotient
  <2>6. shifted \div E = 0
    BY <2>4, <2>5
  <2> QED  BY <1>2, <1>3, <2>1, <2>6 DEF Octet, h
<1>8. CASE h < e + OctetBits
  <2>1. PICK G \in Nat : G = H * S /\ 0 < G /\ G <= W
    <3>1. h + s <= Width
      BY <1>1, <1>8
    <3>2. TwoTo[h + s] \in Nat /\ 0 < TwoTo[h + s] /\ TwoTo[h + s] <= TwoTo[Width]
      BY <1>1, <1>6, <3>1, PowerRatio
    <3> QED  BY <1>3, <1>6, <3>2
  <2>2. shifted = W - G
    <3>1. (W - H) * S = (S - 1) * W + (W - G) /\ S - 1 \in Nat /\ W - G \in Nat /\ W - G < W
      <4>1. (W - H) * S = W * S - H * S
        OBVIOUS
      <4>2. (S - 1) * W + (W - G) = W * S - G
        OBVIOUS
      <4> QED  BY <1>3, <2>1, <4>1, <4>2
    <3>2. ((S - 1) * W + (W - G)) % W = W - G
      BY <1>3, <3>1, Quotient
    <3> QED  BY <1>5, <3>1, <3>2
  <2>3. CASE h <= e
    <3>1. FreeBits(h, i) = 0 /\ TwoTo[0] = 1
      BY <2>3, Powers DEF FreeBits, e
    <3>2. G <= E
      <4>1. h + s <= Width - OctetBits /\ Width - OctetBits \in Nat
        BY <1>1, <2>3
      <4>2. TwoTo[h + s] <= TwoTo[Width - OctetBits]
        BY <1>6, <4>1, PowerRatio
      <4> QED  BY <1>3, <1>6, <2>1, <4>2
    <3>3. W - G = (B - 1) * E + (E - G) /\ B - 1 \in Nat /\ E - G \in Nat /\ E - G < E
      BY <1>3, <2>1, <3>2
    <3>4. ((B - 1) * E + (E - G)) \div E = B - 1
      <4>1. PICK q, r \in Nat : q = B - 1 /\ r = E - G /\ r < E
        BY <3>3
      <4>2. E \in Nat
        OBVIOUS
      <4>3. (q * E + r) \div E = q
        BY <4>1, <4>2, Quotient
      <4> QED  BY <4>1, <4>3
    <3>5. shifted \div E = B - 1
      BY <2>2, <3>3, <3>4
    <3> QED  BY <1>2, <1>3, <3>1, <3>5 DEF h
  <2>4. CASE h > e
    <3>1. FreeBits(h, i) = h - e /\ h - e \in Nat /\ h - e <= OctetBits
      BY <1>1, <1>8, <2>4 DEF FreeBits, e
    <3>2. PICK D \in Nat : D = TwoTo[h - e] /\ G = E * D /\ D <= B
      <4>1. Width - OctetBits \in Nat /\ Width - OctetBits <= h + s /\ h + s - (Width - OctetBits) = h - e
        BY <1>1, <2>4
      <4>2. TwoTo[h + s] = TwoTo[Width - OctetBits] * TwoTo[h - e]
        <5>1. TwoTo[(Width - OctetBits) + (h - e)] = TwoTo[Width - OctetBits] * TwoTo[h - e]
          BY <3>1, <4>1, PowerOfSum
        <5>2. (Width - OctetBits) + (h - e) = h + s
          BY <1>1
        <5> QED  BY <5>1, <5>2
      <4>3. TwoTo[h - e] \in Nat /\ TwoTo[h - e] <= TwoTo[OctetBits]
        BY <1>1, <3>1, PowerRatio
      <4> QED  BY <1>3, <1>6, <2>1, <4>2, <4>3 DEF Octet
    <3>3. W - G = (B - D) * E + 0 /\ B - D \in Nat
      BY <1>3, <3>2
    <3>4. ((B - D) * E + 0) \div E = B - D
      <4>1. PICK q \in Nat : q = B - D
        BY <3>3
      <4>2. E \in Nat /\ 0 \in Nat /\ 0 < E
        BY <1>3
      <4>3. (q * E + 0) \div E = q
        BY <4>1, <4>2, Quotient
      <4> QED  BY <4>1, <4>3
    <3>5. shifted \div E = B - D
      BY <2>2, <3>3, <3>4
    <3> QED  BY <1>2, <1>3, <3>1, <3>2, <3>5 DEF h
  <2> QED  BY <1>1, <2>3, <2>4
<1> QED  BY <1>1, <1>7, <1>8

\* The octet of the broadcast address, for one whose last d bits are the host.
LEMMA OctetOfBroadcast ==
  ASSUME NEW d \in 0 .. OctetBits, NEW x \in 0 .. Octet - 1
  PROVE  /\ Or(Octet - 1 - (Octet - TwoTo[d]), x) = (x \div TwoTo[d]) * TwoTo[d] + (TwoTo[d] - 1)
         /\ Or(Octet - 1 - (Octet - TwoTo[d]), x) \in 0 .. Octet - 1
<1>0. OctetBits \in Nat
  BY AutoIPAssumption
<1>1. PICK D, T \in Nat : D = TwoTo[d] /\ Octet = D * T /\ D > 0 /\ T > 0 /\ Octet \in Nat
  <2>1. d \in Nat /\ d <= OctetBits
    BY <1>0
  <2>2. /\ TwoTo[d] \in Nat /\ Octet \in Nat /\ TwoTo[OctetBits - d] \in Nat
        /\ Octet = TwoTo[d] * TwoTo[OctetBits - d]
        /\ 0 < TwoTo[d] /\ 0 < TwoTo[OctetBits - d]
    BY <1>0, <2>1, PowerRatio DEF Octet
  <2> QED  BY <2>2
<1>2. PICK q, r \in Nat : q = x \div D /\ r = x % D /\ r < D /\ x = q * D + r
  <2>1. x \in Nat
    BY <1>1
  <2>2. /\ x \div D \in Nat /\ x % D \in 0 .. D - 1
        /\ x = (x \div D) * D + (x % D)
    BY <1>1, <2>1, Division
  <2> QED  BY <2>2
<1>3. PICK c \in Nat : c = q * D + (D - 1)
  <2>1. q * D \in Nat /\ D - 1 \in Nat
    BY <1>1
  <2> QED  BY <2>1
<1>4. c \in 0 .. Octet - 1
  <2>1. q * D <= x /\ x < D * T
    <3>1. x < Octet
      BY <1>1
    <3> QED  BY <1>1, <1>2, <3>1
  <2>2. q < T
    <3>1. ASSUME q >= T PROVE FALSE
      <4>1. q * D >= T * D
        BY <3>1
      <4> QED  BY <2>1, <4>1
    <3> QED  BY <3>1
  <2>3. q * D <= (T - 1) * D
    BY <1>1, <2>2
  <2>4. (T - 1) * D = D * T - D
    BY <1>1
  <2> QED  BY <1>1, <1>3, <2>3, <2>4
<1> DEFINE a == Octet - 1 - (Octet - TwoTo[d])
           isOr(y) == \A k \in 0 .. OctetBits - 1 : Bit(y, k) = 1 <=> Bit(a, k) = 1 \/ Bit(x, k) = 1
<1>5. a = 0 * D + (D - 1) /\ a \in Nat /\ x \in Nat /\ D - 1 \in Nat /\ D - 1 < D /\ d \in Nat
  BY <1>0, <1>1
<1> HIDE DEF a
<1>6. isOr(c)
  <2> SUFFICES ASSUME NEW k \in Nat PROVE Bit(c, k) = 1 <=> Bit(a, k) = 1 \/ Bit(x, k) = 1
    BY <1>0
  <2>1. CASE k < d
    <3>1. Bit(c, k) = 1
      BY <1>1, <1>3, <1>5, <2>1, LowBits
    <3>2. Bit(a, k) = 1
      BY <1>1, <1>5, <2>1, LowBits
    <3> QED  BY <3>1, <3>2
  <2>2. CASE d <= k
    <3>1. Bit(c, k) = Bit(x, k)
      <4>1. (q * D + (D - 1)) \div D = q
        BY <1>5, Quotient
      <4>2. c \div TwoTo[d] = x \div TwoTo[d]
        BY <1>1, <1>2, <1>3, <4>1
      <4> QED  BY <1>5, <2>2, <4>2, HighBits
    <3>2. Bit(a, k) = 0
      <4>1. Bit(a, k) = Bit(0, k)
        <5>1. 0 \in Nat /\ (0 * D + (D - 1)) \div D = 0
          BY <1>5, Quotient
        <5>2. (0 * D + 0) \div D = 0 /\ 0 * D + 0 = 0
          BY <1>1, Quotient
        <5>3. a \div TwoTo[d] = 0 \div TwoTo[d]
          BY <1>1, <1>5, <5>1, <5>2
        <5> QED  BY <1>5, <2>2, <5>1, <5>3, HighBits
      <4>2. PICK K \in Nat : K = TwoTo[k] /\ K > 0
        BY Powers
      <4>3. (0 * K + 0) \div K = 0 /\ 0 * K + 0 = 0
        BY <4>2, Quotient
      <4>4. 0 \div TwoTo[k] = 0 /\ 0 % 2 = 0
        BY <4>2, <4>3
      <4> QED  BY <4>1, <4>4 DEF Bit
    <3> QED  BY <3>1, <3>2
  <2> QED  BY <1>5, <2>1, <2>2
<1>7. ASSUME NEW y \in 0 .. Octet - 1, isOr(y) PROVE y = c
  <2>1. y \in Nat /\ c \in Nat /\ y < Octet /\ c < Octet
    BY <1>1, <1>4
  <2>2. \A k \in 0 .. OctetBits - 1 : Bit(y, k) = Bit(c, k)
    <3>1. ASSUME NEW k \in 0 .. OctetBits - 1 PROVE Bit(y, k) = Bit(c, k)
      <4>1. k \in Nat
        BY <1>0
      <4>2. Bit(y, k) \in {0, 1} /\ Bit(c, k) \in {0, 1}
        BY <2>1, <4>1, BitIsBit
      <4>3. Bit(y, k) = 1 <=> Bit(c, k) = 1
        BY <1>6, <1>7
      <4> QED  BY <4>2, <4>3
    <3> QED  BY <3>1
  <2>3. y % Octet = c % Octet
    BY <1>0, <2>1, <2>2, BitsDecide DEF Octet
  <2>4. PICK O \in Nat : O = Octet
    BY <1>1
  <2>5. (0 * O + y) % O = y /\ (0 * O + c) % O = c /\ 0 * O + y = y /\ 0 * O + c = c
    BY <2>1, <2>4, Quotient
  <2> QED  BY <2>3, <2>4, <2>5
<1>8. Or(a, x) = c
  <2>1. Or(a, x) = CHOOSE y \in 0 .. Octet - 1 : isOr(y)
    BY DEF Or
  <2> HIDE DEF isOr
  <2> QED  BY <1>4, <1>6, <1>7, <2>1
<1> QED  BY <1>1, <1>2, <1>3, <1>4, <1>8 DEF a

-----------------------------------------------------------------------------
(* The number of an address *)

\* What the recursive value of an address is.
LEMMA NumberDefined ==
  ASSUME NEW address \in [1 .. Octets -> Nat]
  PROVE  \E V \in [Nat -> Nat] : /\ V[0] = 0 /\ Number(address) = V[Octets]
                                 /\ \A i \in 0 .. Octets - 1 : V[i + 1] = V[i] * Octet + address[i + 1]
<1>0. Octets \in Nat /\ Octet \in Nat /\ 0 \in Nat
  BY AutoIPAssumption, Powers DEF Octet
<1> DEFINE digit == [i \in Nat |-> IF i \in 1 .. Octets THEN address[i] ELSE 0]
           step == [x \in Nat \X Nat |-> x[2] * Octet + digit[x[1] + 1]]
<1>1. digit \in [Nat -> Nat]
  OBVIOUS
<1>2. step \in [Nat \X Nat -> Nat]
  <2> HIDE DEF digit
  <2>1. \A n, v \in Nat : v * Octet \in Nat /\ digit[n + 1] \in Nat
    BY <1>0, <1>1
  <2>2. ASSUME NEW x \in Nat \X Nat PROVE x[2] * Octet + digit[x[1] + 1] \in Nat
    <3>1. PICK n, v \in Nat : n = x[1] /\ v = x[2]
      OBVIOUS
    <3>2. v * Octet \in Nat /\ digit[n + 1] \in Nat
      BY <2>1
    <3> QED  BY <3>1, <3>2
  <2> QED  BY <2>2
<1>3. PICK V \in [Nat -> Nat] : V[0] = 0 /\ \A n \in Nat : V[n + 1] = step[<<n, V[n]>>]
  <2> HIDE DEF step
  <2> QED  BY <1>0, <1>2, Recursion
<1>4. \A i \in 0 .. Octets - 1 : V[i + 1] = V[i] * Octet + address[i + 1]
  <2>1. ASSUME NEW i \in 0 .. Octets - 1 PROVE V[i + 1] = V[i] * Octet + address[i + 1]
    <3>1. i \in Nat /\ i + 1 \in 1 .. Octets /\ V[i] \in Nat
      BY <1>0
    <3>2. V[i + 1] = step[<<i, V[i]>>]
      BY <1>3, <3>1
    <3>3. step[<<i, V[i]>>] = V[i] * Octet + digit[i + 1]
      BY <3>1
    <3> QED  BY <3>1, <3>2, <3>3
  <2> QED  BY <2>1
<1> HIDE DEF step, digit
<1> DEFINE f == [i \in 0 .. Octets |-> V[i]]
           isValue(g) == g = [i \in 0 .. Octets |-> IF i = 0 THEN 0 ELSE g[i - 1] * Octet + address[i]]
           Value == CHOOSE g : isValue(g)
<1>5. \A i \in 0 .. Octets : V[i] = IF i = 0 THEN 0 ELSE V[i - 1] * Octet + address[i]
  <2>1. ASSUME NEW i \in 0 .. Octets, i # 0 PROVE V[i] = V[i - 1] * Octet + address[i]
    <3>1. i - 1 \in 0 .. Octets - 1 /\ (i - 1) + 1 = i
      BY <1>0, <2>1
    <3>2. V[(i - 1) + 1] = V[i - 1] * Octet + address[(i - 1) + 1]
      BY <1>4, <3>1
    <3> QED  BY <3>1, <3>2
  <2> QED  BY <1>3, <2>1
<1>6. isValue(f)
  <2>1. \A i \in 0 .. Octets : f[i] = IF i = 0 THEN 0 ELSE f[i - 1] * Octet + address[i]
    <3>1. \A i \in 0 .. Octets : i # 0 => i - 1 \in 0 .. Octets
      BY <1>0
    <3> QED  BY <1>5, <3>1
  <2> QED  BY <2>1
<1>7. isValue(Value)
  <2> HIDE DEF isValue
  <2> QED  BY <1>6
<1>8. \A i \in Nat : i <= Octets => Value[i] = V[i]
  <2> DEFINE S == {i \in Nat : i <= Octets => Value[i] = V[i]}
  <2> HIDE DEF Value
  <2>1. 0 \in S
    BY <1>0, <1>3, <1>7
  <2>2. ASSUME NEW i \in Nat, i \in S PROVE i + 1 \in S
    <3>1. CASE i + 1 <= Octets
      <4>1. i + 1 \in 0 .. Octets /\ i + 1 # 0 /\ (i + 1) - 1 = i
        BY <1>0, <3>1
      <4>2. Value[i + 1] = Value[i] * Octet + address[i + 1]
        BY <1>7, <4>1
      <4>3. V[i + 1] = V[i] * Octet + address[i + 1]
        BY <1>4, <1>0, <3>1
      <4>4. Value[i] = V[i]
        BY <2>2, <3>1, <1>0
      <4> QED  BY <4>2, <4>3, <4>4
    <3>2. CASE ~(i + 1 <= Octets)
      BY <3>2
    <3> QED  BY <3>1, <3>2
  <2> HIDE DEF S
  <2>3. Nat \subseteq S
    BY <2>1, <2>2, Induction
  <2> QED  BY <2>3 DEF S
<1>9. Number(address) = Value[Octets]
  BY DEF Number
<1> HIDE DEF Value
<1>10. Number(address) = V[Octets]
  BY <1>0, <1>8, <1>9
<1> QED  BY <1>3, <1>4, <1>10

\* An octet is all host, or the first one that has host bits, or has none.
LEMMA HostBitsOfOctet ==
  ASSUME NEW h \in 0 .. Width, NEW j \in 1 .. Octets
  PROVE  /\ HostBits(h, j - 1) \in Nat /\ HostBits(h, j) \in Nat
         /\ \/ FreeBits(h, j) = OctetBits /\ HostBits(h, j) = HostBits(h, j - 1) + OctetBits
            \/ FreeBits(h, j) = HostBits(h, j) /\ HostBits(h, j - 1) = 0
<1>1. Rest(j) \in Nat /\ OctetBits \in Nat /\ h \in Nat
  BY Widths
<1>2. Rest(j - 1) = Rest(j) + OctetBits
  <2>1. \A n, i, b \in Nat : (n - (i - 1)) * b = (n - i) * b + b
    OBVIOUS
  <2>2. Octets \in Nat /\ j \in Nat
    BY AutoIPAssumption
  <2> QED  BY <1>1, <2>1, <2>2 DEF Rest
<1> QED  BY <1>1, <1>2 DEF FreeBits, HostBits

\* The broadcast address is the last address of the network.
LEMMA BroadcastNumber ==
  ASSUME NEW p \in 0 .. Width, NEW ip \in Addresses
  PROVE  LET hosts == TwoTo[Width - p]
         IN  Number(BroadcastAddress(ip, networkPrefixToMask(p))) = (Number(ip) \div hosts) * hosts + hosts - 1
<1> DEFINE h == Width - p
           b == BroadcastAddress(ip, networkPrefixToMask(p))
           H(i) == TwoTo[HostBits(h, i)]
<1>1. h \in 0 .. Width /\ Octets \in Nat /\ OctetBits \in Nat /\ Octet \in Nat /\ 0 < Octet /\ Width \in Nat
  BY AutoIPAssumption, Widths, Powers DEF Octet
<1>2. ip \in [1 .. Octets -> Nat]
  BY <1>1 DEF Addresses
<1> HIDE DEF h
<1>3. ASSUME NEW j \in 1 .. Octets
      PROVE  LET D == TwoTo[FreeBits(h, j)]
             IN  b[j] = (ip[j] \div D) * D + (D - 1) /\ b[j] \in 0 .. Octet - 1
  <2>1. b[j] = Or(Octet - 1 - (Octet - TwoTo[FreeBits(h, j)]), ip[j])
    BY MaskOctet DEF BroadcastAddress, h
  <2>2. FreeBits(h, j) \in 0 .. OctetBits /\ ip[j] \in 0 .. Octet - 1
    BY <1>1, Widths DEF Addresses
  <2> HIDE DEF b
  <2> QED  BY <2>1, <2>2, OctetOfBroadcast
<1>4. b \in [1 .. Octets -> Nat]
  <2>1. b = [j \in 1 .. Octets |-> b[j]]
    BY DEF BroadcastAddress
  <2>2. \A j \in 1 .. Octets : b[j] \in Nat
    BY <1>1, <1>3
  <2> QED  BY <2>1, <2>2
<1> HIDE DEF b
<1>5. PICK V \in [Nat -> Nat] : /\ V[0] = 0 /\ Number(ip) = V[Octets]
                                /\ \A i \in 0 .. Octets - 1 : V[i + 1] = V[i] * Octet + ip[i + 1]
  BY <1>2, NumberDefined
<1>6. PICK W \in [Nat -> Nat] : /\ W[0] = 0 /\ Number(b) = W[Octets]
                                /\ \A i \in 0 .. Octets - 1 : W[i + 1] = W[i] * Octet + b[i + 1]
  BY <1>4, NumberDefined
<1> DEFINE S == {i \in Nat : i <= Octets => W[i] = (V[i] \div H(i)) * H(i) + (H(i) - 1)}
<1>7. 0 \in S
  <2>1. HostBits(h, 0) = 0
    <3>1. Rest(0) = Width
      BY <1>1 DEF Rest, Width
    <3> QED  BY <1>1, <3>1 DEF HostBits
  <2>2. H(0) = 1
    BY <2>1, Powers
  <2>3. 0 \div 1 = 0
    OBVIOUS
  <2> QED  BY <1>5, <1>6, <2>2, <2>3
<1>8. ASSUME NEW i \in Nat, i \in S PROVE i + 1 \in S
  <2> SUFFICES ASSUME i + 1 <= Octets
               PROVE  W[i + 1] = (V[i + 1] \div H(i + 1)) * H(i + 1) + (H(i + 1) - 1)
    OBVIOUS
  <2>1. i + 1 \in 1 .. Octets /\ i \in 0 .. Octets - 1 /\ i <= Octets /\ (i + 1) - 1 = i
    BY <1>1
  <2>2. ip[i + 1] \in 0 .. Octet - 1 /\ b[i + 1] \in Nat /\ ip[i + 1] \in Nat
    BY <1>2, <1>4, <2>1 DEF Addresses
  <2>3. PICK O \in Nat : O = Octet
    BY <1>1
  <2>4. PICK v \in Nat : v = V[i]
    OBVIOUS
  <2>5. PICK w \in Nat : w = W[i]
    OBVIOUS
  <2>6. PICK x \in Nat : x = ip[i + 1]
    BY <2>2
  <2>7. PICK c \in Nat : c = b[i + 1]
    BY <2>2
  <2>8. PICK u \in Nat : u = V[i + 1]
    OBVIOUS
  <2>9. PICK y \in Nat : y = W[i + 1]
    OBVIOUS
  <2>10. x < O /\ u = v * O + x /\ y = w * O + c
    BY <1>1, <1>5, <1>6, <2>1, <2>2, <2>3, <2>4, <2>5, <2>6, <2>7, <2>8, <2>9
  <2>11. /\ HostBits(h, i) \in Nat /\ HostBits(h, i + 1) \in Nat
        /\ \/ FreeBits(h, i + 1) = OctetBits /\ HostBits(h, i + 1) = HostBits(h, i) + OctetBits
           \/ FreeBits(h, i + 1) = HostBits(h, i + 1) /\ HostBits(h, i) = 0
    BY <1>1, <2>1, HostBitsOfOctet
  <2>12. PICK G, n \in Nat : G = H(i) /\ n = H(i + 1) /\ 0 < G /\ 0 < n
    BY <2>11, Powers
  <2>13. w = (v \div G) * G + (G - 1)
    BY <1>8, <2>1, <2>4, <2>5, <2>12
  <2>14. CASE FreeBits(h, i + 1) = OctetBits /\ HostBits(h, i + 1) = HostBits(h, i) + OctetBits
    <3>1. n = G * O
      <4>1. TwoTo[HostBits(h, i) + OctetBits] = TwoTo[HostBits(h, i)] * TwoTo[OctetBits]
        BY <1>1, <2>11, PowerOfSum
      <4> QED  BY <2>3, <2>12, <2>14, <4>1 DEF Octet
    <3>2. c = (x \div O) * O + (O - 1)
      BY <1>3, <2>1, <2>3, <2>6, <2>7, <2>14 DEF Octet
    <3>3. x \div O = 0
      <4>1. (0 * O + x) \div O = 0
        BY <2>10, Quotient
      <4> QED  BY <4>1
    <3>4. c = O - 1
      BY <3>2, <3>3
    <3>5. y = w * O + (O - 1)
      BY <2>10, <3>4
    <3>6. u \div O = v
      <4>1. (v * O + x) \div O = v
        BY <2>10, Quotient
      <4> QED  BY <2>10, <4>1
    <3>7. u \div n = (u \div O) \div G
      <4>1. 0 < O /\ n = O * G
        BY <2>10, <3>1
      <4> QED  BY <2>12, <4>1, HighDigits
    <3>8. PICK m \in Nat : m = v \div G
      BY <2>12, Division
    <3>9. y = m * n + (n - 1)
      <4>1. (m * G + (G - 1)) * O + (O - 1) = m * (G * O) + (G * O - 1)
        OBVIOUS
      <4> QED  BY <2>13, <3>1, <3>5, <3>8, <4>1
    <3> QED  BY <2>8, <2>9, <2>12, <3>6, <3>7, <3>8, <3>9
  <2>15. CASE FreeBits(h, i + 1) = HostBits(h, i + 1) /\ HostBits(h, i) = 0
    <3>1. G = 1
      BY <2>12, <2>15, Powers
    <3>2. w = v
      <4>1. v \div 1 = v
        OBVIOUS
      <4> QED  BY <2>13, <3>1, <4>1
    <3>3. c = (x \div n) * n + (n - 1)
      BY <1>3, <2>1, <2>6, <2>7, <2>12, <2>15
    <3>4. PICK T \in Nat : O = n * T
      <4>1. HostBits(h, i + 1) <= OctetBits
        BY <1>1, <2>1, <2>15, Widths
      <4>2. TwoTo[OctetBits] = TwoTo[HostBits(h, i + 1)] * TwoTo[OctetBits - HostBits(h, i + 1)]
            /\ TwoTo[OctetBits - HostBits(h, i + 1)] \in Nat
        BY <1>1, <2>11, <4>1, PowerRatio
      <4> QED  BY <2>3, <2>12, <4>2 DEF Octet
    <3>5. y = v * O + ((x \div n) * n + (n - 1)) /\ u = v * O + x /\ 0 < n
      BY <2>10, <2>12, <3>2, <3>3
    <3>6. PICK m \in Nat : m = u \div n /\ y = m * n + (n - 1)
      BY <3>4, <3>5, NetworkDigit
    <3> QED  BY <2>8, <2>9, <2>12, <3>6
  <2> QED  BY <2>11, <2>14, <2>15
<1> HIDE DEF S
<1>9. Nat \subseteq S
  BY <1>7, <1>8, Induction
<1>10. W[Octets] = (V[Octets] \div H(Octets)) * H(Octets) + (H(Octets) - 1)
  BY <1>1, <1>9 DEF S
<1>11. HostBits(h, Octets) = h
  <2>1. Rest(Octets) = 0
    BY <1>1 DEF Rest
  <2> QED  BY <1>1, <2>1 DEF HostBits
<1>12. PICK n, q \in Nat : n = TwoTo[h] /\ 0 < n /\ q = Number(ip) \div n
  <2>1. TwoTo[h] \in Nat /\ 0 < TwoTo[h] /\ Number(ip) \in Nat
    BY <1>1, <1>5, Powers, SMTT(30)
  <2>2. Number(ip) \div TwoTo[h] \in Nat
    BY <2>1, Division
  <2> QED  BY <2>1, <2>2
<1>13. Number(b) = q * n + (n - 1)
  BY <1>5, <1>6, <1>10, <1>11, <1>12
<1>14. q * n + (n - 1) = q * n + n - 1
  OBVIOUS
<1> QED  BY <1>12, <1>13, <1>14 DEF h, b

-----------------------------------------------------------------------------
(* The inductive invariant *)

USE AutoIPAssumption

Types ==
  /\ pc \in {"idle", "send", "check", "recv", "handle", "crashed"} /\ call \in 0 .. MaxCalls /\ port \in Ports
  /\ elapsed \in Nat /\ waited \in Nat
  /\ socket \in Seq(Datagrams) /\ deviceList \in Seq(Datagrams)
  /\ requests \subseteq Datagrams /\ replies \subseteq Datagrams
  /\ \A r \in replies : r.kind \in {"binary", "xml", "confirmation"}
  /\ pc # "idle" => op \in {"scan", "assign"} /\ call > 0

\* A confirmation comes of an assign that a device has executed.
Assigned(d) == <<d.call, d.port>> \in assigns /\ d.call \in configured

Traced ==
  /\ \A a \in assigns : a[1] \in 1 .. call
  /\ pc = "send" /\ op = "assign" => <<call, port>> \in assigns
  /\ \A r \in requests : r.kind # "scan" => <<r.call, r.port>> \in assigns
  /\ \A r \in replies : r.kind = "confirmation" => Assigned(r)
  /\ \A i \in 1 .. Len(socket) : socket[i].kind = "confirmation" => Assigned(socket[i]) /\ socket[i].port = port
  /\ ConfirmedMeansConfigured

Timely ==
  /\ pc = "send" => elapsed = 0
  /\ pc = "check" => elapsed <= TimeOut + RecvTimeout
  /\ pc = "recv" => elapsed <= TimeOut + waited /\ waited <= RecvTimeout
  /\ pc = "handle" => elapsed <= TimeOut + RecvTimeout + waited /\ waited <= HandlingTime

\* A reply that is still to be listed, and will be unless the time runs out while
\* an earlier one is handled.
Pending(d) == (elapsed <= TimeOut \/ pc = "handle") /\ \E i \in 1 .. Len(socket) : socket[i] = d

Listing ==
  /\ XmlEntriesAreOwn
  /\ pc \notin {"idle", "crashed"} =>
       \A d \in arrived : /\ op = "scan" /\ d.call = call /\ d.kind \in {"binary", "xml"}
                          /\ Listed(d) \/ Pending(d)

IInv == Types /\ Traced /\ Timely /\ Listing

-----------------------------------------------------------------------------
(* The socket and the list *)

LEMMA TakenFirst ==
  ASSUME NEW s \in Seq(Datagrams), s # <<>>
  PROVE  /\ Head(s) = s[1] /\ 1 \in 1 .. Len(s) /\ Head(s) \in Datagrams
         /\ Tail(s) \in Seq(Datagrams) /\ Len(Tail(s)) = Len(s) - 1
         /\ \A i \in 1 .. Len(Tail(s)) : i + 1 \in 1 .. Len(s) /\ Tail(s)[i] = s[i + 1]
         /\ \A i \in 1 .. Len(s) : i = 1 \/ (i - 1 \in 1 .. Len(Tail(s)) /\ Tail(s)[i - 1] = s[i])
  OBVIOUS

LEMMA AddedLast ==
  ASSUME NEW s \in Seq(Datagrams), NEW d \in Datagrams
  PROVE  /\ Append(s, d) \in Seq(Datagrams) /\ Len(Append(s, d)) = Len(s) + 1
         /\ DOMAIN s = 1 .. Len(s) /\ DOMAIN Append(s, d) = 1 .. Len(s) + 1 /\ Len(s) \in Nat
         /\ \A i \in 1 .. Len(s) : Append(s, d)[i] = s[i]
         /\ Append(s, d)[Len(s) + 1] = d
  OBVIOUS

LEMMA InitSafe == Init => IInv
<1> SUFFICES ASSUME Init PROVE IInv
  OBVIOUS
<1>1. Types
  <2>1. port \in Ports
    BY DEF Init
  <2>2. socket = <<>> /\ deviceList = <<>> /\ confirmed = FALSE
    BY DEF Init
  <2> QED  BY <2>1, <2>2 DEF Init, Types
<1>2. Traced
  BY DEF Init, Traced, ConfirmedMeansConfigured
<1>3. Timely /\ Listing
  BY DEF Init, Timely, Listing, XmlEntriesAreOwn
<1> QED  BY <1>1, <1>2, <1>3 DEF IInv

-----------------------------------------------------------------------------
(* Every step keeps the invariant *)

\* A datagram that arrives is one of the replies, damaged or not.
LEMMA Arrived ==
  ASSUME IInv, Arrive
  PROVE  \E d \in Datagrams : /\ socket' = Append(socket, d) /\ d.port = port
                              /\ d.kind = "confirmation" => Assigned(d)
                              /\ arrived' = IF InTime(d) THEN arrived \cup {d} ELSE arrived
<1>1. PICK r \in replies, k \in {"binary", "xml", "badXml", "badBinary", "confirmation"} :
        /\ k = "confirmation" => r.kind = "confirmation"
        /\ r.port = port /\ socket' = Append(socket, Datagram(k, r.port, r.call))
        /\ arrived' = IF InTime(Datagram(k, r.port, r.call))
                      THEN arrived \cup {Datagram(k, r.port, r.call)} ELSE arrived
  <2>1. PICK r \in replies : \E k \in Kinds(r.kind) :
          LET d == Datagram(k, r.port, r.call)
          IN  /\ r.port = port
              /\ socket' = Append(socket, d)
              /\ arrived' = IF InTime(d) THEN arrived \cup {d} ELSE arrived
    BY DEF Arrive
  <2>2. PICK k \in Kinds(r.kind) :
          /\ r.port = port /\ socket' = Append(socket, Datagram(k, r.port, r.call))
          /\ arrived' = IF InTime(Datagram(k, r.port, r.call))
                        THEN arrived \cup {Datagram(k, r.port, r.call)} ELSE arrived
    BY <2>1
  <2>3. r.kind \in {"binary", "xml", "confirmation"}
    BY DEF IInv, Types
  <2>4. /\ k \in {"binary", "xml", "badXml", "badBinary", "confirmation"}
        /\ k = "confirmation" => r.kind = "confirmation"
    BY <2>2, <2>3 DEF Kinds
  <2> QED  BY <2>2, <2>4
<1>2. r \in Datagrams /\ (r.kind = "confirmation" => Assigned(r))
  BY DEF IInv, Types, Traced
<1> DEFINE d == Datagram(k, r.port, r.call)
<1>3. d \in Datagrams /\ d.kind = k /\ d.port = r.port /\ d.call = r.call
  BY <1>2 DEF Datagram, Datagrams
<1>4. d.kind = "confirmation" => Assigned(d)
  BY <1>1, <1>2, <1>3 DEF Assigned
<1> HIDE DEF d
<1> QED  BY <1>1, <1>3, <1>4 DEF d

LEMMA Replied ==
  ASSUME IInv, DeviceReplies
  PROVE  \E r \in requests, k \in {"binary", "xml", "confirmation"} :
           /\ replies' = replies \cup {Datagram(k, r.port, r.call)}
           /\ Datagram(k, r.port, r.call) \in Datagrams
           /\ k = "confirmation" => r.kind # "scan" /\ r.call \in configured'
           /\ configured \subseteq configured'
           /\ UNCHANGED <<pc, op, call, port, elapsed, waited, socket, results, requests, history>>
<1>1. \A r \in requests : r \in Datagrams
  BY DEF IInv, Types
<1>2. \A r \in Datagrams, k \in {"binary", "xml", "confirmation"} : Datagram(k, r.port, r.call) \in Datagrams
  BY DEF Datagrams, Datagram
<1> QED  BY <1>1, <1>2 DEF DeviceReplies

LEMMA TypesStep == ASSUME IInv, [Next]_vars PROVE Types'
<1> USE DEF IInv, Types
<1>1. CASE doScan \/ assign
  <2>1. /\ call < MaxCalls /\ call' = call + 1 /\ call \in Nat
        /\ op' \in {"scan", "assign"} /\ pc' \in {"idle", "send"} /\ port' \in Ports
    BY <1>1 DEF doScan, assign, Call
  <2>2. /\ elapsed' = 0 /\ waited' = 0 /\ socket' = <<>> /\ deviceList' = <<>>
        /\ UNCHANGED <<requests, replies>>
    BY <1>1 DEF doScan, assign, Call, network
  <2> QED  BY <2>1, <2>2
<1>2. CASE assignRefused
  BY <1>2 DEF assignRefused, network
<1>3. CASE SendRequest
  <2>1. Datagram(op, port, call) \in Datagrams
    BY <1>3 DEF SendRequest, Datagram, Datagrams
  <2> QED  BY <1>3, <2>1 DEF SendRequest, results
<1>4. CASE Check
  <2>1. /\ pc \in {"check", "handle"} /\ pc' \in {"idle", "recv"} /\ waited' = 0
        /\ socket' = <<>> \/ socket' = socket
        /\ elapsed' = 0 \/ elapsed' = elapsed
        /\ UNCHANGED <<op, call, port, deviceList, requests, replies>>
    BY <1>4 DEF Check, Return, results, network
  <2>2. <<>> \in Seq(Datagrams) /\ socket \in Seq(Datagrams)
    OBVIOUS
  <2>3. socket' \in Seq(Datagrams)
    BY <2>1, <2>2, Zenon
  <2>4. elapsed' \in Nat /\ waited' \in Nat
    BY <2>1
  <2> QED  BY <2>1, <2>3, <2>4
<1>5. CASE Receive
  <2>1. /\ pc = "recv" /\ pc' \in {"idle", "handle"} /\ waited' = 0
        /\ socket' = <<>> \/ socket' = Tail(socket)
        /\ elapsed' = 0 \/ elapsed' = elapsed
        /\ deviceList' = deviceList \/ deviceList' = Append(deviceList, Head(socket))
        /\ UNCHANGED <<op, call, port, requests, replies>> /\ socket # <<>>
    BY <1>5 DEF Receive, Return, network
  <2>2. /\ Head(socket) \in Datagrams /\ Tail(socket) \in Seq(Datagrams)
        /\ Append(deviceList, Head(socket)) \in Seq(Datagrams)
        /\ <<>> \in Seq(Datagrams)
    BY <2>1, TakenFirst, AddedLast
  <2>3. socket' \in Seq(Datagrams) /\ deviceList' \in Seq(Datagrams)
    BY <2>1, <2>2, Zenon
  <2>4. elapsed' \in Nat /\ waited' \in Nat
    BY <2>1
  <2> QED  BY <2>1, <2>3, <2>4
<1>6. CASE RecvTimesOut \/ Tick \/ ParseAutoIPBinary
  BY <1>6 DEF RecvTimesOut, Tick, ParseAutoIPBinary, results, network
<1>7. CASE DeviceReplies
  <2>1. PICK r \in requests, k \in {"binary", "xml", "confirmation"} :
          /\ replies' = replies \cup {Datagram(k, r.port, r.call)}
          /\ Datagram(k, r.port, r.call) \in Datagrams
          /\ UNCHANGED <<pc, op, call, port, elapsed, waited, socket, deviceList, requests>>
    BY <1>7, Replied DEF results
  <2>2. Datagram(k, r.port, r.call).kind = k
    BY DEF Datagram
  <2> QED  BY <2>1, <2>2
<1>8. CASE Arrive
  <2>1. PICK d \in Datagrams : socket' = Append(socket, d)
    BY <1>8, Arrived
  <2>2. socket' \in Seq(Datagrams)
    BY <2>1, AddedLast
  <2>3. UNCHANGED <<pc, op, call, port, elapsed, waited, deviceList, requests, replies>>
    BY <1>8 DEF Arrive, results, network
  <2> QED  BY <2>2, <2>3
<1>9. CASE UNCHANGED vars
  BY <1>9 DEF vars, results, network
<1> QED  BY <1>1, <1>2, <1>3, <1>4, <1>5, <1>6, <1>7, <1>8, <1>9 DEF Next

LEMMA TimelyStep == ASSUME IInv, [Next]_vars PROVE Timely'
<1> USE DEF IInv, Types, Timely
<1>1. CASE doScan \/ assign \/ assignRefused
  BY <1>1 DEF doScan, assign, Call, assignRefused
<1>2. CASE SendRequest \/ Check \/ Receive \/ ParseAutoIPBinary \/ RecvTimesOut \/ Tick
  BY <1>2 DEF SendRequest, Check, Receive, Return, ParseAutoIPBinary, RecvTimesOut, Tick
<1>3. CASE DeviceReplies \/ Arrive \/ UNCHANGED vars
  BY <1>3 DEF DeviceReplies, Arrive, vars
<1> QED  BY <1>1, <1>2, <1>3 DEF Next

LEMMA TracedStep == ASSUME IInv, [Next]_vars PROVE Traced'
<1> USE DEF Traced
<1>1. Traced /\ Types
  BY DEF IInv
<1>2. CASE doScan \/ assign
  <2>1. /\ call' = call + 1 /\ call \in Nat /\ confirmed' = FALSE /\ socket' = <<>>
        /\ UNCHANGED <<requests, replies, configured>>
        /\ pc' \in {"idle", "send"}
        /\ assigns' = IF op' = "assign" /\ pc' = "send" THEN assigns \cup {<<call', port'>>} ELSE assigns
    BY <1>1, <1>2 DEF doScan, assign, Call, network, Types
  <2>2. assigns \subseteq assigns' /\ \A a \in assigns' : a \in assigns \/ a[1] = call'
    BY <2>1
  <2>3. \A a \in assigns' : a[1] \in 1 .. call'
    BY <1>1, <2>1, <2>2
  <2> QED  BY <1>1, <2>1, <2>2, <2>3 DEF Assigned, ConfirmedMeansConfigured
<1>3. CASE assignRefused
  BY <1>1, <1>3 DEF assignRefused, network, Types, Assigned, ConfirmedMeansConfigured
<1>4. CASE SendRequest
  <2>1. /\ pc = "send" /\ pc' = "check" /\ op \in {"scan", "assign"}
        /\ requests' \in {requests, requests \cup {Datagram(op, port, call)}}
        /\ UNCHANGED <<op, call, port, socket, confirmed, replies, configured, assigns>>
    BY <1>1, <1>4 DEF SendRequest, results, history, Types
  <2> QED  BY <1>1, <2>1 DEF Datagram, Assigned, ConfirmedMeansConfigured
<1>5. CASE Check \/ ParseAutoIPBinary \/ RecvTimesOut \/ Tick \/ UNCHANGED vars
  <2>1. /\ socket' \in {socket, <<>>} /\ (pc' = pc \/ pc' # "send")
        /\ UNCHANGED <<op, call, port, confirmed, requests, replies, configured, assigns>>
    BY <1>5 DEF Check, Return, ParseAutoIPBinary, RecvTimesOut, Tick, vars, results, network, history
  <2> QED  BY <1>1, <2>1 DEF Assigned, ConfirmedMeansConfigured
<1>6. CASE Receive
  <2>1. /\ socket # <<>> /\ socket \in Seq(Datagrams) /\ pc' # "send"
        /\ socket' \in {Tail(socket), <<>>}
        /\ confirmed' => Head(socket).kind = "confirmation"
        /\ UNCHANGED <<op, call, port, requests, replies, configured, assigns>>
    BY <1>1, <1>6 DEF Receive, Return, network, history, Types, Confirms
  <2>2. \A i \in 1 .. Len(socket') : \E j \in 1 .. Len(socket) : socket'[i] = socket[j]
    BY <2>1, TakenFirst
  <2>3. confirmed' => Assigned(Head(socket)) /\ Head(socket).port = port
    BY <1>1, <2>1, TakenFirst
  <2>4. ConfirmedMeansConfigured'
    <3> SUFFICES ASSUME confirmed'
                 PROVE  call \in configured \/ \E c \in configured : c < call /\ <<c, port>> \in assigns
      BY <2>1 DEF ConfirmedMeansConfigured
    <3> DEFINE c == Head(socket).call
    <3>1. <<c, port>> \in assigns /\ c \in configured /\ c \in Nat /\ call \in Nat
      BY <1>1, <2>1, <2>3, TakenFirst DEF Assigned, Datagrams, Types
    <3>2. c <= call
      BY <1>1, <3>1
    <3> QED  BY <3>1, <3>2
  <2> QED  BY <1>1, <2>1, <2>2, <2>4 DEF Assigned
<1>7. CASE DeviceReplies
  <2>1. PICK r \in requests, k \in {"binary", "xml", "confirmation"} :
          /\ replies' = replies \cup {Datagram(k, r.port, r.call)}
          /\ k = "confirmation" => r.kind # "scan" /\ r.call \in configured'
          /\ configured \subseteq configured'
          /\ UNCHANGED <<pc, op, call, port, socket, confirmed, requests, assigns>>
    BY <1>7, Replied DEF results, history
  <2> DEFINE new == Datagram(k, r.port, r.call)
  <2>2. new.kind = k /\ new.call = r.call /\ new.port = r.port /\ \A d \in replies' : d \in replies \/ d = new
    BY <2>1 DEF Datagram
  <2> HIDE DEF new
  <2>3. k = "confirmation" => <<new.call, new.port>> \in assigns' /\ new.call \in configured'
    BY <1>1, <2>1, <2>2
  <2>4. \A d : Assigned(d) => Assigned(d)'
    BY <2>1 DEF Assigned
  <2>5. \A d \in replies' : d.kind = "confirmation" => <<d.call, d.port>> \in assigns' /\ d.call \in configured'
    BY <1>1, <2>1, <2>2, <2>3 DEF Assigned
  <2>6. ConfirmedMeansConfigured'
    BY <1>1, <2>1 DEF ConfirmedMeansConfigured
  <2> QED  BY <1>1, <2>1, <2>4, <2>5, <2>6 DEF Assigned
<1>8. CASE Arrive
  <2>1. PICK d \in Datagrams : /\ socket' = Append(socket, d) /\ d.port = port
                               /\ d.kind = "confirmation" => Assigned(d)
    BY <1>8, Arrived
  <2>2. UNCHANGED <<pc, op, call, port, confirmed, requests, replies, configured, assigns>>
    BY <1>8 DEF Arrive, results, network
  <2>3. \A i \in 1 .. Len(socket') : socket'[i] = d \/ (i \in 1 .. Len(socket) /\ socket'[i] = socket[i])
    BY <1>1, <2>1, AddedLast DEF Types
  <2> QED  BY <1>1, <2>1, <2>2, <2>3 DEF Assigned, ConfirmedMeansConfigured
<1> QED  BY <1>2, <1>3, <1>4, <1>5, <1>6, <1>7, <1>8 DEF Next

LEMMA ListingStep == ASSUME IInv, [Next]_vars PROVE Listing'
<1> USE DEF Listing
<1>1. Listing /\ Types
  BY DEF IInv
<1>2. CASE doScan \/ assign \/ assignRefused
  BY <1>2 DEF doScan, assign, Call, assignRefused, XmlEntriesAreOwn
<1>3. CASE pc' \in {"idle", "crashed"} /\ UNCHANGED <<deviceList, call>>
  BY <1>1, <1>3 DEF XmlEntriesAreOwn
<1>4. CASE SendRequest \/ RecvTimesOut
  <2>1. /\ UNCHANGED <<op, call, deviceList, arrived, elapsed, socket>>
        /\ pc \in {"send", "recv"}
    BY <1>4 DEF SendRequest, RecvTimesOut, results, history
  <2> QED  BY <1>1, <2>1 DEF XmlEntriesAreOwn, Listed, Pending
<1>5. CASE Check
  <2>1. /\ UNCHANGED <<op, call, deviceList, arrived>> /\ elapsed \in Nat /\ pc \in {"check", "handle"}
        /\ pc' = "idle" \/ (elapsed <= TimeOut /\ elapsed' = elapsed /\ socket' = socket)
    BY <1>1, <1>5 DEF Check, Return, results, history, Types
  <2>2. CASE pc' = "idle"
    BY <1>3, <2>1, <2>2
  <2>3. CASE elapsed <= TimeOut /\ elapsed' = elapsed /\ socket' = socket
    BY <1>1, <2>1, <2>3 DEF XmlEntriesAreOwn, Listed, Pending
  <2> QED  BY <2>1, <2>2, <2>3
<1>6. CASE Tick
  <2>1. UNCHANGED <<pc, op, call, deviceList, arrived, socket>> /\ pc \in {"recv", "handle"}
    BY <1>6 DEF Tick, results, history
  <2>2. pc = "handle" \/ socket = <<>>
    BY <1>6 DEF Tick
  <2> QED  BY <1>1, <2>1, <2>2 DEF XmlEntriesAreOwn, Listed, Pending
<1>7. CASE DeviceReplies \/ UNCHANGED vars
  <2>1. UNCHANGED <<op, call, deviceList, arrived, elapsed, socket, pc>>
    BY <1>7, Replied DEF results, history, vars
  <2> QED  BY <1>1, <2>1 DEF XmlEntriesAreOwn, Listed, Pending
<1>8. CASE Receive
  <2>0. PICK d : d = Head(socket)
    OBVIOUS
  <2>1. /\ socket # <<>> /\ socket \in Seq(Datagrams) /\ deviceList \in Seq(Datagrams)
        /\ UNCHANGED <<op, call, arrived>> /\ pc = "recv" /\ pc' \in {"idle", "handle"}
        /\ deviceList' = IF op = "scan" /\ Lists(d) THEN Append(deviceList, d) ELSE deviceList
        /\ op = "scan" => socket' = Tail(socket) /\ pc' = "handle"
    BY <1>1, <1>8, <2>0 DEF Receive, Return, Types, history
  <2>2. d \in Datagrams /\ d = socket[1]
    BY <2>0, <2>1, TakenFirst
  <2>3. DOMAIN deviceList \subseteq DOMAIN deviceList' /\ \A i \in DOMAIN deviceList : deviceList'[i] = deviceList[i]
    BY <2>1, <2>2, AddedLast
  <2>4. /\ \A i \in DOMAIN deviceList' : i \in DOMAIN deviceList \/ (Lists(d) /\ deviceList'[i] = d)
        /\ op = "scan" /\ Lists(d) => Listed(d)'
    BY <2>1, <2>2, AddedLast DEF Listed
  <2>5. XmlEntriesAreOwn'
    BY <1>1, <2>1, <2>3, <2>4 DEF XmlEntriesAreOwn, Lists
  <2>6. ASSUME NEW a \in arrived PROVE Listed(a)' \/ (op = "scan" /\ Pending(a)')
    <3>1. CASE Listed(a)
      BY <2>3, <3>1 DEF Listed
    <3>2. CASE Pending(a)
      <4>1. op = "scan" /\ a.call = call /\ a.kind \in {"binary", "xml"}
        BY <1>1, <2>1
      <4>2. PICK i \in 1 .. Len(socket) : socket[i] = a
        BY <3>2 DEF Pending
      <4>3. CASE i = 1
        BY <2>2, <2>4, <4>1, <4>2, <4>3 DEF Lists
      <4>4. CASE i # 1
        <5>1. i - 1 \in 1 .. Len(socket') /\ socket'[i - 1] = a
          <6>1. socket # <<>> /\ socket \in Seq(Datagrams) /\ socket' = Tail(socket)
            BY <2>1, <4>1
          <6>2. \A j \in 1 .. Len(socket) :
                  j = 1 \/ (j - 1 \in 1 .. Len(Tail(socket)) /\ Tail(socket)[j - 1] = socket[j])
            BY <6>1, TakenFirst, Zenon
          <6> QED  BY <4>2, <4>4, <6>1, <6>2
        <5> QED  BY <2>1, <4>1, <5>1 DEF Pending
      <4> QED  BY <4>3, <4>4
    <3> QED  BY <1>1, <2>1, <3>1, <3>2
  <2>7. \A a \in arrived : op = "scan" /\ a.call = call /\ a.kind \in {"binary", "xml"}
    BY <1>1, <2>1
  <2> QED  BY <2>1, <2>5, <2>6, <2>7
<1>9. CASE Arrive
  <2>1. PICK d \in Datagrams : /\ socket' = Append(socket, d)
                               /\ arrived' = IF InTime(d) THEN arrived \cup {d} ELSE arrived
    BY <1>9, Arrived
  <2>2. UNCHANGED <<pc, op, call, elapsed, deviceList>> /\ pc \notin {"idle", "crashed"}
    BY <1>9 DEF Arrive, results
  <2>3. /\ Len(socket') = Len(socket) + 1 /\ socket'[Len(socket) + 1] = d /\ Len(socket) \in Nat
        /\ \A i \in 1 .. Len(socket) : socket'[i] = socket[i]
    BY <1>1, <2>1, AddedLast DEF Types
  <2>4. \A a \in arrived : Pending(a) => Pending(a)'
    BY <2>2, <2>3 DEF Pending
  <2>5. InTime(d) => op = "scan" /\ d.call = call /\ d.kind \in {"binary", "xml"} /\ Pending(d)'
    BY <2>2, <2>3 DEF InTime, Pending
  <2> QED  BY <1>1, <2>1, <2>2, <2>4, <2>5 DEF XmlEntriesAreOwn, Listed
<1>10. CASE ParseAutoIPBinary
  BY <1>3, <1>10 DEF ParseAutoIPBinary, results
<1> QED  BY <1>2, <1>4, <1>5, <1>6, <1>7, <1>8, <1>9, <1>10 DEF Next

-----------------------------------------------------------------------------
(* The theorems *)

\* The invariant holds of every state.
THEOREM Inductive == Spec => []IInv
<1>1. IInv /\ [Next]_vars => IInv'
  BY TypesStep, TracedStep, TimelyStep, ListingStep DEF IInv
<1> QED  BY InitSafe, <1>1, PTL DEF Spec

\* What assign returns true for has been executed by a device
\* (VisionaryAutoIPScan.cpp:623), however late its answer came.
THEOREM ConfirmedIsExecuted == Spec => []ConfirmedMeansConfigured
<1>1. IInv => ConfirmedMeansConfigured
  BY DEF IInv, Traced
<1> QED  BY <1>1, Inductive, PTL

\* A scan lists no XML reply to another scan (VisionaryAutoIPScan.cpp:150).
THEOREM XmlIsOwn == Spec => []XmlEntriesAreOwn
<1>1. IInv => XmlEntriesAreOwn
  BY DEF IInv, Listing
<1> QED  BY <1>1, Inductive, PTL

\* A call ends at a look at the clock, or with the confirmation of an assign.
LEMMA Ends ==
  ASSUME [Next]_vars, pc # "idle", pc' = "idle"
  PROVE  (Check /\ elapsed > TimeOut) \/ (Receive /\ op = "assign" /\ confirmed')
  BY DEF Next, doScan, assign, Call, assignRefused, SendRequest, Check, Receive, ParseAutoIPBinary,
     RecvTimesOut, Tick, DeviceReplies, Arrive, vars

LEMMA MissesNone ==
  ASSUME IInv, [Next]_vars, pc # "idle", pc' = "idle", op = "scan", NEW d \in arrived
  PROVE  Listed(d)' \/ (pc = "handle" /\ elapsed > TimeOut /\ Queued(d))
<1>1. Check /\ elapsed > TimeOut
  BY Ends
<1>2. pc \in {"check", "handle"} /\ deviceList' = deviceList /\ elapsed \in Nat
  BY <1>1 DEF Check, results, IInv, Types
<1>3. Listed(d) \/ Pending(d)
  BY <1>2 DEF IInv, Listing
<1>4. Pending(d) => Queued(d)
  BY DEF Pending, Queued, IInv, Types
<1> QED  BY <1>1, <1>2, <1>3, <1>4 DEF Listed, Pending

\* A reply that came in time is listed when the scan returns, unless the time
\* passed while an earlier one was handled and this one was still in the socket
\* (VisionaryAutoIPScan.cpp:121-177).
THEOREM NoneMissed == Spec => NoReplyMissed
<1>1. IInv /\ [Next]_vars
        => [(pc # "idle" /\ pc' = "idle" /\ op = "scan")
              => \A d \in arrived : Listed(d)' \/ (pc = "handle" /\ elapsed > TimeOut /\ Queued(d))]_vars
  BY MissesNone
<1> QED  BY <1>1, Inductive, PTL DEF Spec, NoReplyMissed

LEMMA TimeStep ==
  ASSUME IInv, [Next]_vars, pc \in {"check", "recv", "handle"}, pc' = "idle", ~confirmed'
  PROVE  elapsed > TimeOut /\ elapsed <= TimeOut + RecvTimeout + HandlingTime
<1>1. Check /\ elapsed > TimeOut
  BY Ends
<1> QED  BY <1>1 DEF Check, IInv, Types, Timely

\* A call without a confirmation takes longer than its timeout, and at most one
\* receive timeout and the handling of one datagram more
\* (VisionaryAutoIPScan.cpp:126-132).
THEOREM BoundedTime == Spec => TakesItsTime
<1>1. IInv /\ [Next]_vars
        => [(pc \in {"check", "recv", "handle"} /\ pc' = "idle" /\ ~confirmed')
              => elapsed > TimeOut /\ elapsed <= TimeOut + RecvTimeout + HandlingTime]_vars
  BY TimeStep
<1> QED  BY <1>1, Inductive, PTL DEF Spec, TakesItsTime

-----------------------------------------------------------------------------
(* Every address, and where a request goes *)

\* The mask is made of the prefix, and the broadcast address of both.
Addressed ==
  /\ m_serverIP \in Addresses /\ prefixLength \in 0 .. Width
  /\ m_serverNetMask = networkPrefixToMask(prefixLength)
  /\ broadcast \in Addresses
  /\ pc # "idle" => broadcast = BroadcastAddress(m_serverIP, m_serverNetMask)

\* Of the octets and the bits, what the leaves below need.
LEMMA Sizes == Octets \in Nat /\ Octet \in Nat /\ 0 < Octet
  BY AutoIPAssumption, Powers DEF Octet

LEMMA IpIsAddress == ASSUME NEW n \in Nat PROVE convertIpToBinary(n) \in Addresses
<1>1. ASSUME NEW i \in 1 .. Octets
      PROVE  (n \div TwoTo[(Octets - i) * OctetBits]) % Octet \in 0 .. Octet - 1
  <2>1. Rest(i) \in Nat
    BY Widths
  <2>2. TwoTo[(Octets - i) * OctetBits] \in Nat /\ TwoTo[(Octets - i) * OctetBits] > 0
    BY <2>1, Powers DEF Rest
  <2>3. n \div TwoTo[(Octets - i) * OctetBits] \in Nat
    BY <2>2, Division
  <2> QED  BY <2>3, Sizes, Division
<1> QED  BY <1>1 DEF convertIpToBinary, Addresses

LEMMA MaskIsAddress == ASSUME NEW p \in 0 .. Width PROVE networkPrefixToMask(p) \in Addresses
<1>1. ASSUME NEW i \in 1 .. Octets PROVE networkPrefixToMask(p)[i] \in 0 .. Octet - 1
  <2>1. networkPrefixToMask(p)[i] = Octet - TwoTo[FreeBits(Width - p, i)]
    BY MaskOctet
  <2>2. FreeBits(Width - p, i) \in Nat /\ FreeBits(Width - p, i) <= OctetBits /\ OctetBits \in Nat
    <3>1. Width - p \in 0 .. Width
      BY Widths
    <3> QED  BY <3>1, Widths
  <2>3. /\ TwoTo[FreeBits(Width - p, i)] \in Nat /\ 0 < TwoTo[FreeBits(Width - p, i)]
        /\ TwoTo[FreeBits(Width - p, i)] <= Octet
    BY <2>2, PowerRatio DEF Octet
  <2> QED  BY <2>1, <2>3, Sizes
<1>2. networkPrefixToMask(p) = [i \in 1 .. Octets |-> networkPrefixToMask(p)[i]]
  BY DEF networkPrefixToMask
<1> QED  BY <1>1, <1>2 DEF Addresses

LEMMA BroadcastIsAddress ==
  ASSUME NEW p \in 0 .. Width, NEW ip \in Addresses
  PROVE  BroadcastAddress(ip, networkPrefixToMask(p)) \in Addresses
<1>1. ASSUME NEW i \in 1 .. Octets
      PROVE  Or(Octet - 1 - networkPrefixToMask(p)[i], ip[i]) \in 0 .. Octet - 1
  <2>1. networkPrefixToMask(p)[i] = Octet - TwoTo[FreeBits(Width - p, i)]
    BY MaskOctet
  <2>2. FreeBits(Width - p, i) \in 0 .. OctetBits
    <3>1. Width - p \in 0 .. Width
      BY Widths
    <3> QED  BY <3>1, Widths
  <2>3. ip[i] \in 0 .. Octet - 1
    BY DEF Addresses
  <2> QED  BY <2>1, <2>2, <2>3, OctetOfBroadcast
<1> QED  BY <1>1 DEF BroadcastAddress, Addresses

LEMMA InitAddressed == Init => Addressed
<1> SUFFICES ASSUME Init PROVE Addressed
  OBVIOUS
<1>1. PICK n \in Nat : m_serverIP = convertIpToBinary(n)
  BY AutoIPAssumption DEF Init
<1>2. m_serverIP \in Addresses
  BY <1>1, IpIsAddress
<1> QED  BY <1>2 DEF Init, Addressed

LEMMA AddressedStep == ASSUME Addressed, [Next]_vars PROVE Addressed'
<1>1. CASE doScan \/ assign
  <2>1. UNCHANGED object /\ broadcast' = BroadcastAddress(m_serverIP, m_serverNetMask)
    BY <1>1 DEF doScan, assign, Call
  <2>2. BroadcastAddress(m_serverIP, m_serverNetMask) \in Addresses
    BY BroadcastIsAddress DEF Addressed
  <2> QED  BY <2>1, <2>2 DEF Addressed, object
<1>2. CASE UNCHANGED <<object, broadcast>> /\ (pc' = pc \/ pc # "idle" \/ pc' = "idle")
  BY <1>2 DEF Addressed, object
<1>3. CASE assignRefused \/ DeviceReplies \/ Tick \/ UNCHANGED vars
  <2>1. UNCHANGED <<object, broadcast, pc>>
    BY <1>3 DEF assignRefused, DeviceReplies, Tick, vars
  <2> QED  BY <1>2, <2>1
<1>4. CASE SendRequest \/ Check \/ Receive \/ ParseAutoIPBinary \/ RecvTimesOut \/ Arrive
  <2>1. UNCHANGED <<object, broadcast>> /\ pc # "idle"
    BY <1>4 DEF SendRequest, Check, Receive, ParseAutoIPBinary, RecvTimesOut, Arrive
  <2> QED  BY <1>2, <2>1
<1> QED  BY <1>1, <1>3, <1>4 DEF Next

\* A request is sent to the last address of the client's own network, for every
\* prefix length and address and for octets of any size
\* (VisionaryAutoIPScan.cpp:74-78, 484).
THEOREM ReachesNetwork == Spec => []BroadcastIsOfNetwork
<1>1. Addressed => BroadcastIsOfNetwork
  <2> SUFFICES ASSUME Addressed, pc # "idle"
               PROVE  LET hosts == TwoTo[Width - prefixLength]
                      IN  Number(broadcast) = (Number(m_serverIP) \div hosts) * hosts + hosts - 1
    BY DEF BroadcastIsOfNetwork
  <2> QED  BY BroadcastNumber DEF Addressed
<1> QED  BY <1>1, InitAddressed, AddressedStep, PTL DEF Spec

LEMMA InitTyped == Init => TypeOK
<1> SUFFICES ASSUME Init PROVE TypeOK
  OBVIOUS
<1>1. Addressed /\ Types
  BY InitAddressed, InitSafe DEF IInv
<1>2. m_serverNetMask \in Addresses
  BY <1>1, MaskIsAddress DEF Addressed
<1>3. /\ elapsed \in 0 .. TimeOut + RecvTimeout + HandlingTime
      /\ waited \in 0 .. IF pc = "handle" THEN HandlingTime ELSE RecvTimeout
  BY DEF Init
<1>4. /\ op = "none" /\ confirmed = FALSE /\ requests = {} /\ replies = {} /\ configured = {}
      /\ arrived = {} /\ delivered = 0 /\ assigns = {}
  BY DEF Init
<1>5. /\ op \in {"none", "scan", "assign", "refused"} /\ confirmed \in BOOLEAN
      /\ requests \subseteq Datagrams /\ replies \subseteq Datagrams /\ arrived \subseteq Datagrams
      /\ configured \subseteq 1 .. MaxCalls /\ delivered \in 0 .. MaxDatagrams
      /\ assigns \subseteq (1 .. MaxCalls) \X Ports
  <2>1. delivered \in 0 .. MaxDatagrams
    BY <1>4
  <2>2. \A S : {} \subseteq S
    OBVIOUS
  <2> QED  BY <1>4, <2>1, <2>2
<1> QED  BY <1>1, <1>2, <1>3, <1>5 DEF TypeOK, Addressed, Types

LEMMA TypedStep ==
  ASSUME IInv, Addressed, TypeOK, [Next]_vars, Types', Addressed'
  PROVE  TypeOK'
<1>1. m_serverNetMask' \in Addresses
  BY MaskIsAddress DEF Addressed
<1>2. /\ elapsed' \in 0 .. TimeOut + RecvTimeout + HandlingTime
      /\ waited' \in 0 .. IF pc' = "handle" THEN HandlingTime ELSE RecvTimeout
  <2>1. /\ elapsed \in 0 .. TimeOut + RecvTimeout + HandlingTime
        /\ waited \in 0 .. IF pc = "handle" THEN HandlingTime ELSE RecvTimeout
        /\ pc = "recv" => elapsed <= TimeOut + waited
        /\ pc = "handle" => elapsed <= TimeOut + RecvTimeout + waited
    BY DEF TypeOK, IInv, Timely
  <2>2. CASE Tick
    BY <2>1, <2>2 DEF Tick
  <2>3. CASE doScan \/ assign \/ assignRefused
    BY <2>1, <2>3 DEF doScan, assign, Call, assignRefused
  <2>4. CASE SendRequest \/ Check \/ Receive \/ ParseAutoIPBinary \/ RecvTimesOut
    BY <2>1, <2>4 DEF SendRequest, Check, Receive, Return, ParseAutoIPBinary, RecvTimesOut
  <2>5. CASE DeviceReplies \/ Arrive \/ UNCHANGED vars
    BY <2>1, <2>5 DEF DeviceReplies, Arrive, vars
  <2> QED  BY <2>2, <2>3, <2>4, <2>5 DEF Next
<1>3. op' \in {"none", "scan", "assign", "refused"} /\ confirmed' \in BOOLEAN
  <2>1. op \in {"none", "scan", "assign", "refused"} /\ confirmed \in BOOLEAN
    BY DEF TypeOK
  <2>2. CASE doScan \/ assign \/ assignRefused
    BY <2>2 DEF doScan, assign, Call, assignRefused
  <2>3. CASE Receive
    BY <2>1, <2>3 DEF Receive, Confirms
  <2>4. CASE SendRequest \/ Check \/ ParseAutoIPBinary \/ RecvTimesOut \/ Tick \/ DeviceReplies
             \/ Arrive \/ UNCHANGED vars
    BY <2>1, <2>4 DEF SendRequest, Check, ParseAutoIPBinary, RecvTimesOut, Tick, DeviceReplies, Arrive, vars, results
  <2> QED  BY <2>2, <2>3, <2>4 DEF Next
<1>4. configured' \subseteq 1 .. MaxCalls
  <2>1. configured \subseteq 1 .. MaxCalls /\ requests \subseteq Datagrams
    BY DEF TypeOK
  <2>2. CASE DeviceReplies
    <3>1. PICK r \in requests : configured' \in {configured, configured \cup {r.call}}
      BY <2>2 DEF DeviceReplies
    <3>2. r.call \in 1 .. MaxCalls
      BY <2>1 DEF Datagrams
    <3> QED  BY <2>1, <3>1, <3>2
  <2>3. CASE UNCHANGED configured
    BY <2>1, <2>3
  <2>4. CASE ~DeviceReplies
    <3>1. UNCHANGED configured
      BY <2>4 DEF Next, doScan, assign, Call, assignRefused, SendRequest, Check, Receive,
         ParseAutoIPBinary, RecvTimesOut, Tick, Arrive, vars, network
    <3> QED  BY <2>3, <3>1
  <2> QED  BY <2>2, <2>4
<1>5. arrived' \subseteq Datagrams /\ delivered' \in 0 .. MaxDatagrams
  <2>1. arrived \subseteq Datagrams /\ delivered \in 0 .. MaxDatagrams
    BY DEF TypeOK
  <2>2. CASE Arrive
    <3>1. PICK d \in Datagrams : arrived' = IF InTime(d) THEN arrived \cup {d} ELSE arrived
      BY <2>2, Arrived
    <3>2. arrived' \subseteq Datagrams
      BY <2>1, <3>1
    <3> QED  BY <2>1, <2>2, <3>2 DEF Arrive
  <2>3. CASE doScan \/ assign \/ assignRefused
    BY <2>1, <2>3 DEF doScan, assign, Call, assignRefused
  <2>4. CASE SendRequest \/ Check \/ Receive \/ ParseAutoIPBinary \/ RecvTimesOut \/ Tick
             \/ DeviceReplies \/ UNCHANGED vars
    BY <2>1, <2>4 DEF SendRequest, Check, Receive, ParseAutoIPBinary, RecvTimesOut, Tick, DeviceReplies, vars, history
  <2> QED  BY <2>2, <2>3, <2>4 DEF Next
<1>6. assigns' \subseteq (1 .. MaxCalls) \X Ports
  <2>1. assigns \subseteq (1 .. MaxCalls) \X Ports /\ call \in 0 .. MaxCalls
    BY DEF TypeOK
  <2>2. CASE doScan \/ assign
    <3>1. /\ assigns' \in {assigns, assigns \cup {<<call', port'>>}}
          /\ call' = call + 1 /\ call < MaxCalls
      BY <2>2 DEF doScan, assign, Call
    <3>2. call' \in 1 .. MaxCalls /\ port' \in Ports
      BY <2>1, <3>1 DEF Types
    <3> QED  BY <2>1, <3>1, <3>2
  <2>3. CASE ~(doScan \/ assign)
    <3>1. UNCHANGED assigns
      BY <2>3 DEF Next, assignRefused, SendRequest, Check, Receive, ParseAutoIPBinary,
         RecvTimesOut, Tick, DeviceReplies, Arrive, vars, history
    <3> QED  BY <2>1, <3>1
  <2> QED  BY <2>2, <2>3
<1> QED  BY <1>1, <1>2, <1>3, <1>4, <1>5, <1>6 DEF TypeOK, Types, Addressed

\* Every octet of every address is an octet, and time is bounded.
THEOREM TypeCorrect == Spec => []TypeOK
<1>1. Init => TypeOK
  BY InitTyped
<1>2. IInv /\ IInv' /\ Addressed /\ Addressed' /\ TypeOK /\ [Next]_vars => TypeOK'
  <2>1. IInv' => Types'
    BY DEF IInv
  <2> QED  BY <2>1, TypedStep
<1>3. Spec => []Addressed
  BY InitAddressed, AddressedStep, PTL DEF Spec
<1> QED  BY <1>1, <1>2, <1>3, Inductive, PTL DEF Spec

=============================================================================
