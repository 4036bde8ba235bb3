------------------------------ MODULE VmProofs ------------------------------
(***************************************************************************)
(* Proofs about the two virtual machines, for every program, input and     *)
(* content of the C++ machine's memory.                                    *)
(***************************************************************************)
EXTENDS Vm, TLAPS, WellFoundedInduction

----------------------------------------------------------------------------
(***************************************************************************)
(* Powers of two.  The library's theorems of induction take an operator;   *)
(* this follows from what it says of well-founded relations on sets.       *)
(***************************************************************************)
(* A set of numbers that is not empty has a least.                         *)
LEMMA Least1 ==
  ASSUME NEW T \in SUBSET Nat, T # {}
  PROVE  \E n \in T : \A m \in T : n <= m
<1>1. PICK R : R = OpToRel(<, Nat) /\ IsWellFoundedOn(R, Nat)
  BY NatLessThanWellFounded
<1>2. \A m, n \in Nat : m < n => <<m, n>> \in R
  BY <1>1 DEF OpToRel
<1>3. PICK n \in T : \A m \in T : ~ (<<m, n>> \in R)
  BY <1>1, WFMin
<1>4. ASSUME NEW m \in T PROVE n <= m
  <2>1. m \in Nat /\ n \in Nat
    OBVIOUS
  <2>2. ~ (m < n)
    BY <1>2, <1>3, <2>1
  <2> QED
    BY <2>1, <2>2
<1> QED
  BY <1>4

(* What holds of 0 and of n + 1 with n holds of all numbers.               *)
LEMMA Induction ==
  ASSUME NEW S, 0 \in S, \A n \in Nat : n \in S => n + 1 \in S
  PROVE  \A n \in Nat : n \in S
<1> SUFFICES ASSUME Nat \ S # {} PROVE FALSE
  OBVIOUS
<1>1. PICK n \in Nat \ S : \A m \in Nat \ S : n <= m
  BY Least1
<1>2. n # 0 /\ n - 1 \in Nat /\ n - 1 \notin Nat \ S
  BY <1>1
<1> QED
  BY <1>2

\* f holds the powers up to n.
Doubles(f, n) ==
  /\ f \in [0 .. n -> Nat \ {0}] /\ f[0] = 1
  /\ \A i \in 1 .. n : f[i] = 2 * f[i - 1]

(* There are powers up to any number.                                      *)
LEMMA DoublesExist == \A n \in Nat : \E f : Doubles(f, n)
<1> DEFINE S == {n \in Nat : \E f : Doubles(f, n)}
<1>1. 0 \in S
  <2>1. PICK h : h = [i \in 0 .. 0 |-> 1]
    OBVIOUS
  <2>2. h \in [0 .. 0 -> Nat \ {0}] /\ h[0] = 1 /\ 1 .. 0 = {} /\ 0 \in Nat
    BY <2>1
  <2>3. Doubles(h, 0)
    BY <2>2 DEF Doubles
  <2> QED
    BY <2>2, <2>3
<1>2. ASSUME NEW n \in Nat, n \in S PROVE n + 1 \in S
  <2>1. PICK f : Doubles(f, n)
    BY <1>2
  <2>2. f[n] \in Nat \ {0} /\ 2 * f[n] \in Nat \ {0}
    BY <2>1 DEF Doubles
  <2> DEFINE v == 2 * f[n]
             g == [i \in 0 .. n + 1 |-> IF i = n + 1 THEN v ELSE f[i]]
  <2>3. g \in [0 .. n + 1 -> Nat \ {0}] /\ g[0] = 1
    BY <2>1, <2>2 DEF Doubles
  <2>4. ASSUME NEW i \in 1 .. n + 1 PROVE g[i] = 2 * g[i - 1]
    <3>1. CASE i = n + 1
      <4>1. i - 1 = n /\ g[n] = f[n] /\ g[i] = v
        BY <3>1
      <4> QED
        BY <3>1, <4>1
    <3>2. CASE i \in 1 .. n
      BY <2>1, <3>2 DEF Doubles
    <3> QED
      BY <3>1, <3>2
  <2> HIDE DEF g
  <2>5. Doubles(g, n + 1)
    BY <2>3, <2>4 DEF Doubles
  <2> QED
    BY <2>5
<1> HIDE DEF S
<1>3. \A n \in Nat : n \in S
  BY <1>1, <1>2, Induction
<1> QED
  BY <1>3 DEF S

(* Each number has one power.                                              *)
LEMMA DoublesAgree ==
  ASSUME NEW n \in Nat, NEW f, Doubles(f, n), NEW g, Doubles(g, n + 1)
  PROVE  f[n] = g[n]
<1> DEFINE S == {i \in Nat : i <= n => f[i] = g[i]}
<1>1. 0 \in S
  BY DEF Doubles
<1>2. ASSUME NEW i \in Nat, i \in S PROVE i + 1 \in S
  <2> SUFFICES ASSUME i + 1 <= n PROVE f[i + 1] = g[i + 1]
    OBVIOUS
  <2>1. f[i] = g[i] /\ i + 1 \in 1 .. n /\ i + 1 \in 1 .. n + 1 /\ (i + 1) - 1 = i
    BY <1>2
  <2> QED
    BY <2>1 DEF Doubles
<1> HIDE DEF S
<1>3. n \in S
  BY <1>1, <1>2, Induction
<1> QED
  BY <1>3 DEF S

(* The powers are what their recursive definition says.                    *)
LEMMA Powers ==
  /\ \A n \in Nat : Pow2[n] \in Nat \ {0}
  /\ Pow2[0] = 1
  /\ \A n \in Nat : Pow2[n + 1] = 2 * Pow2[n]
<1> DEFINE P(f) == f = [n \in Nat |-> IF n = 0 THEN 1 ELSE 2 * f[n - 1]]
           to(n) == CHOOSE f : Doubles(f, n)
           h == [n \in Nat |-> to(n)[n]]
<1>1. \A n \in Nat : Doubles(to(n), n)
  BY DoublesExist
<1> HIDE DEF to
<1>2. \A n \in Nat : h[n] \in Nat \ {0}
  BY <1>1 DEF Doubles
<1>3. h[0] = 1
  BY <1>1 DEF Doubles
<1>4. ASSUME NEW n \in Nat, n # 0 PROVE h[n] = 2 * h[n - 1]
  <2>1. PICK m \in Nat : n = m + 1 /\ n - 1 = m
    <3>1. n - 1 \in Nat /\ n = (n - 1) + 1
      BY <1>4
    <3> QED  BY <3>1
  <2>2. Doubles(to(m), m) /\ Doubles(to(m + 1), m + 1) /\ m + 1 \in Nat
    BY <1>1, <2>1
  <2>3. to(m)[m] = to(m + 1)[m]
    BY <2>2, DoublesAgree
  <2>4. m + 1 \in 1 .. m + 1 /\ (m + 1) - 1 = m
    BY <2>1
  <2>5. to(m + 1)[m + 1] = 2 * to(m + 1)[m]
    BY <2>2, <2>4 DEF Doubles
  <2>6. h[n] = to(m + 1)[m + 1] /\ h[n - 1] = to(m)[m]
    BY <2>1, <2>2
  <2> HIDE DEF h
  <2> QED
    BY <2>3, <2>5, <2>6
<1>5. h = [n \in Nat |-> h[n]]
  OBVIOUS
<1> HIDE DEF h
<1>6. P(h)
  BY <1>3, <1>4, <1>5
<1>7. Pow2 = CHOOSE f : P(f)
  BY DEF Pow2
<1> HIDE DEF P
<1>8. P(Pow2)
  BY <1>6, <1>7
<1>9. /\ Pow2[0] = 1
      /\ \A n \in Nat : n # 0 => Pow2[n] = 2 * Pow2[n - 1]
  BY <1>8 DEF P
<1>10. \A n \in Nat : Pow2[n + 1] = 2 * Pow2[n]
  <2> TAKE n \in Nat
  <2>1. n + 1 \in Nat /\ n + 1 # 0 /\ (n + 1) - 1 = n
    OBVIOUS
  <2> QED
    BY <1>9, <2>1
<1>11. \A n \in Nat : n \in {m \in Nat : Pow2[m] \in Nat \ {0}}
  <2> DEFINE S == {m \in Nat : Pow2[m] \in Nat \ {0}}
  <2>1. 0 \in S
    BY <1>9
  <2>2. ASSUME NEW n \in Nat, n \in S PROVE n + 1 \in S
    BY <1>10, <2>2
  <2> HIDE DEF S
  <2>3. \A n \in Nat : n \in S
    BY <2>1, <2>2, Induction
  <2> QED
    BY <2>3 DEF S
<1> QED
  BY <1>9, <1>10, <1>11

(* The powers up to 16.                                                    *)
LEMMA SmallPowers ==
  /\ Pow2[0] = 1 /\ Pow2[1] = 2 /\ Pow2[2] = 4 /\ Pow2[3] = 8 /\ Pow2[4] = 16
  /\ Pow2[5] = 32 /\ Pow2[6] = 64 /\ Pow2[7] = 128 /\ Pow2[8] = 256
  /\ Pow2[9] = 512 /\ Pow2[10] = 1024 /\ Pow2[11] = 2048 /\ Pow2[12] = 4096
  /\ Pow2[13] = 8192 /\ Pow2[14] = 16384 /\ Pow2[15] = 32768 /\ Pow2[16] = 65536
<1>1. Pow2[0] = 1 /\ Pow2[1] = 2 /\ Pow2[2] = 4
  <2>1. Pow2[0 + 1] = 2 * Pow2[0] /\ Pow2[1 + 1] = 2 * Pow2[1]
    BY Powers
  <2> QED  BY <2>1, Powers
<1>2. Pow2[3] = 8 /\ Pow2[4] = 16
  <2>1. Pow2[2 + 1] = 2 * Pow2[2] /\ Pow2[3 + 1] = 2 * Pow2[3]
    BY Powers
  <2> QED  BY <2>1, <1>1
<1>3. Pow2[5] = 32 /\ Pow2[6] = 64
  <2>1. Pow2[4 + 1] = 2 * Pow2[4] /\ Pow2[5 + 1] = 2 * Pow2[5]
    BY Powers
  <2> QED  BY <2>1, <1>2
<1>4. Pow2[7] = 128 /\ Pow2[8] = 256
  <2>1. Pow2[6 + 1] = 2 * Pow2[6] /\ Pow2[7 + 1] = 2 * Pow2[7]
    BY Powers
  <2> QED  BY <2>1, <1>3
<1>5. Pow2[9] = 512 /\ Pow2[10] = 1024
  <2>1. Pow2[8 + 1] = 2 * Pow2[8] /\ Pow2[9 + 1] = 2 * Pow2[9]
    BY Powers
  <2> QED  BY <2>1, <1>4
<1>6. Pow2[11] = 2048 /\ Pow2[12] = 4096
  <2>1. Pow2[10 + 1] = 2 * Pow2[10] /\ Pow2[11 + 1] = 2 * Pow2[11]
    BY Powers
  <2> QED  BY <2>1, <1>5
<1>7. Pow2[13] = 8192 /\ Pow2[14] = 16384
  <2>1. Pow2[12 + 1] = 2 * Pow2[12] /\ Pow2[13 + 1] = 2 * Pow2[13]
    BY Powers
  <2> QED  BY <2>1, <1>6
<1>8. Pow2[15] = 32768 /\ Pow2[16] = 65536
  <2>1. Pow2[14 + 1] = 2 * Pow2[14] /\ Pow2[15 + 1] = 2 * Pow2[15]
    BY Powers
  <2> QED  BY <2>1, <1>7
<1> QED
  BY <1>1, <1>2, <1>3, <1>4, <1>5, <1>6, <1>7, <1>8

(* The fields of a word of 16 bits, as quotients and remainders.           *)
LEMMA Literal ==
  ASSUME NEW w
  PROVE  /\ Bits(w, 12, 4) = (w \div 4096) % 16 /\ Bits(w, 9, 3) = (w \div 512) % 8
         /\ Bits(w, 6, 3) = (w \div 64) % 8 /\ Bits(w, 3, 3) = (w \div 8) % 8
         /\ Cut(w, 3) = w % 8 /\ Cut(w, 8) = w % 256 /\ Cut(w, 12) = w % 4096
         /\ INT_VALUE(w, 5) = IF w % 32 >= 16 THEN (w % 32) - 32 ELSE w % 32
         /\ INT_VALUE(w, 6) = IF w % 64 >= 32 THEN (w % 64) - 64 ELSE w % 64
         /\ INT_VALUE(w, 8) = IF w % 256 >= 128 THEN (w % 256) - 256 ELSE w % 256
         /\ INT_VALUE(w, 9) = IF w % 512 >= 256 THEN (w % 512) - 512 ELSE w % 512
         /\ INT_VALUE(w, 11) = IF w % 2048 >= 1024 THEN (w % 2048) - 2048 ELSE w % 2048
         /\ INT_VALUE(w, 12) = IF w % 4096 >= 2048 THEN (w % 4096) - 4096 ELSE w % 4096
         /\ INT_VALUE(w, 16) = IF w % 65536 >= 32768 THEN (w % 65536) - 65536 ELSE w % 65536
<1>1. Bits(w, 12, 4) = (w \div 4096) % 16 /\ Bits(w, 9, 3) = (w \div 512) % 8
  BY SmallPowers DEF Bits
<1>2. Bits(w, 6, 3) = (w \div 64) % 8 /\ Bits(w, 3, 3) = (w \div 8) % 8
  BY SmallPowers DEF Bits
<1>3. Cut(w, 3) = w % 8 /\ Cut(w, 8) = w % 256 /\ Cut(w, 12) = w % 4096
  BY SmallPowers DEF Cut
<1>4. INT_VALUE(w, 5) = IF w % 32 >= 16 THEN (w % 32) - 32 ELSE w % 32
  <2>1. 5 - 1 = 4
    OBVIOUS
  <2> QED  BY <2>1, SmallPowers DEF INT_VALUE, Cut
<1>5. INT_VALUE(w, 6) = IF w % 64 >= 32 THEN (w % 64) - 64 ELSE w % 64
  <2>1. 6 - 1 = 5
    OBVIOUS
  <2> QED  BY <2>1, SmallPowers DEF INT_VALUE, Cut
<1>6. INT_VALUE(w, 8) = IF w % 256 >= 128 THEN (w % 256) - 256 ELSE w % 256
  <2>1. 8 - 1 = 7
    OBVIOUS
  <2> QED  BY <2>1, SmallPowers DEF INT_VALUE, Cut
<1>7. INT_VALUE(w, 9) = IF w % 512 >= 256 THEN (w % 512) - 512 ELSE w % 512
  <2>1. 9 - 1 = 8
    OBVIOUS
  <2> QED  BY <2>1, SmallPowers DEF INT_VALUE, Cut
<1>8. INT_VALUE(w, 11) = IF w % 2048 >= 1024 THEN (w % 2048) - 2048 ELSE w % 2048
  <2>1. 11 - 1 = 10
    OBVIOUS
  <2> QED  BY <2>1, SmallPowers DEF INT_VALUE, Cut
<1>9. INT_VALUE(w, 12) = IF w % 4096 >= 2048 THEN (w % 4096) - 4096 ELSE w % 4096
  <2>1. 12 - 1 = 11
    OBVIOUS
  <2> QED  BY <2>1, SmallPowers DEF INT_VALUE, Cut
<1>10. INT_VALUE(w, 16) = IF w % 65536 >= 32768 THEN (w % 65536) - 65536 ELSE w % 65536
  <2>1. 16 - 1 = 15
    OBVIOUS
  <2> QED  BY <2>1, SmallPowers DEF INT_VALUE, Cut
<1> QED  BY <1>1, <1>2, <1>3, <1>4, <1>5, <1>6, <1>7, <1>8, <1>9, <1>10

(* The single bits of a word of 16 bits.                                   *)
LEMMA LiteralBits ==
  ASSUME NEW w
  PROVE  /\ Bits(w, 0, 1) = (w \div 1) % 2
         /\ Bits(w, 1, 1) = (w \div 2) % 2
         /\ Bits(w, 2, 1) = (w \div 4) % 2
         /\ Bits(w, 3, 1) = (w \div 8) % 2
         /\ Bits(w, 4, 1) = (w \div 16) % 2
         /\ Bits(w, 5, 1) = (w \div 32) % 2
         /\ Bits(w, 6, 1) = (w \div 64) % 2
         /\ Bits(w, 7, 1) = (w \div 128) % 2
         /\ Bits(w, 8, 1) = (w \div 256) % 2
         /\ Bits(w, 9, 1) = (w \div 512) % 2
         /\ Bits(w, 10, 1) = (w \div 1024) % 2
         /\ Bits(w, 11, 1) = (w \div 2048) % 2
         /\ Bits(w, 12, 1) = (w \div 4096) % 2
         /\ Bits(w, 13, 1) = (w \div 8192) % 2
         /\ Bits(w, 14, 1) = (w \div 16384) % 2
         /\ Bits(w, 15, 1) = (w \div 32768) % 2
<1>1. Bits(w, 0, 1) = (w \div 1) % 2 /\ Bits(w, 1, 1) = (w \div 2) % 2
      /\ Bits(w, 2, 1) = (w \div 4) % 2 /\ Bits(w, 3, 1) = (w \div 8) % 2
  BY SmallPowers DEF Bits
<1>2. Bits(w, 4, 1) = (w \div 16) % 2 /\ Bits(w, 5, 1) = (w \div 32) % 2
      /\ Bits(w, 6, 1) = (w \div 64) % 2 /\ Bits(w, 7, 1) = (w \div 128) % 2
  BY SmallPowers DEF Bits
<1>3. Bits(w, 8, 1) = (w \div 256) % 2 /\ Bits(w, 9, 1) = (w \div 512) % 2
      /\ Bits(w, 10, 1) = (w \div 1024) % 2 /\ Bits(w, 11, 1) = (w \div 2048) % 2
  BY SmallPowers DEF Bits
<1>4. Bits(w, 12, 1) = (w \div 4096) % 2 /\ Bits(w, 13, 1) = (w \div 8192) % 2
      /\ Bits(w, 14, 1) = (w \div 16384) % 2 /\ Bits(w, 15, 1) = (w \div 32768) % 2
  BY SmallPowers DEF Bits
<1> QED  BY <1>1, <1>2, <1>3, <1>4

----------------------------------------------------------------------------
(***************************************************************************)
(* Words and their fields.                                                 *)
(***************************************************************************)
(* What a word is, and the sizes of the constants.                         *)
LEMMA InWord == \A w : w \in Word <=> w \in Nat /\ w < 65536
  BY DEF Word, Width

(* The sizes of lc3sim_cpp's words, as numbers.                            *)
LEMMA Sizes == Width = 65536 /\ STATUS_BIT = 32768
  BY DEF Width, STATUS_BIT

(* W cuts an integer to a word and leaves a word alone; cutting a summand  *)
(* first makes no difference.                                              *)
LEMMA WordCut ==
  /\ \A n \in Int : W(n) \in Word
  /\ \A n \in Word : W(n) = n
  /\ \A n, k \in Int : W(W(n) + k) = W(n + k)
<1>1. \A n : W(n) = n % 65536
  BY Sizes DEF W
<1>2. \A n, k \in Int : ((n % 65536) + k) % 65536 = (n + k) % 65536
  OBVIOUS
<1>3. \A n \in Int : n % 65536 \in Word
  BY InWord
<1>4. \A n \in Word : n % 65536 = n
  BY InWord
<1>5. /\ \A n \in Int : W(n) \in Word
      /\ \A n \in Word : W(n) = n
  BY <1>1, <1>3, <1>4
<1>6. \A n, k \in Int : W(W(n) + k) = W(n + k)
  BY <1>1, <1>2
<1> QED  BY <1>5, <1>6

(* A register number has three bits, and a flag one.                       *)
LEMMA FieldTypes ==
  ASSUME NEW w \in Word
  PROVE  /\ Bits(w, 9, 3) \in 0 .. 7 /\ Bits(w, 6, 3) \in 0 .. 7
         /\ Cut(w, 3) \in 0 .. 7 /\ Cut(w, 8) \in 0 .. 255
         /\ Cut(w, 12) \in 0 .. 4095
         /\ w \div 2^12 \in 0 .. 15
<1>1. w \in Nat /\ w < 65536
  BY InWord
<1>2. /\ Bits(w, 9, 3) = (w \div 512) % 8 /\ Bits(w, 6, 3) = (w \div 64) % 8
      /\ Cut(w, 3) = w % 8 /\ Cut(w, 8) = w % 256 /\ Cut(w, 12) = w % 4096
  BY Literal
<1>3. /\ (w \div 512) % 8 \in 0 .. 7 /\ (w \div 64) % 8 \in 0 .. 7
      /\ w % 8 \in 0 .. 7 /\ w % 256 \in 0 .. 255 /\ w % 4096 \in 0 .. 4095
      /\ w \div 2^12 \in 0 .. 15
  BY <1>1
<1> QED  BY <1>2, <1>3

(* The signed fields are integers.                                         *)
LEMMA IntTypes ==
  ASSUME NEW w \in Word
  PROVE  /\ INT_VALUE(w, 5) \in Int /\ INT_VALUE(w, 6) \in Int
         /\ INT_VALUE(w, 9) \in Int /\ INT_VALUE(w, 11) \in Int
         /\ INT_VALUE(w, 12) \in Int /\ INT_VALUE(w, 16) \in Int
  BY Literal DEF Word, Width

(* The macros of the C++ machine take the same fields from a word as the C *)
(* machine.                                                                *)
LEMMA SameFields ==
  ASSUME NEW w \in Word
  PROVE  /\ OPER_CODE(w, Format16) = w \div 2^12
         /\ REG_NUM1(w, Format16) = Bits(w, 9, 3)
         /\ REG_NUM2(w, Format16) = Bits(w, 6, 3)
         /\ REG_NUM3(w, Format16) = Cut(w, 3)
         /\ INT_AFTER_OPER(w, Format16) = INT_VALUE(w, 12)
         /\ INT_AFTER_OPER_FLAG(w, Format16) <=> Bits(w, 11, 1) = 1
         /\ INT_AFTER_OPER_WITH_FLAG(w, Format16) = INT_VALUE(w, 11)
         /\ INT_AFTER_NUM1(w, Format16) = INT_VALUE(w, 9)
         /\ INT_AFTER_NUM2(w, Format16) = INT_VALUE(w, 6)
         /\ INT_AFTER_NUM2_FLAG(w, Format16) <=> Bits(w, 5, 1) = 1
         /\ INT_AFTER_NUM2_WITH_FLAG(w, Format16) = INT_VALUE(w, 5)
         /\ PARAM_AFTER_NUM2(w, Format16) = Bits(w, 3, 3)
         /\ UINT_AFTER_PARAM(w, Format16) = w % 2^3
<1>1. /\ OperBit(Format16) = 12 /\ Num1Bit(Format16) = 9
      /\ Num2Bit(Format16) = 6 /\ ParamBit(Format16) = 3
      /\ Format16.op = 4 /\ Format16.rn = 3 /\ Format16.par = 3
  BY DEF OperBit, Num1Bit, Num2Bit, ParamBit, Format16
<1>2. /\ OperBit(Format16) - 1 = 11 /\ Num2Bit(Format16) - 1 = 5
  BY <1>1
<1>3. Bits(w, 12, 4) = w \div 2^12
  BY Literal DEF Word, Width
<1>4. Cut(w, 3) = w % 2^3
  BY Literal
<1> QED
  BY <1>1, <1>2, <1>3, <1>4
  DEF OPER_CODE, REG_NUM1, REG_NUM2, REG_NUM3, INT_AFTER_OPER,
      INT_AFTER_OPER_FLAG, INT_AFTER_OPER_WITH_FLAG, INT_AFTER_NUM1,
      INT_AFTER_NUM2, INT_AFTER_NUM2_FLAG, INT_AFTER_NUM2_WITH_FLAG,
      PARAM_AFTER_NUM2, UINT_AFTER_PARAM

(* A bit is 0 or 1.                                                        *)
LEMMA BitTypes ==
  ASSUME NEW a \in Word
  PROVE  /\ Bits(a, 0, 1) \in {0, 1} /\ Bits(a, 1, 1) \in {0, 1} /\ Bits(a, 2, 1) \in {0, 1} /\ Bits(a, 3, 1) \in {0, 1}
         /\ Bits(a, 4, 1) \in {0, 1} /\ Bits(a, 5, 1) \in {0, 1} /\ Bits(a, 6, 1) \in {0, 1} /\ Bits(a, 7, 1) \in {0, 1}
         /\ Bits(a, 8, 1) \in {0, 1} /\ Bits(a, 9, 1) \in {0, 1} /\ Bits(a, 10, 1) \in {0, 1} /\ Bits(a, 11, 1) \in {0, 1}
         /\ Bits(a, 12, 1) \in {0, 1} /\ Bits(a, 13, 1) \in {0, 1} /\ Bits(a, 14, 1) \in {0, 1} /\ Bits(a, 15, 1) \in {0, 1}
<1>1. \A d \in Int : d % 2 \in {0, 1}
  OBVIOUS
<1>2. /\ a \div 1 \in Int /\ a \div 2 \in Int /\ a \div 4 \in Int /\ a \div 8 \in Int
      /\ a \div 16 \in Int /\ a \div 32 \in Int /\ a \div 64 \in Int
      /\ a \div 128 \in Int /\ a \div 256 \in Int /\ a \div 512 \in Int
      /\ a \div 1024 \in Int /\ a \div 2048 \in Int /\ a \div 4096 \in Int
      /\ a \div 8192 \in Int /\ a \div 16384 \in Int /\ a \div 32768 \in Int
  BY DEF Word
<1> QED  BY <1>1, <1>2, LiteralBits

(* The bitwise and of two words is a word.                                 *)
LEMMA AndType == ASSUME NEW a \in Word, NEW b \in Word PROVE And(a, b) \in Word
<1> DEFINE p(k) == Bits(a, k, 1) * Bits(b, k, 1)
<1>1. \A u, v \in {0, 1} : u * v \in {0, 1}
  OBVIOUS
<1>2. /\ p(0) \in {0, 1} /\ p(1) \in {0, 1} /\ p(2) \in {0, 1} /\ p(3) \in {0, 1}
      /\ p(4) \in {0, 1} /\ p(5) \in {0, 1} /\ p(6) \in {0, 1} /\ p(7) \in {0, 1}
      /\ p(8) \in {0, 1} /\ p(9) \in {0, 1} /\ p(10) \in {0, 1} /\ p(11) \in {0, 1}
      /\ p(12) \in {0, 1} /\ p(13) \in {0, 1} /\ p(14) \in {0, 1} /\ p(15) \in {0, 1}
  BY <1>1, BitTypes
<1> DEFINE sum == p(0) + 2 * p(1) + 4 * p(2) + 8 * p(3) + 16 * p(4) + 32 * p(5)
                  + 64 * p(6) + 128 * p(7) + 256 * p(8) + 512 * p(9)
                  + 1024 * p(10) + 2048 * p(11) + 4096 * p(12) + 8192 * p(13)
                  + 16384 * p(14) + 32768 * p(15)
<1>3. And(a, b) = 2^0 * p(0) + 2^1 * p(1) + 2^2 * p(2) + 2^3 * p(3) + 2^4 * p(4)
        + 2^5 * p(5) + 2^6 * p(6) + 2^7 * p(7) + 2^8 * p(8) + 2^9 * p(9)
        + 2^10 * p(10) + 2^11 * p(11) + 2^12 * p(12) + 2^13 * p(13)
        + 2^14 * p(14) + 2^15 * p(15)
  BY DEF And
<1> HIDE DEF p
<1>4. sum \in Word
  <2>1. \A t \in {0, 1} : t \in Int /\ 0 <= t /\ t <= 1
    OBVIOUS
  <2> DEFINE lo == p(0) + 2 * p(1) + 4 * p(2) + 8 * p(3) + 16 * p(4)
                   + 32 * p(5) + 64 * p(6) + 128 * p(7)
             hi == p(8) + 2 * p(9) + 4 * p(10) + 8 * p(11) + 16 * p(12)
                   + 32 * p(13) + 64 * p(14) + 128 * p(15)
  <2>2. lo \in 0 .. 255
    BY <1>2, <2>1
  <2>3. hi \in 0 .. 255
    BY <1>2, <2>1
  <2>4. sum = lo + 256 * hi
    <3>1. /\ p(0) \in Int /\ p(1) \in Int /\ p(2) \in Int /\ p(3) \in Int
          /\ p(4) \in Int /\ p(5) \in Int /\ p(6) \in Int /\ p(7) \in Int
          /\ p(8) \in Int /\ p(9) \in Int /\ p(10) \in Int /\ p(11) \in Int
          /\ p(12) \in Int /\ p(13) \in Int /\ p(14) \in Int /\ p(15) \in Int
      BY <1>2, <2>1
    <3> QED  BY <3>1
  <2> HIDE DEF lo, hi
  <2>5. \A u, v \in 0 .. 255 : u + 256 * v \in Nat /\ u + 256 * v < 65536
    OBVIOUS
  <2> QED  BY <2>2, <2>3, <2>4, <2>5, InWord
<1>5. \A t \in {0, 1} :
        /\ 2^0 * t = t /\ 2^1 * t = 2 * t /\ 2^2 * t = 4 * t /\ 2^3 * t = 8 * t
        /\ 2^4 * t = 16 * t /\ 2^5 * t = 32 * t /\ 2^6 * t = 64 * t
        /\ 2^7 * t = 128 * t /\ 2^8 * t = 256 * t /\ 2^9 * t = 512 * t
        /\ 2^10 * t = 1024 * t /\ 2^11 * t = 2048 * t /\ 2^12 * t = 4096 * t
        /\ 2^13 * t = 8192 * t /\ 2^14 * t = 16384 * t /\ 2^15 * t = 32768 * t
  OBVIOUS
<1>6. And(a, b) = sum
  BY <1>2, <1>3, <1>5
<1> HIDE DEF sum
<1> QED  BY <1>4, <1>6

----------------------------------------------------------------------------
(***************************************************************************)
(* The operations of a machine, field by field.                            *)
(***************************************************************************)
IsMem(f) == \A a \in DOMAIN f : a \in Word /\ f[a] \in Word

CRec(m) == m = [reg |-> m.reg, pc |-> m.pc, cc |-> m.cc, mem |-> m.mem,
                out |-> m.out, status |-> m.status]

XRec(m) == m = [reg |-> m.reg, pc |-> m.pc, num |-> m.num, mem |-> m.mem,
                out |-> m.out, status |-> m.status, junk |-> m.junk,
                ran |-> m.ran]

\* What both machines have.
Core(m) == m.reg \in [0 .. 7 -> Word] /\ m.pc \in Word /\ IsMem(m.mem)

CTyped(m) == CRec(m) /\ Core(m) /\ m.cc \in {"n", "z", "p"}
XTyped(m) == XRec(m) /\ Core(m) /\ m.num \in 0 .. 7 /\ m.junk \in Word
             /\ m.ran \in Nat

(* The two machines have the same registers, pc, output, flags and memory. *)
Agree(m, n) ==
  /\ m.reg = n.reg /\ m.pc = n.pc /\ m.out = n.out
  /\ m.cc = SignFlag(n.reg[n.num])
  /\ \A a \in DOMAIN n.mem : m.mem[a] = n.mem[a]
  /\ DOMAIN m.mem = DOMAIN n.mem \cup {MCR}

(* The flags of a value.                                                   *)
LEMMA FlagType == \A v : SignFlag(v) \in {"n", "z", "p"}
  BY DEF SignFlag

(* A stopped machine differs in its status only.                           *)
LEMMA CStopped ==
  ASSUME NEW m, CTyped(m), NEW s
  PROVE  /\ CTyped(Stopped(m, s)) /\ Stopped(m, s).status = s
         /\ \A n : Agree(m, n) => Agree(Stopped(m, s), n)
  BY DEF CTyped, CRec, Core, Stopped, Agree

(* The C++ machine stops: only its status changes.                         *)
LEMMA XStopped ==
  ASSUME NEW n, XTyped(n), NEW s
  PROVE  /\ XTyped(Stopped(n, s)) /\ Stopped(n, s).status = s
         /\ \A m : Agree(m, n) => Agree(m, Stopped(n, s))
  BY DEF XTyped, XRec, Core, Stopped, Agree

(* A jump.                                                                 *)
LEMMA CJump ==
  ASSUME NEW m, CTyped(m), NEW a \in Word
  PROVE  CTyped([m EXCEPT !.pc = a]) /\ [m EXCEPT !.pc = a].status = m.status
  BY DEF CTyped, CRec, Core

(* A jump of the C++ machine.                                              *)
LEMMA XJump ==
  ASSUME NEW n, XTyped(n), NEW a \in Word
  PROVE  XTyped([n EXCEPT !.pc = a]) /\ [n EXCEPT !.pc = a].status = n.status
  BY DEF XTyped, XRec, Core

(* Both machines jump to the same address.                                 *)
LEMMA BothJump ==
  ASSUME NEW m, CTyped(m), NEW n, XTyped(n), Agree(m, n), NEW a \in Word
  PROVE  Agree([m EXCEPT !.pc = a], [n EXCEPT !.pc = a])
  BY DEF CTyped, CRec, XTyped, XRec, Agree

(* A register is set and the flags are left alone.                         *)
LEMMA CSet ==
  ASSUME NEW m, CTyped(m), NEW r \in 0 .. 7, NEW v \in Word
  PROVE  /\ CTyped(Set(m, r, v)) /\ Set(m, r, v).status = m.status
         /\ Set(m, r, v).pc = m.pc
  BY DEF CTyped, CRec, Core, Set

(* The same of the C++ machine.                                            *)
LEMMA XSet ==
  ASSUME NEW n, XTyped(n), NEW r \in 0 .. 7, NEW v \in Word
  PROVE  /\ XTyped(Set(n, r, v)) /\ Set(n, r, v).status = n.status
         /\ Set(n, r, v).pc = n.pc
  BY DEF XTyped, XRec, Core, Set

(* Setting a register that the flags do not come from keeps the agreement. *)
LEMMA BothSet ==
  ASSUME NEW m, CTyped(m), NEW n, XTyped(n), Agree(m, n),
         NEW r \in 0 .. 7, NEW v \in Word, n.num # r
  PROVE  Agree(Set(m, r, v), Set(n, r, v))
  BY DEF CTyped, CRec, XTyped, XRec, Core, Agree, Set

(* A register is set, and with it the flags.                               *)
LEMMA CSetsCC ==
  ASSUME NEW m, CTyped(m), NEW r \in 0 .. 7, NEW v, v = -1 \/ v \in Word
  PROVE  /\ CTyped(SetsCC(m, r, v))
         /\ SetsCC(m, r, v).status \in {m.status, "range"}
         /\ v = -1 => SetsCC(m, r, v).status = "range"
<1>1. CASE v = -1
  BY <1>1, CStopped DEF SetsCC
<1>2. CASE v \in Word
  <2>1. v # -1
    BY <1>2, InWord
  <2>2. CTyped(Set(m, r, v)) /\ Set(m, r, v).status = m.status
    BY <1>2, CSet
  <2>3. SetsCC(m, r, v) = [Set(m, r, v) EXCEPT !.cc = SignFlag(v)]
    BY <2>1 DEF SetsCC
  <2> QED  BY <2>1, <2>2, <2>3, FlagType DEF CTyped, CRec, Core
<1> QED  BY <1>1, <1>2

(* The C++ machine keeps the number of the register instead of flags.      *)
LEMMA XSetNum ==
  ASSUME NEW n, XTyped(n), NEW r \in 0 .. 7, NEW v, v = -1 \/ v \in Word
  PROVE  XTyped(SetNum(n, r, v)) /\ SetNum(n, r, v).status = n.status
<1>1. CASE v = -1
  BY <1>1 DEF SetNum
<1>2. CASE v \in Word
  <2>1. v # -1
    BY <1>2, InWord
  <2>2. XTyped(Set(n, r, v)) /\ Set(n, r, v).status = n.status
    BY <1>2, XSet
  <2>3. SetNum(n, r, v) = [Set(n, r, v) EXCEPT !.num = r]
    BY <2>1 DEF SetNum
  <2> QED  BY <2>2, <2>3 DEF XTyped, XRec, Core
<1> QED  BY <1>1, <1>2

(* Stored flags and flags by register number tell the same.                *)
LEMMA BothSetFlags ==
  ASSUME NEW m, CTyped(m), NEW n, XTyped(n), Agree(m, n),
         NEW r \in 0 .. 7, NEW v \in Word
  PROVE  Agree(SetsCC(m, r, v), SetNum(n, r, v))
<1>1. v # -1
  BY InWord
<1>2. /\ SetsCC(m, r, v) = [Set(m, r, v) EXCEPT !.cc = SignFlag(v)]
      /\ SetNum(n, r, v) = [Set(n, r, v) EXCEPT !.num = r]
  BY <1>1 DEF SetsCC, SetNum
<1>3. /\ CTyped(Set(m, r, v)) /\ XTyped(Set(n, r, v))
      /\ Set(m, r, v).reg = [m.reg EXCEPT ![r] = v]
      /\ Set(n, r, v).reg = [n.reg EXCEPT ![r] = v]
      /\ Set(m, r, v).mem = m.mem /\ Set(m, r, v).out = m.out
      /\ Set(n, r, v).mem = n.mem /\ Set(n, r, v).out = n.out
      /\ Set(m, r, v).pc = m.pc /\ Set(n, r, v).pc = n.pc
  BY CSet, XSet DEF CTyped, CRec, XTyped, XRec, Set
<1>4. Set(n, r, v).reg[r] = v
  BY <1>3 DEF XTyped, Core
<1> DEFINE m1 == SetsCC(m, r, v)
           n1 == SetNum(n, r, v)
<1>5. /\ m1.reg = Set(m, r, v).reg /\ m1.mem = m.mem /\ m1.out = m.out
      /\ m1.pc = m.pc /\ m1.cc = SignFlag(v)
  BY <1>2, <1>3 DEF CTyped, CRec
<1>6. /\ n1.reg = Set(n, r, v).reg /\ n1.mem = n.mem /\ n1.out = n.out
      /\ n1.pc = n.pc /\ n1.num = r
  BY <1>2, <1>3 DEF XTyped, XRec
<1>7. m1.reg = n1.reg /\ n1.reg[n1.num] = v
  BY <1>3, <1>4, <1>5, <1>6 DEF Agree
<1> HIDE DEF m1, n1
<1> QED  BY <1>5, <1>6, <1>7 DEF Agree, m1, n1

(* A word stored in memory.                                                *)
LEMMA StoredType ==
  ASSUME NEW mem, IsMem(mem), NEW a \in Word, NEW v \in Word
  PROVE  /\ IsMem(Stored(mem, a, v))
         /\ DOMAIN Stored(mem, a, v) = DOMAIN mem \cup {a}
         /\ Stored(mem, a, v)[a] = v
         /\ \A b \in DOMAIN mem : b # a => Stored(mem, a, v)[b] = mem[b]
  BY DEF IsMem, Stored

(* Writing to memory: the C machine stops on an address out of range, the  *)
(* C++ machine goes on.                                                    *)
LEMMA CWrite ==
  ASSUME NEW m, CTyped(m), NEW a \in Word, NEW v \in Word
  PROVE  /\ CTyped(vm_write(m, a, v))
         /\ vm_write(m, a, v).status \in {m.status, "range"}
<1>1. CASE a \in {KBSR, KBDR, DSR}
  BY <1>1 DEF vm_write, KBSR, KBDR, DSR, DDR
<1>2. CASE a \notin {KBSR, KBDR, DSR} /\ a = DDR
  <2>1. vm_write(m, a, v) = [m EXCEPT !.out = Append(@, Cut(v, 8))]
    BY <1>2 DEF vm_write
  <2> QED  BY <2>1 DEF CTyped, CRec, Core
<1>3. CASE a \notin {KBSR, KBDR, DSR, DDR} /\ a >= VM_ADDR_MAX
  <2>1. vm_write(m, a, v) = Stopped(m, "range")
    BY <1>3 DEF vm_write
  <2> QED  BY <2>1, CStopped
<1>4. CASE a \notin {KBSR, KBDR, DSR, DDR} /\ ~(a >= VM_ADDR_MAX)
  <2>1. vm_write(m, a, v) = [m EXCEPT !.mem = Stored(@, a, v)]
    BY <1>4 DEF vm_write
  <2>2. IsMem(Stored(m.mem, a, v))
    BY StoredType DEF CTyped, Core
  <2> QED  BY <2>1, <2>2 DEF CTyped, CRec, Core
<1> QED  BY <1>1, <1>2, <1>3, <1>4

(* A store of the C++ machine, devices included.                           *)
LEMMA XWrite ==
  ASSUME NEW n, XTyped(n), NEW a \in Word, NEW v \in Word
  PROVE  /\ XTyped(MemoryWrite(n, a, v))
         /\ MemoryWrite(n, a, v).status = n.status
         /\ MemoryWrite(n, a, v).num = n.num
<1>1. CASE a \in {KBSR, KBDR, DSR}
  BY <1>1 DEF MemoryWrite, KBSR, KBDR, DSR, DDR
<1>2. CASE a \notin {KBSR, KBDR, DSR} /\ a = DDR
  <2>1. MemoryWrite(n, a, v) = [n EXCEPT !.out = Append(@, Cut(v, 8))]
    BY <1>2 DEF MemoryWrite
  <2> QED  BY <2>1 DEF XTyped, XRec, Core
<1>3. CASE a \notin {KBSR, KBDR, DSR, DDR} /\ a >= LC3_MAX_MEMORY_ADDRESS
  BY <1>3 DEF MemoryWrite
<1>4. CASE a \notin {KBSR, KBDR, DSR, DDR} /\ ~(a >= LC3_MAX_MEMORY_ADDRESS)
  <2>1. MemoryWrite(n, a, v) = [n EXCEPT !.mem = Stored(@, a, v)]
    BY <1>4 DEF MemoryWrite
  <2>2. IsMem(Stored(n.mem, a, v))
    BY StoredType DEF XTyped, Core
  <2> QED  BY <2>1, <2>2 DEF XTyped, XRec, Core
<1> QED  BY <1>1, <1>2, <1>3, <1>4

(* A store inside the address space does the same to both machines.        *)
LEMMA BothWrite ==
  ASSUME NEW m, CTyped(m), NEW n, XTyped(n), Agree(m, n),
         NEW a \in Word, NEW v \in Word,
         vm_write(m, a, v).status # "range"
  PROVE  Agree(vm_write(m, a, v), MemoryWrite(n, a, v))
<1>1. CASE a \in {KBSR, KBDR, DSR}
  BY <1>1 DEF vm_write, MemoryWrite, KBSR, KBDR, DSR, DDR
<1>2. CASE a \notin {KBSR, KBDR, DSR} /\ a = DDR
  <2>1. /\ vm_write(m, a, v) = [m EXCEPT !.out = Append(@, Cut(v, 8))]
        /\ MemoryWrite(n, a, v) = [n EXCEPT !.out = Append(@, Cut(v, 8))]
    BY <1>2 DEF vm_write, MemoryWrite
  <2> QED  BY <2>1 DEF CTyped, CRec, XTyped, XRec, Agree
<1>3. CASE a \notin {KBSR, KBDR, DSR, DDR} /\ a >= VM_ADDR_MAX
  <2>1. vm_write(m, a, v) = Stopped(m, "range")
    BY <1>3 DEF vm_write
  <2> QED  BY <2>1, CStopped
<1>4. CASE a \notin {KBSR, KBDR, DSR, DDR} /\ ~(a >= VM_ADDR_MAX)
  <2>1. /\ vm_write(m, a, v) = [m EXCEPT !.mem = Stored(@, a, v)]
        /\ MemoryWrite(n, a, v) = [n EXCEPT !.mem = Stored(@, a, v)]
    BY <1>4 DEF vm_write, MemoryWrite, VM_ADDR_MAX, LC3_MAX_MEMORY_ADDRESS
  <2> DEFINE p == Stored(m.mem, a, v)
             q == Stored(n.mem, a, v)
  <2>2. /\ vm_write(m, a, v) = [m EXCEPT !.mem = p]
        /\ MemoryWrite(n, a, v) = [n EXCEPT !.mem = q]
    BY <2>1
  <2>3. /\ DOMAIN p = DOMAIN m.mem \cup {a} /\ p[a] = v
        /\ \A b \in DOMAIN m.mem : b # a => p[b] = m.mem[b]
    BY DEF Stored
  <2>4. /\ DOMAIN q = DOMAIN n.mem \cup {a} /\ q[a] = v
        /\ \A b \in DOMAIN n.mem : b # a => q[b] = n.mem[b]
    BY DEF Stored
  <2> HIDE DEF p, q
  <2>5. (\A b \in DOMAIN q : p[b] = q[b]) /\ DOMAIN p = DOMAIN q \cup {MCR}
    BY <2>3, <2>4 DEF Agree
  <2> QED  BY <2>2, <2>5 DEF CTyped, CRec, XTyped, XRec, Agree
<1> QED  BY <1>1, <1>2, <1>3, <1>4

(* What getchar returns, cut to a word; the C++ machine extends the sign   *)
(* of the character first, which makes no difference up to 127.            *)
LEMMA CharType ==
  ASSUME NEW e \in World
  PROVE  /\ W(e.char) \in Word /\ GetChar(e) \in Word
         /\ e.char <= 127 => W(e.char) = GetChar(e)
<1>1. e.char \in Int /\ -1 <= e.char /\ e.char <= 255
  <2>1. e.char \in Chars
    BY DEF World
  <2>2. Chars \subseteq -1 .. 255
    BY VmConstants
  <2>3. \A k \in -1 .. 255 : k \in Int /\ -1 <= k /\ k <= 255
    OBVIOUS
  <2> QED  BY <2>1, <2>2, <2>3
<1>2. INT_VALUE(e.char, 8) \in Int /\ (e.char <= 127 => INT_VALUE(e.char, 8) = e.char)
  <2>1. INT_VALUE(e.char, 8)
          = IF e.char % 256 >= 128 THEN (e.char % 256) - 256 ELSE e.char % 256
    BY Literal
  <2> QED  BY ONLY <1>1, <2>1
<1>3. W(e.char) \in Word /\ GetChar(e) \in Word
  BY <1>1, <1>2, WordCut, ZenonT(60) DEF GetChar
<1>4. e.char <= 127 => W(e.char) = GetChar(e)
  BY <1>2, Zenon DEF GetChar
<1> QED  BY <1>3, <1>4

(* A read gives a word, or -1 out of range.                                *)
LEMMA CRead ==
  ASSUME NEW m, CTyped(m), NEW a \in Word, NEW e \in World
  PROVE  /\ vm_read(m, a, e) = -1 \/ vm_read(m, a, e) \in Word
         /\ a < 256 => vm_read(m, a, e) \in Word
<1>1. 0 \in Word /\ STATUS_BIT \in Word /\ a \in Nat /\ VM_ADDR_MAX = 65535
  BY InWord, Sizes DEF VM_ADDR_MAX
<1>2. IsMem(m.mem)
  BY DEF CTyped, Core
<1> QED
  BY <1>1, <1>2, CharType DEF vm_read, IsMem, KBSR, KBDR, DSR, DDR

(* A load of the C++ machine fails or gives a word.                        *)
LEMMA XRead ==
  ASSUME NEW n, XTyped(n), NEW a \in Word, NEW e \in World
  PROVE  MemoryRead(n, a, e) = -1 \/ MemoryRead(n, a, e) \in Word
<1>1. 0 \in Word /\ STATUS_BIT \in Word /\ a \in Nat
      /\ LC3_MAX_MEMORY_ADDRESS = 65535
  BY InWord, Sizes DEF LC3_MAX_MEMORY_ADDRESS
<1>2. IsMem(n.mem) /\ n.junk \in Word
  BY DEF XTyped, Core
<1> QED
  BY <1>1, <1>2, CharType DEF MemoryRead, IsMem, KBSR, KBDR, DSR, DDR

(* Both machines read the same from a device and from a word that was      *)
(* loaded or stored, if the character has no sign.                         *)
LEMMA BothRead ==
  ASSUME NEW m, CTyped(m), NEW n, XTyped(n), Agree(m, n),
         NEW a \in DOMAIN n.mem \cup {KBSR, KBDR, DSR, DDR},
         NEW e \in World, a = KBDR => e.char <= 127
  PROVE  vm_read(m, a, e) = MemoryRead(n, a, e)
<1>1. CASE a \in {KBSR, KBDR, DSR, DDR}
  BY <1>1, CharType DEF vm_read, MemoryRead, KBSR, KBDR, DSR, DDR
<1>2. CASE a \in DOMAIN n.mem /\ a \notin {KBSR, KBDR, DSR, DDR}
  <2>1. a \in DOMAIN m.mem /\ m.mem[a] = n.mem[a]
    BY <1>2 DEF Agree
  <2> QED
    BY <1>2, <2>1 DEF vm_read, MemoryRead, VM_ADDR_MAX, LC3_MAX_MEMORY_ADDRESS
<1> QED  BY <1>1, <1>2

(* A fetch or a read that succeeds in the C machine.                       *)
LEMMA ThroughType ==
  ASSUME NEW m, CTyped(m), NEW a \in Word, NEW e \in World
  PROVE  Through(m, a, e) = -1 \/ Through(m, a, e) \in Word
  BY CRead DEF Through

----------------------------------------------------------------------------
(***************************************************************************)
(* The instructions by their operation codes.                              *)
(***************************************************************************)
(* The numbers of the operations.                                          *)
LEMMA Opcodes ==
  /\ OPCODE.BR = 0 /\ OPCODE.ADD = 1 /\ OPCODE.LD = 2 /\ OPCODE.ST = 3
  /\ OPCODE.JSR = 4 /\ OPCODE.AND = 5 /\ OPCODE.LDR = 6 /\ OPCODE.STR = 7
  /\ OPCODE.RTI = 8 /\ OPCODE.NOT = 9 /\ OPCODE.LDI = 10 /\ OPCODE.STI = 11
  /\ OPCODE.JMP = 12 /\ OPCODE.RES = 13 /\ OPCODE.LEA = 14 /\ OPCODE.TRAP = 15
  BY DEF OPCODE

\* The operands of an instruction of machine m.
Imm(m, w)  == IF Bits(w, 5, 1) = 1 THEN W(INT_VALUE(w, 5)) ELSE m.reg[Cut(w, 3)]
Near(m, w) == W(m.pc + INT_VALUE(w, 9))
Far(m, w)  == W(m.reg[Bits(w, 6, 3)] + INT_VALUE(w, 6))

(* The operands are words.                                                 *)
LEMMA Operands ==
  ASSUME NEW m, Core(m), NEW w \in Word
  PROVE  /\ Imm(m, w) \in Word /\ Near(m, w) \in Word /\ Far(m, w) \in Word
         /\ m.reg[Bits(w, 9, 3)] \in Word /\ m.reg[Bits(w, 6, 3)] \in Word
         /\ W(m.reg[Bits(w, 6, 3)] + Imm(m, w)) \in Word
         /\ Width - 1 - m.reg[Bits(w, 6, 3)] \in Word
         /\ W(m.pc + INT_VALUE(w, 11)) \in Word
<1>1. /\ m.reg[Bits(w, 9, 3)] \in Word /\ m.reg[Bits(w, 6, 3)] \in Word
      /\ m.reg[Cut(w, 3)] \in Word /\ m.pc \in Word
  BY FieldTypes DEF Core
<1>2. \A v \in Word : v \in Int /\ Width - 1 - v \in Word
  BY InWord, Sizes
<1>3. \A u, v \in Int : W(u) \in Word /\ W(u + v) \in Word
  <2>1. \A u, v \in Int : u + v \in Int
    OBVIOUS
  <2> QED  BY <2>1, WordCut, Zenon
<1>4. Imm(m, w) \in Word /\ Near(m, w) \in Word /\ Far(m, w) \in Word
  BY <1>1, <1>2, <1>3, IntTypes, Zenon DEF Imm, Near, Far
<1>5. /\ W(m.reg[Bits(w, 6, 3)] + Imm(m, w)) \in Word
      /\ W(m.pc + INT_VALUE(w, 11)) \in Word
  BY <1>1, <1>2, <1>3, <1>4, IntTypes, Zenon
<1> QED  BY <1>1, <1>2, <1>4, <1>5

\* The operation code and the first two registers of an instruction.
Op(w) == w \div 2^12
R1(w) == Bits(w, 9, 3)
R2(w) == Bits(w, 6, 3)

(* The C machine on an instruction that computes a value.                  *)
LEMMA CMoves ==
  ASSUME NEW m, NEW w \in Word, NEW e
  PROVE  /\ Op(w) = OPCODE.ADD =>
              vm_perform(m, w, e) =
                SetsCC(m, R1(w), W(m.reg[R2(w)] + Imm(m, w)))
         /\ Op(w) = OPCODE.AND =>
              vm_perform(m, w, e) =
                SetsCC(m, R1(w), And(m.reg[R2(w)], Imm(m, w)))
         /\ Op(w) = OPCODE.NOT =>
              vm_perform(m, w, e) =
                SetsCC(m, R1(w), Width - 1 - m.reg[R2(w)])
         /\ Op(w) = OPCODE.LEA =>
              vm_perform(m, w, e) =
                SetsCC(m, R1(w), Near(m, w))
  BY Opcodes DEF vm_perform, Imm, Near, Far, Op, R1, R2

(* The C machine on an instruction that reads memory.                      *)
LEMMA CLoads ==
  ASSUME NEW m, NEW w \in Word, NEW e
  PROVE  /\ Op(w) = OPCODE.LD =>
              vm_perform(m, w, e) =
                SetsCC(m, R1(w), vm_read(m, Near(m, w), e))
         /\ Op(w) = OPCODE.LDR =>
              vm_perform(m, w, e) =
                SetsCC(m, R1(w), vm_read(m, Far(m, w), e))
         /\ Op(w) = OPCODE.LDI =>
              vm_perform(m, w, e) =
                SetsCC(m, R1(w), Through(m, Near(m, w), e))
  BY Opcodes DEF vm_perform, Imm, Near, Far, Op, R1, R2

(* The C machine on an instruction that writes to memory.                  *)
LEMMA CStores ==
  ASSUME NEW m, NEW w \in Word, NEW e
  PROVE  /\ Op(w) = OPCODE.ST =>
              vm_perform(m, w, e) =
                vm_write(m, Near(m, w), m.reg[R1(w)])
         /\ Op(w) = OPCODE.STR =>
              vm_perform(m, w, e) =
                vm_write(m, Far(m, w), m.reg[R1(w)])
         /\ Op(w) = OPCODE.STI =>
              vm_perform(m, w, e) =
                IF vm_read(m, Near(m, w), e) = -1 THEN Stopped(m, "range")
                   ELSE vm_write(m, vm_read(m, Near(m, w), e), m.reg[R1(w)])
  BY Opcodes DEF vm_perform, Imm, Near, Far, Op, R1, R2

(* The C machine on an instruction that jumps or calls.                    *)
LEMMA CJumps ==
  ASSUME NEW m, NEW w \in Word, NEW e
  PROVE  /\ Op(w) = OPCODE.BR =>
              vm_perform(m, w, e) =
                [m EXCEPT !.pc = IF Wants(R1(w), m.cc) THEN Near(m, w) ELSE m.pc,
                             !.status = IF w = 0 THEN "nop" ELSE @]
         /\ Op(w) = OPCODE.JSR =>
              vm_perform(m, w, e) =
                vm_jsr(m, w)
         /\ Op(w) = OPCODE.JMP =>
              vm_perform(m, w, e) =
                [m EXCEPT !.pc = m.reg[R2(w)]]
         /\ Op(w) = OPCODE.TRAP =>
              vm_perform(m, w, e) =
                vm_trap(m, w, e)
  BY Opcodes DEF vm_perform, Imm, Near, Far, Op, R1, R2

(* The C machine on an instruction that belongs to the extension.          *)
LEMMA CExtras ==
  ASSUME NEW m, NEW w \in Word, NEW e
  PROVE  /\ Op(w) = OPCODE.RTI =>
              vm_perform(m, w, e) =
                Stopped(m, "unimplemented")
         /\ Op(w) = OPCODE.RES =>
              vm_perform(m, w, e) =
                Stopped(m, "unimplemented")
  BY Opcodes DEF vm_perform, Imm, Near, Far, Op, R1, R2

(* The C++ machine on an instruction that computes a value.                *)
LEMMA XMoves ==
  ASSUME NEW n, NEW w \in Word, NEW e
  PROVE  /\ Op(w) = OPCODE.ADD =>
              ExecuteOneInstruction(n, w, e) =
                SetNum(n, R1(w), W(n.reg[R2(w)] + Imm(n, w)))
         /\ Op(w) = OPCODE.AND =>
              ExecuteOneInstruction(n, w, e) =
                SetNum(n, R1(w), And(n.reg[R2(w)], Imm(n, w)))
         /\ Op(w) = OPCODE.NOT =>
              ExecuteOneInstruction(n, w, e) =
                SetNum(n, R1(w), Width - 1 - n.reg[R2(w)])
         /\ Op(w) = OPCODE.LEA =>
              ExecuteOneInstruction(n, w, e) =
                SetNum(n, R1(w), Near(n, w))
  BY Opcodes, SameFields DEF ExecuteOneInstruction, Imm, Near, Far, Op, R1, R2

(* The C++ machine on an instruction that reads memory.                    *)
LEMMA XLoads ==
  ASSUME NEW n, NEW w \in Word, NEW e
  PROVE  /\ Op(w) = OPCODE.LD =>
              ExecuteOneInstruction(n, w, e) =
                SetNum(n, R1(w), MemoryRead(n, Near(n, w), e))
         /\ Op(w) = OPCODE.LDR =>
              ExecuteOneInstruction(n, w, e) =
                SetNum(n, R1(w), MemoryRead(n, Far(n, w), e))
         /\ Op(w) = OPCODE.LDI =>
              ExecuteOneInstruction(n, w, e) =
                IF MemoryRead(n, Near(n, w), e) = -1 THEN n
                   ELSE SetNum(n, R1(w), MemoryRead(n, MemoryRead(n, Near(n, w), e), e))
  BY Opcodes, SameFields DEF ExecuteOneInstruction, Imm, Near, Far, Op, R1, R2

(* The C++ machine on an instruction that writes to memory.                *)
LEMMA XStores ==
  ASSUME NEW n, NEW w \in Word, NEW e
  PROVE  /\ Op(w) = OPCODE.ST =>
              ExecuteOneInstruction(n, w, e) =
                MemoryWrite(n, Near(n, w), n.reg[R1(w)])
         /\ Op(w) = OPCODE.STR =>
              ExecuteOneInstruction(n, w, e) =
                MemoryWrite(n, Far(n, w), n.reg[R1(w)])
         /\ Op(w) = OPCODE.STI =>
              ExecuteOneInstruction(n, w, e) =
                IF MemoryRead(n, Near(n, w), e) \in {-1, LC3_MAX_MEMORY_ADDRESS} THEN n
                   ELSE [MemoryWrite(n, MemoryRead(n, Near(n, w), e), n.reg[R1(w)])
                           EXCEPT !.num = R1(w)]
  BY Opcodes, SameFields DEF ExecuteOneInstruction, Imm, Near, Far, Op, R1, R2

(* The C++ machine on an instruction that jumps or calls.                  *)
LEMMA XJumps ==
  ASSUME NEW n, NEW w \in Word, NEW e
  PROVE  /\ Op(w) = OPCODE.BR =>
              ExecuteOneInstruction(n, w, e) =
                IF w = 0 THEN Stopped(n, "nop")
                   ELSE [n EXCEPT !.pc = IF Wants(R1(w), SignFlag(n.reg[n.num]))
                                       THEN Near(n, w) ELSE @]
         /\ Op(w) = OPCODE.JSR =>
              ExecuteOneInstruction(n, w, e) =
                [Set(n, 7, n.pc) EXCEPT
                      !.pc = IF Bits(w, 11, 1) = 1 THEN W(@ + INT_VALUE(w, 11))
                                                   ELSE n.reg[R2(w)]]
         /\ Op(w) = OPCODE.JMP =>
              ExecuteOneInstruction(n, w, e) =
                [n EXCEPT !.pc = n.reg[R2(w)]]
  BY Opcodes, SameFields DEF ExecuteOneInstruction, Imm, Near, Far, Op, R1, R2

(* The C++ machine on a trap.                                              *)
LEMMA XTraps ==
  ASSUME NEW n, NEW w \in Word, NEW e
  PROVE  Op(w) = OPCODE.TRAP =>
           ExecuteOneInstruction(n, w, e) = ExecuteTrap(n, w, e)
  BY Opcodes, SameFields DEF ExecuteOneInstruction, Op

(* The C++ machine on an instruction that belongs to the extension.        *)
LEMMA XExtras ==
  ASSUME NEW n, NEW w \in Word, NEW e
  PROVE  /\ Op(w) = OPCODE.RTI =>
              ExecuteOneInstruction(n, w, e) =
                n
         /\ Op(w) = OPCODE.RES =>
              ExecuteOneInstruction(n, w, e) =
                ExecuteRes(n, w)
  BY Opcodes, SameFields DEF ExecuteOneInstruction, Imm, Near, Far, Op, R1, R2

(* The operation of a word is one of sixteen; its registers are registers. *)
LEMMA Operations ==
  ASSUME NEW w \in Word
  PROVE  /\ R1(w) \in 0 .. 7 /\ R2(w) \in 0 .. 7
         /\ \/ Op(w) = OPCODE.BR \/ Op(w) = OPCODE.ADD \/ Op(w) = OPCODE.LD
            \/ Op(w) = OPCODE.ST \/ Op(w) = OPCODE.JSR \/ Op(w) = OPCODE.AND
            \/ Op(w) = OPCODE.LDR \/ Op(w) = OPCODE.STR \/ Op(w) = OPCODE.RTI
            \/ Op(w) = OPCODE.NOT \/ Op(w) = OPCODE.LDI \/ Op(w) = OPCODE.STI
            \/ Op(w) = OPCODE.JMP \/ Op(w) = OPCODE.RES \/ Op(w) = OPCODE.LEA
            \/ Op(w) = OPCODE.TRAP
<1>1. Op(w) \in 0 .. 15
  BY FieldTypes DEF Op
<1> QED  BY <1>1, FieldTypes, Opcodes DEF R1, R2

\* The statuses with which the C machine leaves an instruction.
Left(m) == {m.status, "range", "nop", "unimplemented"}

(* Calls of subroutines and traps.                                         *)
LEMMA CJsr ==
  ASSUME NEW m, CTyped(m), NEW w \in Word
  PROVE  CTyped(vm_jsr(m, w)) /\ vm_jsr(m, w).status = m.status
<1> DEFINE to == IF Bits(w, 11, 1) = 1 THEN W(m.pc + INT_VALUE(w, 11))
                                       ELSE m.reg[Bits(w, 6, 3)]
<1>1. to \in Word
  BY Operands DEF CTyped
<1>2. CTyped(Set(m, 7, m.pc)) /\ Set(m, 7, m.pc).status = m.status
  BY CSet DEF CTyped, Core
<1>3. vm_jsr(m, w) = [Set(m, 7, m.pc) EXCEPT !.pc = to]
  BY DEF vm_jsr
<1> HIDE DEF to
<1> QED  BY <1>1, <1>2, <1>3, CJump

(* A trap is GETC or goes to the OS.                                       *)
LEMMA CTrap ==
  ASSUME NEW m, CTyped(m), NEW w \in Word, NEW e \in World
  PROVE  CTyped(vm_trap(m, w, e)) /\ vm_trap(m, w, e).status = m.status
<1>1. CASE Cut(w, 8) = GETC
  <2>1. vm_trap(m, w, e) = Set(m, 0, W(e.char))
    BY <1>1 DEF vm_trap
  <2>2. W(e.char) \in Word /\ 0 \in 0 .. 7
    BY CharType
  <2>3. /\ CTyped(Set(m, 0, W(e.char)))
        /\ Set(m, 0, W(e.char)).status = m.status
    BY <2>2, CSet, Zenon
  <2> QED  BY <2>1, <2>3, Zenon
<1>2. CASE Cut(w, 8) # GETC
  <2> DEFINE to == vm_read(m, Cut(w, 8), e)
  <2>1. vm_trap(m, w, e) = [Set(m, 7, m.pc) EXCEPT !.pc = to]
    BY <1>2 DEF vm_trap
  <2>2. Cut(w, 8) \in Word /\ Cut(w, 8) < 256
    BY FieldTypes, InWord
  <2>3. to \in Word
    BY <2>2, CRead
  <2>4. CTyped(Set(m, 7, m.pc)) /\ Set(m, 7, m.pc).status = m.status
    BY CSet DEF CTyped, Core
  <2> HIDE DEF to
  <2> QED  BY <2>1, <2>3, <2>4, CJump
<1> QED  BY <1>1, <1>2

(* An instruction of the C machine keeps the types, and does not decide    *)
(* the end of the program.                                                 *)
LEMMA CPerform ==
  ASSUME NEW m, CTyped(m), NEW w \in Word, NEW e \in World
  PROVE  CTyped(vm_perform(m, w, e)) /\ vm_perform(m, w, e).status \in Left(m)
<1> DEFINE m1 == vm_perform(m, w, e)
<1> SUFFICES CTyped(m1) /\ m1.status \in Left(m)
  OBVIOUS
<1>1. /\ Imm(m, w) \in Word /\ Near(m, w) \in Word /\ Far(m, w) \in Word
      /\ m.reg[R1(w)] \in Word /\ m.reg[R2(w)] \in Word
      /\ W(m.reg[R2(w)] + Imm(m, w)) \in Word
      /\ Width - 1 - m.reg[R2(w)] \in Word
      /\ R1(w) \in 0 .. 7 /\ m.pc \in Word
  BY Operands, Operations DEF R1, R2, CTyped, Core
<1>2. CASE Op(w) = OPCODE.BR
  <2> DEFINE to == IF Wants(R1(w), m.cc) THEN Near(m, w) ELSE m.pc
             so == IF w = 0 THEN "nop" ELSE m.status
  <2>1. m1 = [m EXCEPT !.pc = to, !.status = so]
    <3>1. m1 = [m EXCEPT !.pc = IF Wants(R1(w), m.cc) THEN Near(m, w) ELSE m.pc,
                         !.status = IF w = 0 THEN "nop" ELSE @]
      BY <1>2, CJumps, ZenonT(90)
    <3>2. CRec(m)
      BY DEF CTyped
    <3> QED  BY <3>1, <3>2 DEF CRec
  <2>2. to \in Word
    BY <1>1
  <2> HIDE DEF to, so, m1
  <2>3. CTyped(m1) /\ m1.status = so
    BY <2>1, <2>2 DEF CTyped, CRec, Core
  <2> QED  BY <2>3 DEF so, m1, Left
<1>3. ASSUME NEW v, v = -1 \/ v \in Word, m1 = SetsCC(m, R1(w), v)
      PROVE  CTyped(m1) /\ m1.status \in Left(m)
  <2> HIDE DEF m1
  <2> QED  BY <1>1, <1>3, CSetsCC DEF Left
<1>4. ASSUME NEW a \in Word, m1 = vm_write(m, a, m.reg[R1(w)])
      PROVE  CTyped(m1) /\ m1.status \in Left(m)
  <2> HIDE DEF m1
  <2> QED  BY <1>1, <1>4, CWrite DEF Left
<1>5. CASE Op(w) = OPCODE.ADD
  <2>1. m1 = SetsCC(m, R1(w), W(m.reg[R2(w)] + Imm(m, w)))
    BY <1>5, CMoves, Zenon
  <2>2. W(m.reg[R2(w)] + Imm(m, w)) = -1 \/ W(m.reg[R2(w)] + Imm(m, w)) \in Word
    BY <1>1
  <2> QED  BY <2>1, <2>2, <1>3, Zenon
<1>6. CASE Op(w) = OPCODE.AND
  <2>1. m1 = SetsCC(m, R1(w), And(m.reg[R2(w)], Imm(m, w)))
    BY <1>6, CMoves, Zenon
  <2>2. And(m.reg[R2(w)], Imm(m, w)) = -1 \/ And(m.reg[R2(w)], Imm(m, w)) \in Word
    BY <1>1, AndType
  <2> QED  BY <2>1, <2>2, <1>3, Zenon
<1>7. CASE Op(w) = OPCODE.NOT
  <2>1. m1 = SetsCC(m, R1(w), Width - 1 - m.reg[R2(w)])
    BY <1>7, CMoves, Zenon
  <2>2. Width - 1 - m.reg[R2(w)] = -1 \/ Width - 1 - m.reg[R2(w)] \in Word
    BY <1>1
  <2> QED  BY <2>1, <2>2, <1>3, Zenon
<1>8. CASE Op(w) = OPCODE.LEA
  <2>1. m1 = SetsCC(m, R1(w), Near(m, w))
    BY <1>8, CMoves, Zenon
  <2>2. Near(m, w) = -1 \/ Near(m, w) \in Word
    BY <1>1
  <2> QED  BY <2>1, <2>2, <1>3, Zenon
<1>9. CASE Op(w) = OPCODE.LD
  <2>1. m1 = SetsCC(m, R1(w), vm_read(m, Near(m, w), e))
    BY <1>9, CLoads, Zenon
  <2>2. vm_read(m, Near(m, w), e) = -1 \/ vm_read(m, Near(m, w), e) \in Word
    BY <1>1, CRead
  <2> QED  BY <2>1, <2>2, <1>3, Zenon
<1>10. CASE Op(w) = OPCODE.LDI
  <2>1. m1 = SetsCC(m, R1(w), Through(m, Near(m, w), e))
    BY <1>10, CLoads, Zenon
  <2>2. Through(m, Near(m, w), e) = -1 \/ Through(m, Near(m, w), e) \in Word
    BY <1>1, ThroughType
  <2> QED  BY <2>1, <2>2, <1>3, Zenon
<1>11. CASE Op(w) = OPCODE.LDR
  <2>1. m1 = SetsCC(m, R1(w), vm_read(m, Far(m, w), e))
    BY <1>11, CLoads, Zenon
  <2>2. vm_read(m, Far(m, w), e) = -1 \/ vm_read(m, Far(m, w), e) \in Word
    BY <1>1, CRead
  <2> QED  BY <2>1, <2>2, <1>3, Zenon
<1>12. CASE Op(w) = OPCODE.ST
  <2>1. m1 = vm_write(m, Near(m, w), m.reg[R1(w)])
    BY <1>12, CStores, Zenon
  <2> QED  BY <2>1, <1>1, <1>4, Zenon
<1>13. CASE Op(w) = OPCODE.STR
  <2>1. m1 = vm_write(m, Far(m, w), m.reg[R1(w)])
    BY <1>13, CStores, Zenon
  <2> QED  BY <2>1, <1>1, <1>4, Zenon
<1>14. CASE Op(w) = OPCODE.STI
  <2> DEFINE p == vm_read(m, Near(m, w), e)
  <2>1. m1 = IF p = -1 THEN Stopped(m, "range") ELSE vm_write(m, p, m.reg[R1(w)])
    BY <1>14, CStores, Zenon
  <2>2. p = -1 \/ p \in Word
    BY <1>1, CRead
  <2> HIDE DEF p, m1
  <2>3. CASE p = -1
    BY <2>1, <2>3, CStopped DEF Left
  <2>4. CASE p # -1
    BY <2>1, <2>2, <2>4, <1>4
  <2> QED  BY <2>3, <2>4
<1>15. CASE Op(w) = OPCODE.JMP
  <2>1. m1 = [m EXCEPT !.pc = m.reg[R2(w)]]
    BY <1>15, CJumps, Zenon
  <2> HIDE DEF m1
  <2> QED  BY <2>1, <1>1, CJump DEF Left
<1>16. CASE Op(w) = OPCODE.JSR
  <2>1. m1 = vm_jsr(m, w)
    BY <1>16, CJumps, Zenon
  <2> HIDE DEF m1
  <2> QED  BY <2>1, CJsr DEF Left
<1>17. CASE Op(w) = OPCODE.TRAP
  <2>1. m1 = vm_trap(m, w, e)
    BY <1>17, CJumps, ZenonT(60)
  <2> HIDE DEF m1
  <2> QED  BY <2>1, CTrap DEF Left
<1>18. CASE Op(w) = OPCODE.RTI
  <2>1. m1 = Stopped(m, "unimplemented")
    BY <1>18, CExtras, Zenon
  <2> HIDE DEF m1
  <2> QED  BY <2>1, CStopped DEF Left
<1>19. CASE Op(w) = OPCODE.RES
  <2>1. m1 = Stopped(m, "unimplemented")
    BY <1>19, CExtras, Zenon
  <2> HIDE DEF m1
  <2> QED  BY <2>1, CStopped DEF Left
<1> QED
  BY <1>2, <1>5, <1>6, <1>7, <1>8, <1>9, <1>10, <1>11, <1>12,
     <1>13, <1>14, <1>15, <1>16, <1>17, <1>18, <1>19, Operations

(* Shifting a word by up to 15 bits.                                       *)
LEMMA Shifts ==
  ASSUME NEW a \in Word, NEW k \in 0 .. 15
  PROVE  a * 2^k \in Int /\ a \div 2^k \in Word
<1>1. a \in Nat /\ a < 65536
  BY InWord
<1>2. ASSUME NEW d \in Nat \ {0} PROVE a * d \in Int /\ a \div d \in Word
  <2>1. a * d \in Int /\ a \div d \in Nat /\ a \div d <= a
    BY <1>1
  <2> QED  BY <1>1, <2>1, InWord
<1>3. 2^k \in Nat \ {0}
  <2>1. \/ k = 0 \/ k = 1 \/ k = 2 \/ k = 3 \/ k = 4 \/ k = 5 \/ k = 6 \/ k = 7
        \/ k = 8 \/ k = 9 \/ k = 10 \/ k = 11 \/ k = 12 \/ k = 13 \/ k = 14
        \/ k = 15
    OBVIOUS
  <2> DEFINE P(d) == d \in Nat \ {0}
  <2>2. /\ P(2^0) /\ P(2^1) /\ P(2^2) /\ P(2^3) /\ P(2^4) /\ P(2^5) /\ P(2^6)
        /\ P(2^7) /\ P(2^8) /\ P(2^9) /\ P(2^10) /\ P(2^11) /\ P(2^12)
        /\ P(2^13) /\ P(2^14) /\ P(2^15)
    OBVIOUS
  <2> HIDE DEF P
  <2>3. P(2^k)
    BY <2>1, <2>2, Zenon
  <2> QED  BY <2>3 DEF P
<1> QED  BY <1>2, <1>3, Zenon

(* The reserved operation keeps the types; a division by zero ends the     *)
(* program.                                                                *)
LEMMA XRes ==
  ASSUME NEW n, XTyped(n), NEW w \in Word
  PROVE  /\ XTyped(ExecuteRes(n, w))
         /\ ExecuteRes(n, w).status \in {n.status, "crashed"}
<1> DEFINE a   == n.reg[R2(w)]
           b   == n.reg[Cut(w, 3)]
           sa  == INT_VALUE(a, 16)
           sb  == INT_VALUE(b, 16)
           par == Bits(w, 3, 3)
           by  == (IF par >= 5 THEN w % 2^3 ELSE b) % 32
           left  == IF by >= 16 THEN 0 ELSE W(a * 2^by)
           right == IF by >= 16 THEN 0 ELSE a \div 2^by
           n1  == ExecuteRes(n, w)
<1> SUFFICES XTyped(n1) /\ n1.status \in {n.status, "crashed"}
  OBVIOUS
<1>1. /\ a \in Word /\ b \in Word /\ R1(w) \in 0 .. 7 /\ par \in 0 .. 7
      /\ 0 \in Word
  <2>1. par \in 0 .. 7
    BY InWord, Literal
  <2>2. a \in Word /\ b \in Word /\ R1(w) \in 0 .. 7
    BY FieldTypes, Operations DEF XTyped, Core
  <2> QED  BY <2>1, <2>2, InWord
<1>2. by \in 0 .. 31
  BY <1>1, InWord
<1>3. left \in Word /\ right \in Word
  <2> HIDE DEF a, by
  <2>1. CASE by >= 16
    BY <2>1, <1>1
  <2>2. CASE ~(by >= 16)
    <3>1. by \in 0 .. 15
      BY <2>2, <1>2
    <3> QED  BY <3>1, <2>2, <1>1, Shifts, WordCut
  <2> QED  BY <2>1, <2>2
<1>4. sa \in Int /\ sb \in Int /\ (b # 0 => sb # 0)
  <2>1. sa \in Int /\ sb \in Int
    BY <1>1, IntTypes
  <2>2. b # 0 => sb # 0
    BY <1>1, InWord, Literal
  <2> QED  BY <2>1, <2>2
<1>5. b # 0 => /\ W(Quotient(sa, sb)) \in Word
               /\ W(sa - sb * Quotient(sa, sb)) \in Word
  <2> HIDE DEF sa, sb
  <2>1. b # 0 => Quotient(sa, sb) \in Int
    BY <1>4 DEF Quotient
  <2>2. \A q \in Int : sa - sb * q \in Int
    BY <1>4
  <2> QED  BY <2>1, <2>2, WordCut
<1>6. W((sa * (b % 256)) + (W(sa * (b \div 256)) * 256)) \in Word
  <2> HIDE DEF sa, sb
  <2>1. b % 256 \in Int /\ b \div 256 \in Int /\ 256 \in Int
    BY <1>1, InWord
  <2>2. /\ \A u, v \in Int : u * v \in Int
        /\ \A u, v \in Int : u + v \in Int
    OBVIOUS
  <2>3. \A u \in Int : W(u) \in Int /\ W(u) \in Word
    <3>1. \A v \in Word : v \in Int
      BY InWord
    <3> QED  BY <3>1, WordCut, Zenon
  <2>4. sa * (b % 256) \in Int /\ W(sa * (b \div 256)) \in Int
    BY <1>4, <2>1, <2>2, <2>3
  <2>5. W(sa * (b \div 256)) * 256 \in Int
    BY <2>1, <2>2, <2>4, ZenonT(60)
  <2> QED  BY <2>2, <2>3, <2>4, <2>5, ZenonT(60)
<1>7. ASSUME NEW v \in Word, n1 = SetNum(n, R1(w), v)
      PROVE  XTyped(n1) /\ n1.status \in {n.status, "crashed"}
  <2> HIDE DEF n1, a, b, sa, sb, par, by
  <2> QED  BY <1>1, <1>7, XSetNum
<1>8. /\ REG_NUM1(w, Format16) = R1(w) /\ n.reg[REG_NUM2(w, Format16)] = a
      /\ n.reg[REG_NUM3(w, Format16)] = b /\ PARAM_AFTER_NUM2(w, Format16) = par
      /\ UINT_AFTER_PARAM(w, Format16) = w % 2^3
  BY SameFields DEF R1, R2
<1>9. n1 = CASE par \in {0, 5} -> SetNum(n, R1(w), left)
             [] par \in {1, 6} -> SetNum(n, R1(w), right)
             [] par \in {2, 3} /\ b = 0 -> Stopped(n, "crashed")
             [] par = 2 /\ b # 0 -> SetNum(n, R1(w), W(Quotient(sa, sb)))
             [] par = 3 /\ b # 0 ->
                  SetNum(n, R1(w), W(sa - sb * Quotient(sa, sb)))
             [] par = 4 -> SetNum(n, R1(w), W((sa * (b % 256))
                                     + (W(sa * (b \div 256)) * 256)))
             [] par = 7 -> [n EXCEPT !.num = R1(w)]
  BY <1>8, ZenonT(60) DEF ExecuteRes
<1> HIDE DEF a, b, sa, sb, par, left, right, n1, by
<1>10. CASE par \in {2, 3} /\ b = 0
  <2>1. n1 = Stopped(n, "crashed")
    BY <1>9, <1>10
  <2> QED  BY <2>1, XStopped
<1>11. CASE par = 7
  <2>1. n1 = [n EXCEPT !.num = R1(w)]
    BY <1>9, <1>11
  <2> QED  BY <2>1, <1>1 DEF XTyped, XRec, Core
<1>12. CASE par \in {0, 5}
  <2>1. n1 = SetNum(n, R1(w), left)
    BY <1>9, <1>12
  <2> QED  BY <2>1, <1>3, <1>7, Zenon
<1>13. CASE par \in {1, 6}
  <2>1. n1 = SetNum(n, R1(w), right)
    BY <1>9, <1>13
  <2> QED  BY <2>1, <1>3, <1>7, Zenon
<1>14. CASE par = 2 /\ b # 0
  <2>1. n1 = SetNum(n, R1(w), W(Quotient(sa, sb)))
    BY <1>9, <1>14
  <2> QED  BY <2>1, <1>5, <1>7, <1>14, Zenon
<1>15. CASE par = 3 /\ b # 0
  <2>1. n1 = SetNum(n, R1(w), W(sa - sb * Quotient(sa, sb)))
    BY <1>9, <1>15
  <2> QED  BY <2>1, <1>5, <1>7, <1>15, Zenon
<1>16. CASE par = 4
  <2>1. n1 = SetNum(n, R1(w), W((sa * (b % 256)) + (W(sa * (b \div 256)) * 256)))
    BY <1>9, <1>16
  <2> QED  BY <2>1, <1>6, <1>7, Zenon
<1> QED
  BY <1>1, <1>10, <1>11, <1>12, <1>13, <1>14, <1>15, <1>16

(* The traps of the C++ machine.                                           *)
LEMMA XTrap ==
  ASSUME NEW n, XTyped(n), NEW w \in Word, NEW e \in World
  PROVE  XTyped(ExecuteTrap(n, w, e)) /\ ExecuteTrap(n, w, e).status = n.status
<1> DEFINE a  == W(INT_AFTER_OPER(w, Format16))
           to == MemoryRead(n, a, e)
           n1 == ExecuteTrap(n, w, e)
<1> SUFFICES XTyped(n1) /\ n1.status = n.status
  OBVIOUS
<1>1. a \in Word /\ 0 \in 0 .. 7 /\ 7 \in 0 .. 7
  BY SameFields, IntTypes, WordCut
<1>2. to = -1 \/ to \in Word
  BY <1>1, XRead
<1>3. CASE a = GETC
  <2>1. n1 = Set(n, 0, GetChar(e))
    BY <1>3 DEF ExecuteTrap
  <2> HIDE DEF n1
  <2> QED  BY <1>1, <2>1, CharType, XSet
<1>4. CASE a # GETC
  <2> DEFINE s  == Set(n, 7, n.pc)
             pc == IF to = -1 THEN n.pc ELSE to
  <2>1. XTyped(s) /\ s.status = n.status /\ s.pc = n.pc
    BY <1>1, XSet DEF XTyped, Core
  <2>2. n1 = [s EXCEPT !.pc = IF to = -1 THEN @ ELSE to]
    BY <1>4 DEF ExecuteTrap
  <2>3. pc \in Word
    BY <1>2 DEF XTyped, Core
  <2> HIDE DEF s, n1, a, to
  <2>4. n1 = [s EXCEPT !.pc = pc]
    BY <2>1, <2>2 DEF XTyped, XRec
  <2> HIDE DEF pc
  <2> QED  BY <2>1, <2>3, <2>4, XJump
<1> QED  BY <1>3, <1>4

(* An instruction of the C++ machine keeps the types; it ends the program  *)
(* by the instruction 0 or a division by zero only.                        *)
LEMMA XExecute ==
  ASSUME NEW n, XTyped(n), NEW w \in Word, NEW e \in World
  PROVE  /\ XTyped(ExecuteOneInstruction(n, w, e))
         /\ ExecuteOneInstruction(n, w, e).status \in {n.status, "nop", "crashed"}
<1> DEFINE n1 == ExecuteOneInstruction(n, w, e)
           ptr == MemoryRead(n, Near(n, w), e)
           Good == XTyped(n1) /\ n1.status \in {n.status, "nop", "crashed"}
<1> SUFFICES Good
  OBVIOUS
<1>1. /\ Imm(n, w) \in Word /\ Near(n, w) \in Word /\ Far(n, w) \in Word
      /\ n.reg[R1(w)] \in Word /\ n.reg[R2(w)] \in Word
      /\ W(n.reg[R2(w)] + Imm(n, w)) \in Word
      /\ Width - 1 - n.reg[R2(w)] \in Word
      /\ W(n.pc + INT_VALUE(w, 11)) \in Word
      /\ R1(w) \in 0 .. 7 /\ n.pc \in Word
  BY Operands, Operations DEF R1, R2, XTyped, Core
<1>2. ptr = -1 \/ ptr \in Word
  BY <1>1, XRead
<1>3. ASSUME NEW v, v = -1 \/ v \in Word, n1 = SetNum(n, R1(w), v)
      PROVE  Good
  <2> HIDE DEF n1
  <2> QED  BY <1>1, <1>3, XSetNum
<1>4. ASSUME NEW a \in Word, n1 = MemoryWrite(n, a, n.reg[R1(w)])
      PROVE  Good
  <2> HIDE DEF n1
  <2> QED  BY <1>1, <1>4, XWrite, ZenonT(60)
<1>5. ASSUME n1 = n PROVE Good
  <2> HIDE DEF n1
  <2> QED  BY <1>5
<1>6. CASE Op(w) = OPCODE.ADD
  <2>1. n1 = SetNum(n, R1(w), W(n.reg[R2(w)] + Imm(n, w)))
    BY <1>6, XMoves, Zenon
  <2>2. W(n.reg[R2(w)] + Imm(n, w)) = -1 \/ W(n.reg[R2(w)] + Imm(n, w)) \in Word
    BY <1>1
  <2> QED  BY <2>1, <2>2, <1>3, Zenon
<1>7. CASE Op(w) = OPCODE.AND
  <2>1. n1 = SetNum(n, R1(w), And(n.reg[R2(w)], Imm(n, w)))
    BY <1>7, XMoves, Zenon
  <2>2. And(n.reg[R2(w)], Imm(n, w)) = -1 \/ And(n.reg[R2(w)], Imm(n, w)) \in Word
    BY <1>1, AndType
  <2> QED  BY <2>1, <2>2, <1>3, Zenon
<1>8. CASE Op(w) = OPCODE.NOT
  <2>1. n1 = SetNum(n, R1(w), Width - 1 - n.reg[R2(w)])
    BY <1>8, XMoves, Zenon
  <2>2. Width - 1 - n.reg[R2(w)] = -1 \/ Width - 1 - n.reg[R2(w)] \in Word
    BY <1>1
  <2> QED  BY <2>1, <2>2, <1>3, Zenon
<1>9. CASE Op(w) = OPCODE.LEA
  <2>1. n1 = SetNum(n, R1(w), Near(n, w))
    BY <1>9, XMoves, Zenon
  <2>2. Near(n, w) = -1 \/ Near(n, w) \in Word
    BY <1>1
  <2> QED  BY <2>1, <2>2, <1>3, Zenon
<1>10. CASE Op(w) = OPCODE.LD
  <2>1. n1 = SetNum(n, R1(w), ptr)
    BY <1>10, XLoads, Zenon
  <2>2. ptr = -1 \/ ptr \in Word
    BY <1>2
  <2> QED  BY <2>1, <2>2, <1>3, Zenon
<1>11. CASE Op(w) = OPCODE.LDR
  <2>1. n1 = SetNum(n, R1(w), MemoryRead(n, Far(n, w), e))
    BY <1>11, XLoads, Zenon
  <2>2. MemoryRead(n, Far(n, w), e) = -1 \/ MemoryRead(n, Far(n, w), e) \in Word
    BY <1>1, XRead
  <2> QED  BY <2>1, <2>2, <1>3, Zenon
<1>12. CASE Op(w) = OPCODE.LDI
  <2> DEFINE v == MemoryRead(n, ptr, e)
  <2>1. n1 = IF ptr = -1 THEN n ELSE SetNum(n, R1(w), v)
    BY <1>12, XLoads, Zenon
  <2>2. ptr \in Word => v = -1 \/ v \in Word
    BY XRead
  <2> HIDE DEF v, n1, ptr, Good
  <2> QED  BY <1>2, <1>3, <1>5, <2>1, <2>2
<1>13. CASE Op(w) = OPCODE.ST
  <2>1. n1 = MemoryWrite(n, Near(n, w), n.reg[R1(w)])
    BY <1>13, XStores, Zenon
  <2> QED  BY <2>1, <1>1, <1>4, Zenon
<1>14. CASE Op(w) = OPCODE.STR
  <2>1. n1 = MemoryWrite(n, Far(n, w), n.reg[R1(w)])
    BY <1>14, XStores, Zenon
  <2> QED  BY <2>1, <1>1, <1>4, Zenon
<1>15. CASE Op(w) = OPCODE.STI
  <2> DEFINE s == MemoryWrite(n, ptr, n.reg[R1(w)])
  <2>1. n1 = IF ptr \in {-1, LC3_MAX_MEMORY_ADDRESS} THEN n
             ELSE [s EXCEPT !.num = R1(w)]
    BY <1>15, XStores, Zenon
  <2>2. ptr \in Word => XTyped(s) /\ s.status = n.status
    BY <1>1, XWrite, ZenonT(40)
  <2> HIDE DEF s, n1, ptr
  <2>3. ptr \in Word => /\ XTyped([s EXCEPT !.num = R1(w)])
                        /\ [s EXCEPT !.num = R1(w)].status = n.status
    BY <1>1, <2>2 DEF XTyped, XRec, Core
  <2> QED  BY <1>2, <1>5, <2>1, <2>3
<1>16. CASE Op(w) = OPCODE.BR
  <2> DEFINE to == IF Wants(R1(w), SignFlag(n.reg[n.num])) THEN Near(n, w)
                   ELSE n.pc
  <2>1. n1 = IF w = 0 THEN Stopped(n, "nop") ELSE [n EXCEPT !.pc = to]
    BY <1>16, XJumps
  <2>2. to \in Word
    BY <1>1
  <2> HIDE DEF n1, to
  <2> QED  BY <2>1, <2>2, XStopped, XJump
<1>17. CASE Op(w) = OPCODE.JMP
  <2>1. n1 = [n EXCEPT !.pc = n.reg[R2(w)]]
    BY <1>17, XJumps, Zenon
  <2> HIDE DEF n1
  <2> QED  BY <2>1, <1>1, XJump
<1>18. CASE Op(w) = OPCODE.JSR
  <2> DEFINE s  == Set(n, 7, n.pc)
             to == IF Bits(w, 11, 1) = 1 THEN W(n.pc + INT_VALUE(w, 11))
                                         ELSE n.reg[R2(w)]
  <2>a. 7 \in 0 .. 7
    OBVIOUS
  <2>1. XTyped(s) /\ s.status = n.status /\ s.pc = n.pc
    BY <1>1, <2>a, XSet, Zenon
  <2>2. n1 = [s EXCEPT !.pc = IF Bits(w, 11, 1) = 1 THEN W(@ + INT_VALUE(w, 11))
                                                   ELSE n.reg[R2(w)]]
    BY <1>18, XJumps, ZenonT(40)
  <2>3. to \in Word
    BY <1>1
  <2> HIDE DEF s, n1
  <2>4. n1 = [s EXCEPT !.pc = to]
    BY <2>1, <2>2 DEF XTyped, XRec
  <2> HIDE DEF to
  <2> QED  BY <2>1, <2>3, <2>4, XJump
<1>19. CASE Op(w) = OPCODE.TRAP
  <2>1. n1 = ExecuteTrap(n, w, e)
    BY <1>19, XTraps, Zenon
  <2> HIDE DEF n1
  <2> QED  BY <2>1, XTrap
<1>20. CASE Op(w) = OPCODE.RTI
  BY <1>5, <1>20, XExtras, Zenon
<1>21. CASE Op(w) = OPCODE.RES
  <2>1. n1 = ExecuteRes(n, w)
    BY <1>21, XExtras, Zenon
  <2> HIDE DEF n1
  <2> QED  BY <2>1, XRes
<1> HIDE DEF Good
<1> QED
  BY <1>6, <1>7, <1>8, <1>9, <1>10, <1>11, <1>12, <1>13, <1>14,
     <1>15, <1>16, <1>17, <1>18, <1>19, <1>20, <1>21, Operations

(* One turn of the loop of the C machine.                                  *)
LEMMA CRun ==
  ASSUME NEW m, CTyped(m), NEW e \in World
  PROVE  /\ CTyped(vm_run(m, e))
         /\ vm_run(m, e).status \in Left(m) \cup {"mcr"}
<1> DEFINE w  == vm_read(m, m.pc, e)
           go == [m EXCEPT !.pc = W(@ + 1)]
           m1 == vm_run(m, e)
<1> SUFFICES CTyped(m1) /\ m1.status \in Left(m) \cup {"mcr"}
  OBVIOUS
<1>1. m.pc \in Word /\ W(m.pc + 1) \in Word
  <2>1. m.pc \in Word /\ m.pc + 1 \in Int
    BY InWord DEF CTyped, Core
  <2> QED  BY <2>1, WordCut
<1>2. go = [m EXCEPT !.pc = W(m.pc + 1)]
  BY DEF CTyped, CRec
<1>3. CTyped(go) /\ go.status = m.status
  <2> HIDE DEF go
  <2> QED  BY <1>1, <1>2, CJump
<1>4. w = -1 \/ w \in Word
  BY <1>1, CRead
<1>5. \/ m1 = Stopped(m, "mcr") \/ m1 = Stopped(m, "range")
      \/ w # -1 /\ m1 = vm_perform(go, w, e)
  BY DEF vm_run
<1> HIDE DEF go, w, m1
<1>6. ASSUME w \in Word
      PROVE  /\ CTyped(vm_perform(go, w, e))
             /\ vm_perform(go, w, e).status \in Left(go)
  BY <1>3, <1>6, CPerform
<1> QED  BY <1>3, <1>4, <1>5, <1>6, CStopped DEF Left

(* One turn of the loop of the C++ machine.                                *)
LEMMA XRun ==
  ASSUME NEW n, XTyped(n), NEW e \in World
  PROVE  /\ XTyped(Run(n, e))
         /\ Run(n, e).status \in {n.status, "nop", "crashed", "limit"}
<1> DEFINE w    == MemoryRead(n, n.pc, e)
           go   == [n EXCEPT !.pc = W(@ + 1)]
           done == IF w = -1 THEN n ELSE ExecuteOneInstruction(go, w, e)
           last == n.ran + 1 = MaxExecute * MaxRuns
           n1   == Run(n, e)
<1> SUFFICES XTyped(n1) /\ n1.status \in {n.status, "nop", "crashed", "limit"}
  OBVIOUS
<1>1. n.pc \in Word /\ W(n.pc + 1) \in Word
  <2>1. n.pc \in Word /\ n.pc + 1 \in Int
    BY InWord DEF XTyped, Core
  <2> QED  BY <2>1, WordCut
<1>2. go = [n EXCEPT !.pc = W(n.pc + 1)]
  BY DEF XTyped, XRec
<1>3. XTyped(go) /\ go.status = n.status
  <2> HIDE DEF go
  <2> QED  BY <1>1, <1>2, XJump
<1>4. w = -1 \/ w \in Word
  BY <1>1, XRead
<1>5. XTyped(done) /\ done.status \in {n.status, "nop", "crashed"}
  <2> HIDE DEF go, w
  <2>1. CASE w = -1
    BY <2>1
  <2>2. CASE w # -1
    <3>1. w \in Word
      BY <2>2, <1>4
    <3> QED  BY <2>2, <3>1, <1>3, XExecute
  <2> QED  BY <2>1, <2>2
<1>6. n1 = [done EXCEPT !.ran = @ + 1,
                        !.status = IF @ = "running" /\ last THEN "limit" ELSE @]
  BY DEF Run
<1> HIDE DEF done, n1, last
<1> DEFINE so == IF done.status = "running" /\ last THEN "limit" ELSE done.status
           ro == done.ran + 1
<1>7. n1 = [done EXCEPT !.ran = ro, !.status = so]
  BY <1>5, <1>6 DEF XTyped, XRec
<1>8. ro \in Nat
  BY <1>5 DEF XTyped
<1>9. so \in {done.status, "limit"}
  OBVIOUS
<1> HIDE DEF so, ro
<1>10. XTyped(n1) /\ n1.status = so
  BY <1>5, <1>7, <1>8 DEF XTyped, XRec, Core
<1> QED  BY <1>5, <1>9, <1>10

(* Memory after the words of a file were put into it.                      *)
LEMMA FilledType ==
  ASSUME NEW mem, IsMem(mem), NEW f \in Files \cup {Os},
         NEW is \in SUBSET (1 .. Len(f.words)),
         \A i \in is : f.start + i - 1 < 65536
  PROVE  IsMem(Filled(mem, f, is))
<1> DEFINE there == {f.start + i - 1 : i \in is}
<1>1. f.start \in Word /\ f.words \in Seq(Word)
  BY VmConstants
<1>2. ASSUME NEW a \in there PROVE a \in Word /\ f.words[a - f.start + 1] \in Word
  <2>1. PICK i \in is : a = f.start + i - 1
    OBVIOUS
  <2>2. i \in 1 .. Len(f.words) /\ Len(f.words) \in Nat /\ f.start \in Nat
    BY <1>1, InWord
  <2>3. a - f.start + 1 = i /\ a \in Nat /\ a < 65536
    BY <2>1, <2>2
  <2>4. f.words[i] \in Word
    BY <1>1, <2>2
  <2> QED  BY <2>3, <2>4, InWord
<1>3. Filled(mem, f, is) =
        [a \in DOMAIN mem \cup there |->
           IF a \in there THEN f.words[a - f.start + 1] ELSE mem[a]]
  BY DEF Filled
<1> HIDE DEF there
<1> QED  BY <1>2, <1>3 DEF IsMem

(* Loading a file into the C machine.                                      *)
LEMMA CLoad ==
  ASSUME NEW m, CTyped(m), NEW f \in Files \cup {Os}
  PROVE  /\ CTyped(vm_load_data(m, f))
         /\ vm_load_data(m, f).status \in {m.status, "aborted"}
<1>1. f.start \in Nat /\ f.start \in Word /\ Len(f.words) \in Nat
  BY VmConstants, InWord
<1>2. CASE f.start + Len(f.words) >= VM_ADDR_MAX
  BY <1>2, CStopped DEF vm_load_data
<1>3. CASE ~(f.start + Len(f.words) >= VM_ADDR_MAX)
  <2> DEFINE mem == Filled(m.mem, f, 1 .. Len(f.words))
  <2>1. vm_load_data(m, f) = [m EXCEPT !.pc = f.start, !.mem = mem]
    BY <1>3 DEF vm_load_data, CTyped, CRec
  <2>2. \A i \in 1 .. Len(f.words) : f.start + i - 1 < 65536
    BY <1>1, <1>3, Sizes DEF VM_ADDR_MAX
  <2>3. IsMem(m.mem)
    BY DEF CTyped, Core
  <2>4. IsMem(mem)
    BY <2>2, <2>3, FilledType
  <2> HIDE DEF mem
  <2> QED  BY <1>1, <2>1, <2>4 DEF CTyped, CRec, Core
<1> QED  BY <1>2, <1>3

(* Loading a file into the C++ machine.                                    *)
LEMMA XLoad ==
  ASSUME NEW n, XTyped(n), NEW f \in Files \cup {Os}
  PROVE  /\ XTyped(LoadData(n, f))
         /\ LoadData(n, f).status \in {n.status, "toolarge"}
<1> DEFINE k    == W(Len(f.words))
           fits == {i \in 1 .. k : f.start + i - 1 < LC3_MAX_MEMORY_ADDRESS}
           mem  == Filled(n.mem, f, fits)
<1>1. f.start \in Nat /\ f.start \in Word /\ Len(f.words) \in Nat
  BY VmConstants, InWord
<1>2. k \in Nat /\ k <= Len(f.words)
  <2> DEFINE l == Len(f.words)
  <2>1. \A v \in Nat : W(v) = v % 65536 /\ v % 65536 \in Nat /\ v % 65536 <= v
    BY Sizes DEF W
  <2>2. l \in Nat
    BY <1>1
  <2> HIDE DEF l
  <2>3. W(l) \in Nat /\ W(l) <= l
    BY <2>1, <2>2
  <2> QED  BY <2>3 DEF l
<1>3. LC3_MAX_MEMORY_ADDRESS = 65535
  BY Sizes DEF LC3_MAX_MEMORY_ADDRESS
<1>4. fits \in SUBSET (1 .. Len(f.words))
  <2> HIDE DEF k
  <2> QED  BY <1>1, <1>2
<1>5. \A i \in fits : f.start + i - 1 < 65536
  <2> HIDE DEF k
  <2> QED  BY <1>1, <1>2, <1>3
<1>6. IsMem(n.mem)
  BY DEF XTyped, Core
<1>7. IsMem(mem)
  <2> HIDE DEF fits
  <2> QED  BY <1>4, <1>5, <1>6, FilledType
<1>8. \/ LoadData(n, f) = [n EXCEPT !.mem = mem, !.status = "toolarge"]
      \/ LoadData(n, f) = [n EXCEPT !.mem = mem, !.pc = f.start]
  BY DEF LoadData
<1> HIDE DEF mem
<1> QED  BY <1>1, <1>7, <1>8 DEF XTyped, XRec, Core

----------------------------------------------------------------------------
(***************************************************************************)
(* Types.                                                                  *)
(***************************************************************************)
Typed ==
  /\ CTyped(c) /\ XTyped(x)
  /\ file \in Files \cup {NoFile}
  /\ tty \in {"cooked", "raw"} /\ armed \in BOOLEAN

(* Before it is loaded, each machine is as it was created.                 *)
Fresh ==
  c.status = "boot" => c = vm_create /\ \E j \in Garbage : x = Registers(j)

(* The first part of the inductive invariant: nothing about the two        *)
(* machines together.                                                      *)
VmInv == Typed /\ Fresh

(* The machines as they are created.                                       *)
LEMMA Created ==
  /\ CTyped(vm_create)
  /\ \A j \in Garbage : XTyped(Registers(j))
<1>1. /\ 12288 \in Word /\ 0 \in Word /\ STATUS_BIT \in Word /\ MCR \in Word
      /\ \A j \in Garbage : j \in Word
  BY VmConstants, InWord, Sizes DEF MCR
<1>2. CTyped(vm_create)
  BY <1>1 DEF vm_create, CTyped, CRec, Core, IsMem
<1>3. ASSUME NEW j \in Garbage PROVE XTyped(Registers(j))
  BY <1>1 DEF Registers, XTyped, XRec, Core, IsMem
<1> QED  BY <1>2, <1>3

(* The invariant holds before a file is loaded.                            *)
LEMMA InitVm == Init => VmInv
<1> SUFFICES ASSUME Init PROVE VmInv
  OBVIOUS
<1>1. c = vm_create /\ \E j \in Garbage : x = Registers(j)
  BY DEF Init
<1>2. Typed
  BY <1>1, Created DEF Init, Typed
<1> QED  BY <1>1, <1>2 DEF VmInv, Fresh

(* The two machines after Load.                                            *)
C1 == vm_load_data(c, Os)
C2 == IF C1.status = "boot" THEN vm_load_file(C1, file) ELSE C1
X1 == LoadData(x, Os)
X2 == IF X1.status = "boot" THEN LoadObjFile(X1, file) ELSE X1

(* Loading keeps the types and does not end the program by itself.         *)
LEMMA LoadTypes ==
  ASSUME Typed, Fresh, c.status = "boot"
  PROVE  /\ CTyped(C2) /\ C2.status \in {"boot", "aborted", "unread"}
         /\ XTyped(X2)
<1>1. CTyped(C1) /\ C1.status \in {"boot", "aborted"}
  BY CLoad DEF C1, Typed
<1>2. XTyped(X1)
  BY XLoad DEF X1, Typed
<1>3. CTyped(C2) /\ C2.status \in {"boot", "aborted", "unread"}
  <2>1. CASE C1.status # "boot"
    BY <1>1, <2>1 DEF C2
  <2>2. CASE C1.status = "boot" /\ file = NoFile
    <3>1. C2 = Stopped(C1, "unread")
      BY <2>2 DEF C2, vm_load_file
    <3> QED  BY <1>1, <3>1, CStopped
  <2>3. CASE C1.status = "boot" /\ file # NoFile
    <3>1. C2 = vm_load_data(C1, file) /\ file \in Files
      BY <2>3 DEF C2, vm_load_file, Typed
    <3> QED  BY <1>1, <2>3, <3>1, CLoad
  <2> QED  BY <2>1, <2>2, <2>3
<1>4. XTyped(X2)
  <2>1. CASE X1.status # "boot"
    BY <1>2, <2>1 DEF X2
  <2>2. CASE X1.status = "boot" /\ file = NoFile
    <3>1. X2 = Stopped(X1, "unread")
      BY <2>2 DEF X2, LoadObjFile
    <3> QED  BY <1>2, <3>1, XStopped
  <2>3. CASE X1.status = "boot" /\ file # NoFile
    <3>1. X2 = LoadData(X1, file) /\ file \in Files
      BY <2>3 DEF X2, LoadObjFile, Typed
    <3> QED  BY <1>2, <3>1, XLoad
  <2> QED  BY <2>1, <2>2, <2>3
<1> QED  BY <1>3, <1>4

(* What Load leaves behind.                                                *)
LEMMA LoadStep ==
  ASSUME Load
  PROVE  /\ c.status = "boot"
         /\ c' = IF C2.status = "boot" THEN Stopped(C2, "loaded") ELSE C2
         /\ x' = IF X2.status = "boot" THEN Stopped(X2, "running") ELSE X2
         /\ apart' = IF C2.status = "aborted" THEN {"length"} ELSE {}
         /\ UNCHANGED <<file, tty, armed>>
  BY DEF Load, C1, C2, X1, X2

(* Every step of the two programs keeps the invariant.                     *)
LEMMA NextVm == VmInv /\ [Next]_vars => VmInv'
<1> SUFFICES ASSUME VmInv, [Next]_vars PROVE VmInv'
  OBVIOUS
<1>1. /\ CTyped(c) /\ XTyped(x) /\ file \in Files \cup {NoFile}
      /\ tty \in {"cooked", "raw"} /\ armed \in BOOLEAN
  BY DEF VmInv, Typed
\* It is enough to have the types and the status of the C machine.
<1>2. ASSUME CTyped(c'), XTyped(x'), file' \in Files \cup {NoFile},
             tty' \in {"cooked", "raw"}, armed' \in BOOLEAN,
             c'.status # "boot"
      PROVE  VmInv'
  BY <1>2 DEF VmInv, Typed, Fresh
<1>3. CASE Load
  <2>1. /\ CTyped(C2) /\ C2.status \in {"boot", "aborted", "unread"}
        /\ XTyped(X2)
    BY <1>3, LoadStep, LoadTypes DEF VmInv
  <2>2. CTyped(c') /\ c'.status \in {"loaded", "aborted", "unread"}
    BY <1>3, <2>1, LoadStep, CStopped
  <2>3. XTyped(x')
    BY <1>3, <2>1, LoadStep, XStopped
  <2> QED  BY <1>1, <1>2, <2>2, <2>3, <1>3, LoadStep
<1>4. CASE disable_input_buffering
  BY <1>1, <1>2, <1>4 DEF disable_input_buffering
<1>5. CASE install_handler
  <2>1. CTyped(c') /\ c'.status = "running"
    BY <1>1, <1>5, CStopped DEF install_handler
  <2> QED  BY <1>1, <1>2, <1>5, <2>1 DEF install_handler
<1>6. CASE Step
  <2>1. PICK e \in World : c' = vm_run(c, e) /\ x' = Run(x, e)
    BY <1>6 DEF Step
  <2>2. CTyped(c') /\ c'.status \in {"running", "range", "nop", "unimplemented",
                                     "mcr"}
    BY <1>1, <1>6, <2>1, CRun DEF Step, Left
  <2>3. XTyped(x')
    BY <1>1, <2>1, XRun
  <2> QED  BY <1>1, <1>2, <1>6, <2>2, <2>3 DEF Step
<1>7. CASE restore_input_buffering
  <2>1. CTyped(c') /\ c'.status = "exited"
    BY <1>1, <1>7, CStopped DEF restore_input_buffering
  <2> QED  BY <1>1, <1>2, <1>7, <2>1 DEF restore_input_buffering
<1>8. CASE handle_signal
  <2>1. CTyped(c') /\ c'.status = IF armed THEN "exited" ELSE "killed"
    BY <1>1, <1>8, CStopped DEF handle_signal
  <2>2. XTyped(x')
    BY <1>1, <1>8, XStopped DEF handle_signal
  <2> QED  BY <1>1, <1>2, <1>8, <2>1, <2>2 DEF handle_signal
<1>9. CASE UNCHANGED vars
  BY <1>9 DEF vars, VmInv, Typed, Fresh
<1> QED  BY <1>3, <1>4, <1>5, <1>6, <1>7, <1>8, <1>9 DEF Next

(* VmInv is an invariant for every program and every input.                *)
THEOREM VmInductive == Spec => []VmInv
  BY InitVm, NextVm, PTL DEF Spec

(* The registers, the pc and the memory of both machines hold words, and   *)
(* the flags are one of n, z and p (vm.c, lc3sim.cpp).                     *)
THEOREM VmTypeCorrect == Spec => []TypeOK
<1>1. VmInv => TypeOK
  BY DEF VmInv, Typed, CTyped, XTyped, Core, IsMem, TypeOK
<1> QED  BY <1>1, VmInductive, PTL

----------------------------------------------------------------------------
(***************************************************************************)
(* The two machines side by side.                                          *)
(***************************************************************************)
\* Address a was loaded or stored, or is a device that reads the same.
Readable(n, a, e) ==
  /\ a \in DOMAIN n.mem \cup {KBSR, KBDR, DSR, DDR}
  /\ a = KBDR => e.char <= 127

\* The instruction w gives the machines m and n no reason to differ.
Neutral(m, n, w, e) ==
  /\ Op(w) \notin {OPCODE.RTI, OPCODE.RES}
  /\ Op(w) = OPCODE.JSR => n.num # 7
  /\ Op(w) = OPCODE.TRAP =>
       /\ Cut(w, 12) <= 255 /\ Readable(n, Cut(w, 12), e)
       /\ IF Cut(w, 12) = GETC THEN n.num # 0 /\ e.char <= 127 ELSE n.num # 7
  /\ Op(w) = OPCODE.STI => n.num = R1(w)
  /\ Op(w) \in {OPCODE.LD, OPCODE.STI, OPCODE.LDI} => Readable(n, Near(m, w), e)
  /\ Op(w) = OPCODE.LDI => Readable(n, vm_read(m, Near(m, w), e), e)
  /\ Op(w) = OPCODE.LDR => Readable(n, Far(m, w), e)

(* Machines that agree have the same operands.                             *)
LEMMA SameOperands ==
  ASSUME NEW m, NEW n, Agree(m, n), NEW w
  PROVE  Imm(n, w) = Imm(m, w) /\ Near(n, w) = Near(m, w) /\ Far(n, w) = Far(m, w)
  BY DEF Agree, Imm, Near, Far

(* A trap of the OS or GETC, with a vector of eight bits.                  *)
LEMMA BothTrap ==
  ASSUME NEW m, CTyped(m), NEW n, XTyped(n), Agree(m, n),
         NEW w \in Word, NEW e \in World,
         Cut(w, 12) <= 255, Readable(n, Cut(w, 12), e),
         IF Cut(w, 12) = GETC THEN n.num # 0 /\ e.char <= 127 ELSE n.num # 7
  PROVE  Agree(vm_trap(m, w, e), ExecuteTrap(n, w, e))
<1> DEFINE a == Cut(w, 12)
<1>1. a \in Word /\ a < 256 /\ 0 \in 0 .. 7 /\ 7 \in 0 .. 7
  <2>1. a \in Nat /\ a < 256
    <3>1. a \in 0 .. 4095
      BY FieldTypes
    <3>2. a <= 255
      OBVIOUS
    <3> HIDE DEF a
    <3> QED  BY <3>1, <3>2
  <2> HIDE DEF a
  <2> QED  BY <2>1, InWord
<1>2. Cut(w, 8) = a
  BY InWord, Literal
<1>3. W(INT_AFTER_OPER(w, Format16)) = a
  <2>1. INT_VALUE(w, 12) = a
    BY InWord, Literal
  <2> QED  BY <1>1, <2>1, SameFields, WordCut
<1> HIDE DEF a
<1>4. CASE a = GETC
  <2>1. /\ vm_trap(m, w, e) = Set(m, 0, W(e.char))
        /\ ExecuteTrap(n, w, e) = Set(n, 0, GetChar(e))
    BY <1>2, <1>3, <1>4 DEF vm_trap, ExecuteTrap
  <2>2. n.num # 0 /\ W(e.char) = GetChar(e) /\ W(e.char) \in Word
    BY <1>4, CharType DEF a
  <2> QED  BY <1>1, <2>1, <2>2, BothSet
<1>5. CASE a # GETC
  <2> DEFINE to == vm_read(m, a, e)
             m0 == Set(m, 7, m.pc)
             n0 == Set(n, 7, n.pc)
  <2>1. to = MemoryRead(n, a, e)
    BY BothRead DEF Readable, a
  <2>2. to \in Word /\ to # -1
    <3>1. to \in Word
      BY <1>1, CRead
    <3> QED  BY <3>1, InWord
  <2>3. /\ vm_trap(m, w, e) = [m0 EXCEPT !.pc = to]
        /\ ExecuteTrap(n, w, e) = [n0 EXCEPT !.pc = IF to = -1 THEN @ ELSE to]
    BY <1>2, <1>3, <1>5, <2>1 DEF vm_trap, ExecuteTrap
  <2>4. n.num # 7 /\ m.pc \in Word /\ n.pc = m.pc
    BY <1>5 DEF a, CTyped, Core, Agree
  <2>5. CTyped(m0) /\ XTyped(n0) /\ Agree(m0, n0)
    BY <1>1, <2>4, CSet, XSet, BothSet
  <2> HIDE DEF m0, n0, to
  <2>6. ExecuteTrap(n, w, e) = [n0 EXCEPT !.pc = to]
    BY <2>2, <2>3
  <2> QED  BY <2>2, <2>3, <2>5, <2>6, BothJump
<1> QED  BY <1>4, <1>5

(* A call of a subroutine.                                                 *)
LEMMA BothJsr ==
  ASSUME NEW m, CTyped(m), NEW n, XTyped(n), Agree(m, n), NEW w \in Word,
         n.num # 7
  PROVE  Agree(vm_jsr(m, w),
               [Set(n, 7, n.pc) EXCEPT
                  !.pc = IF Bits(w, 11, 1) = 1 THEN W(@ + INT_VALUE(w, 11))
                                               ELSE n.reg[R2(w)]])
<1> DEFINE to == IF Bits(w, 11, 1) = 1 THEN W(m.pc + INT_VALUE(w, 11))
                                       ELSE m.reg[R2(w)]
           m0 == Set(m, 7, m.pc)
           n0 == Set(n, 7, n.pc)
           n1 == [n0 EXCEPT
                    !.pc = IF Bits(w, 11, 1) = 1 THEN W(@ + INT_VALUE(w, 11))
                                                 ELSE n.reg[R2(w)]]
<1> SUFFICES Agree(vm_jsr(m, w), n1)
  OBVIOUS
<1>1. to \in Word
  BY Operands DEF CTyped, R2
<1>2. m.pc \in Word /\ n.pc = m.pc /\ n.reg = m.reg /\ 7 \in 0 .. 7
  BY DEF CTyped, Core, Agree
<1>3. CTyped(m0) /\ XTyped(n0) /\ Agree(m0, n0) /\ n0.pc = n.pc
  BY <1>2, CSet, XSet, BothSet, ZenonT(60)
<1>4. vm_jsr(m, w) = [m0 EXCEPT !.pc = to]
  BY DEF vm_jsr, R2
<1> HIDE DEF m0, n0
<1>5. n1 = [n0 EXCEPT !.pc = to]
  BY <1>2, <1>3 DEF XTyped, XRec
<1> HIDE DEF n1, to
<1> QED  BY <1>1, <1>3, <1>4, <1>5, BothJump

(* Both machines on the instructions that change the pc.                   *)
LEMMA BranchSteps ==
  ASSUME NEW m, NEW w \in Word, NEW e, Op(w) = OPCODE.BR
  PROVE  vm_perform(m, w, e) =
           [m EXCEPT !.pc = IF Wants(R1(w), m.cc) THEN Near(m, w) ELSE m.pc,
                     !.status = IF w = 0 THEN "nop" ELSE @]
  BY Opcodes DEF vm_perform, Near, Op, R1

(* JMP and RET on both machines.                                           *)
LEMMA JumpSteps ==
  ASSUME NEW m, NEW w \in Word, NEW e, Op(w) = OPCODE.JMP
  PROVE  /\ vm_perform(m, w, e) = [m EXCEPT !.pc = m.reg[R2(w)]]
         /\ ExecuteOneInstruction(m, w, e) = [m EXCEPT !.pc = m.reg[R2(w)]]
<1>1. vm_perform(m, w, e) = [m EXCEPT !.pc = m.reg[R2(w)]]
  BY CJumps, Zenon
<1>2. ExecuteOneInstruction(m, w, e) = [m EXCEPT !.pc = m.reg[R2(w)]]
  BY XJumps, Zenon
<1> QED  BY <1>1, <1>2, Zenon

(* JSR and JSRR on the C++ machine: the link is stored first.              *)
LEMMA CallSteps ==
  ASSUME NEW n, NEW w \in Word, NEW e, Op(w) = OPCODE.JSR
  PROVE  ExecuteOneInstruction(n, w, e) =
           [Set(n, 7, n.pc) EXCEPT
              !.pc = IF Bits(w, 11, 1) = 1 THEN W(@ + INT_VALUE(w, 11))
                                           ELSE n.reg[R2(w)]]
  BY XJumps, Zenon

(* TRAP on both machines.                                                  *)
LEMMA TrapSteps ==
  ASSUME NEW m, NEW w \in Word, NEW e, Op(w) = OPCODE.TRAP
  PROVE  /\ vm_perform(m, w, e) = vm_trap(m, w, e)
         /\ ExecuteOneInstruction(m, w, e) = ExecuteTrap(m, w, e)
<1>1. vm_perform(m, w, e) = vm_trap(m, w, e)
  BY CJumps, ZenonT(60)
<1>2. ExecuteOneInstruction(m, w, e) = ExecuteTrap(m, w, e)
  BY XTraps, Zenon
<1> QED  BY <1>1, <1>2, Zenon

(* The heart of Lockstep: one neutral instruction.                         *)
LEMMA BothPerform ==
  ASSUME NEW m, CTyped(m), NEW n, XTyped(n), Agree(m, n),
         NEW w \in Word, NEW e \in World, Neutral(m, n, w, e),
         m.status = "running", n.status = "running",
         vm_perform(m, w, e).status # "range"
  PROVE  /\ Agree(vm_perform(m, w, e), ExecuteOneInstruction(n, w, e))
         /\ vm_perform(m, w, e).status = ExecuteOneInstruction(n, w, e).status
<1> DEFINE m1 == vm_perform(m, w, e)
           n1 == ExecuteOneInstruction(n, w, e)
           Good == Agree(m1, n1) /\ m1.status = n1.status
           near == Near(m, w)
           far  == Far(m, w)
<1> SUFFICES Good
  OBVIOUS
<1>1. /\ Imm(m, w) \in Word /\ near \in Word /\ far \in Word
      /\ m.reg[R1(w)] \in Word /\ m.reg[R2(w)] \in Word
      /\ W(m.reg[R2(w)] + Imm(m, w)) \in Word
      /\ Width - 1 - m.reg[R2(w)] \in Word
      /\ R1(w) \in 0 .. 7 /\ m.pc \in Word
  BY Operands, Operations DEF R1, R2, CTyped, Core
<1>2. /\ Imm(n, w) = Imm(m, w) /\ Near(n, w) = near /\ Far(n, w) = far
      /\ n.reg = m.reg /\ n.pc = m.pc /\ m.cc = SignFlag(n.reg[n.num])
  BY SameOperands DEF Agree
<1> HIDE DEF near, far
<1>3. ASSUME NEW v, v = -1 \/ v \in Word, m1 = SetsCC(m, R1(w), v),
             n1 = SetNum(n, R1(w), v)
      PROVE  Good
  <2>1. m1.status # "range"
    OBVIOUS
  <2> HIDE DEF m1, n1
  <2>2. v \in Word
    BY <1>1, <1>3, <2>1, CSetsCC
  <2>3. m1.status = "running" /\ n1.status = "running"
    BY <1>1, <1>3, <2>1, CSetsCC, XSetNum
  <2> QED  BY <1>1, <1>3, <2>2, <2>3, BothSetFlags
<1>4. ASSUME NEW a \in Word, m1 = vm_write(m, a, m.reg[R1(w)]),
             n1 = MemoryWrite(n, a, m.reg[R1(w)])
      PROVE  Good
  <2>1. m1.status # "range"
    OBVIOUS
  <2> HIDE DEF m1, n1
  <2>2. m1.status = "running"
    BY <1>1, <1>4, <2>1, CWrite
  <2>3. n1.status = "running"
    BY <1>1, <1>4, XWrite, ZenonT(60)
  <2>4. Agree(m1, n1)
    BY <1>1, <1>4, <2>1, BothWrite
  <2> QED  BY <2>2, <2>3, <2>4
<1>5. ASSUME NEW a \in Word, Readable(n, a, e)
      PROVE  /\ MemoryRead(n, a, e) = vm_read(m, a, e)
             /\ vm_read(m, a, e) = -1 \/ vm_read(m, a, e) \in Word
  BY <1>5, BothRead, CRead DEF Readable
<1>6. CASE Op(w) = OPCODE.ADD
  <2>1. m1 = SetsCC(m, R1(w), W(m.reg[R2(w)] + Imm(m, w)))
    BY <1>6, CMoves, Zenon DEF near
  <2>2. n1 = SetNum(n, R1(w), W(m.reg[R2(w)] + Imm(m, w)))
    BY <1>6, <1>2, XMoves, Zenon
  <2>3. W(m.reg[R2(w)] + Imm(m, w)) = -1 \/ W(m.reg[R2(w)] + Imm(m, w)) \in Word
    BY <1>1
  <2> QED  BY <2>1, <2>2, <2>3, <1>3, Zenon
<1>7. CASE Op(w) = OPCODE.AND
  <2>1. m1 = SetsCC(m, R1(w), And(m.reg[R2(w)], Imm(m, w)))
    BY <1>7, CMoves, Zenon DEF near
  <2>2. n1 = SetNum(n, R1(w), And(m.reg[R2(w)], Imm(m, w)))
    BY <1>7, <1>2, XMoves, Zenon
  <2>3. And(m.reg[R2(w)], Imm(m, w)) = -1 \/ And(m.reg[R2(w)], Imm(m, w)) \in Word
    BY <1>1, AndType
  <2> QED  BY <2>1, <2>2, <2>3, <1>3, Zenon
<1>8. CASE Op(w) = OPCODE.NOT
  <2>1. m1 = SetsCC(m, R1(w), Width - 1 - m.reg[R2(w)])
    BY <1>8, CMoves, Zenon DEF near
  <2>2. n1 = SetNum(n, R1(w), Width - 1 - m.reg[R2(w)])
    BY <1>8, <1>2, XMoves, Zenon
  <2>3. Width - 1 - m.reg[R2(w)] = -1 \/ Width - 1 - m.reg[R2(w)] \in Word
    BY <1>1
  <2> QED  BY <2>1, <2>2, <2>3, <1>3, Zenon
<1>9. CASE Op(w) = OPCODE.LEA
  <2>1. m1 = SetsCC(m, R1(w), near)
    BY <1>9, CMoves, Zenon DEF near
  <2>2. n1 = SetNum(n, R1(w), near)
    BY <1>9, <1>2, XMoves, Zenon
  <2>3. near = -1 \/ near \in Word
    BY <1>1
  <2> QED  BY <2>1, <2>2, <2>3, <1>3, Zenon
<1>10. CASE Op(w) = OPCODE.LD
  <2>1. m1 = SetsCC(m, R1(w), vm_read(m, near, e))
    BY <1>10, CLoads, Zenon DEF near
  <2>2. n1 = SetNum(n, R1(w), MemoryRead(n, near, e))
    BY <1>10, <1>2, XLoads, Zenon
  <2>3. Readable(n, near, e)
    BY <1>10 DEF Neutral, near
  <2> HIDE DEF m1, n1, Good
  <2> QED  BY <2>1, <2>2, <2>3, <1>1, <1>3, <1>5
<1>11. CASE Op(w) = OPCODE.LDR
  <2>1. m1 = SetsCC(m, R1(w), vm_read(m, far, e))
    BY <1>11, CLoads, Zenon DEF far
  <2>2. n1 = SetNum(n, R1(w), MemoryRead(n, far, e))
    BY <1>11, <1>2, XLoads, Zenon
  <2>3. Readable(n, far, e)
    BY <1>11 DEF Neutral, far
  <2> HIDE DEF m1, n1, Good
  <2> QED  BY <2>1, <2>2, <2>3, <1>1, <1>3, <1>5
<1>12. CASE Op(w) = OPCODE.LDI
  <2> DEFINE p == vm_read(m, near, e)
  <2>1. m1 = SetsCC(m, R1(w), IF p = -1 THEN -1 ELSE vm_read(m, p, e))
    BY <1>12, CLoads, Zenon DEF near, Through
  <2>2. n1 = IF MemoryRead(n, near, e) = -1 THEN n
             ELSE SetNum(n, R1(w), MemoryRead(n, MemoryRead(n, near, e), e))
    BY <1>12, <1>2, XLoads, Zenon
  <2>3. Readable(n, near, e) /\ Readable(n, p, e)
    BY <1>12 DEF Neutral, near
  <2>4. MemoryRead(n, near, e) = p /\ (p = -1 \/ p \in Word)
    BY <2>3, <1>1, <1>5
  <2> HIDE DEF p, Good
  <2>5. p # -1
    <3>1. ASSUME p = -1 PROVE m1.status = "range"
      <4> HIDE DEF m1
      <4> QED  BY <3>1, <2>1, <1>1, CSetsCC
    <3> QED  BY <3>1
  <2> HIDE DEF m1, n1
  <2>6. m1 = SetsCC(m, R1(w), vm_read(m, p, e))
    BY <2>1, <2>5
  <2>7. n1 = SetNum(n, R1(w), MemoryRead(n, p, e))
    BY <2>2, <2>4, <2>5
  <2> QED  BY <2>3, <2>4, <2>5, <2>6, <2>7, <1>3, <1>5
<1>13. CASE Op(w) = OPCODE.ST
  <2>1. m1 = vm_write(m, near, m.reg[R1(w)])
    BY <1>13, CStores, Zenon DEF near
  <2>2. n1 = MemoryWrite(n, near, m.reg[R1(w)])
    <3>1. n1 = MemoryWrite(n, Near(n, w), n.reg[R1(w)])
      BY <1>13, XStores, Zenon
    <3> HIDE DEF n1
    <3> QED  BY <3>1, <1>2
  <2> QED  BY <2>1, <2>2, <1>1, <1>4, Zenon
<1>14. CASE Op(w) = OPCODE.STR
  <2>1. m1 = vm_write(m, far, m.reg[R1(w)])
    BY <1>14, CStores, Zenon DEF far
  <2>2. n1 = MemoryWrite(n, far, m.reg[R1(w)])
    <3>1. n1 = MemoryWrite(n, Far(n, w), n.reg[R1(w)])
      BY <1>14, XStores, Zenon
    <3> HIDE DEF n1
    <3> QED  BY <3>1, <1>2
  <2> QED  BY <2>1, <2>2, <1>1, <1>4, Zenon
<1>15. CASE Op(w) = OPCODE.STI
  <2> DEFINE p == vm_read(m, near, e)
             q == MemoryWrite(n, p, m.reg[R1(w)])
  <2>1. m1 = IF p = -1 THEN Stopped(m, "range") ELSE vm_write(m, p, m.reg[R1(w)])
    BY <1>15, CStores, Zenon DEF near
  <2>2. n1 = IF MemoryRead(n, near, e) \in {-1, LC3_MAX_MEMORY_ADDRESS} THEN n
             ELSE [MemoryWrite(n, MemoryRead(n, near, e), m.reg[R1(w)])
                     EXCEPT !.num = R1(w)]
    <3>1. n1 = IF MemoryRead(n, Near(n, w), e) \in {-1, LC3_MAX_MEMORY_ADDRESS}
               THEN n
               ELSE [MemoryWrite(n, MemoryRead(n, Near(n, w), e), n.reg[R1(w)])
                       EXCEPT !.num = R1(w)]
      BY <1>15, XStores, ZenonT(40)
    <3> HIDE DEF n1
    <3> QED  BY <3>1, <1>2
  <2>3. Readable(n, near, e) /\ n.num = R1(w)
    BY <1>15 DEF Neutral, near
  <2>4. MemoryRead(n, near, e) = p /\ (p = -1 \/ p \in Word)
    BY <2>3, <1>1, <1>5
  <2>5. m1.status # "range"
    OBVIOUS
  <2> HIDE DEF p, Good, m1, n1
  <2>6. p \in Word /\ p # -1
    BY <2>1, <2>4, <2>5, CStopped
  <2>7. m1 = vm_write(m, p, m.reg[R1(w)])
    BY <2>1, <2>6
  <2>8. p # LC3_MAX_MEMORY_ADDRESS
    <3>1. ASSUME p = LC3_MAX_MEMORY_ADDRESS
          PROVE  vm_write(m, p, m.reg[R1(w)]) = Stopped(m, "range")
      BY <3>1, Sizes
      DEF vm_write, LC3_MAX_MEMORY_ADDRESS, VM_ADDR_MAX, KBSR, KBDR, DSR, DDR
    <3> QED  BY <3>1, <2>5, <2>7, CStopped
  <2>9. n1 = [q EXCEPT !.num = R1(w)]
    BY <2>2, <2>4, <2>6, <2>8
  <2>10. XTyped(q) /\ q.num = R1(w)
    BY <1>1, <2>3, <2>6, XWrite, ZenonT(40)
  <2> HIDE DEF q
  <2>11. n1 = q
    BY <2>9, <2>10 DEF XTyped, XRec
  <2> QED  BY <2>6, <2>7, <2>11, <1>4 DEF q
<1>16. CASE Op(w) = OPCODE.BR
  <2> DEFINE to == IF Wants(R1(w), m.cc) THEN near ELSE m.pc
  <2>1. m1 = [m EXCEPT !.pc = to, !.status = IF w = 0 THEN "nop" ELSE @]
    <3>1. m1 = [m EXCEPT !.pc = IF Wants(R1(w), m.cc) THEN Near(m, w) ELSE m.pc,
                         !.status = IF w = 0 THEN "nop" ELSE @]
      BY <1>16, BranchSteps, Zenon
    <3> HIDE DEF m1
    <3> QED  BY <3>1, Zenon DEF near
  <2>2. n1 = IF w = 0 THEN Stopped(n, "nop") ELSE [n EXCEPT !.pc = to]
    BY <1>16, <1>2, XJumps
  <2>3. to \in Word
    BY <1>1
  <2>4. w = 0 => to = m.pc
    <3>1. 0 \div 2^9 = 0 /\ 0 % 2^3 = 0 /\ 0 \div 2^0 = 0 /\ 0 \div 2^1 = 0
          /\ 0 \div 2^2 = 0 /\ 0 % 2^1 = 0
      OBVIOUS
    <3>2. w = 0 => R1(w) = 0
      BY <3>1, Literal DEF R1
    <3>3. m.cc \in {"n", "z", "p"} => ~Wants(0, m.cc)
      <4>1. Bits(0, 0, 1) = 0 /\ Bits(0, 1, 1) = 0 /\ Bits(0, 2, 1) = 0
        BY <3>1, LiteralBits
      <4> QED  BY <4>1 DEF Wants
    <3> QED  BY <3>2, <3>3 DEF CTyped
  <2> HIDE DEF to, m1, n1
  <2>5. CASE w = 0
    <3>1. m1 = [m EXCEPT !.pc = m.pc, !.status = "nop"] /\ n1 = Stopped(n, "nop")
      BY <2>1, <2>2, <2>4, <2>5
    <3>2. m1 = Stopped(m, "nop")
      BY <3>1 DEF CTyped, CRec, Stopped
    <3> QED  BY <3>1, <3>2 DEF CTyped, CRec, XTyped, XRec, Stopped, Agree
  <2>6. CASE w # 0
    <3>1. m1 = [m EXCEPT !.pc = to] /\ n1 = [n EXCEPT !.pc = to]
      BY <2>1, <2>2, <2>6 DEF CTyped, CRec
    <3> QED  BY <3>1, <2>3, CJump, XJump, BothJump
  <2> QED  BY <2>5, <2>6
<1>17. CASE Op(w) = OPCODE.JMP
  <2>1. m1 = [m EXCEPT !.pc = m.reg[R2(w)]]
    BY <1>17, JumpSteps, Zenon
  <2>2. n1 = [n EXCEPT !.pc = m.reg[R2(w)]]
    <3>1. n1 = [n EXCEPT !.pc = n.reg[R2(w)]]
      BY <1>17, JumpSteps, Zenon
    <3> HIDE DEF n1
    <3> QED  BY <3>1, <1>2
  <2> HIDE DEF m1, n1
  <2> QED  BY <1>1, <2>1, <2>2, CJump, XJump, BothJump
<1>18. CASE Op(w) = OPCODE.JSR
  <2>1. m1 = vm_jsr(m, w)
    BY <1>18, CJumps, Zenon
  <2>2. n1 = [Set(n, 7, n.pc) EXCEPT
                !.pc = IF Bits(w, 11, 1) = 1 THEN W(@ + INT_VALUE(w, 11))
                                             ELSE n.reg[R2(w)]]
    BY <1>18, CallSteps, ZenonT(60)
  <2>3. n.num # 7
    BY <1>18 DEF Neutral
  <2>4. m1.status = "running"
    BY <2>1, CJsr
  <2>5. n1.status = "running"
    <3> DEFINE s == Set(n, 7, n.pc)
    <3>1. XTyped(s) /\ s.status = "running"
      <4>1. n.pc \in Word /\ 7 \in 0 .. 7
        BY DEF XTyped, Core
      <4> QED  BY <4>1, XSet
    <3> HIDE DEF s, n1
    <3>2. \E v : n1 = [s EXCEPT !.pc = v]
      BY <2>2 DEF s
    <3> QED  BY <3>1, <3>2 DEF XTyped, XRec
  <2> HIDE DEF m1, n1
  <2> QED  BY <2>1, <2>2, <2>3, <2>4, <2>5, BothJsr
<1>19. CASE Op(w) = OPCODE.TRAP
  <2>1. m1 = vm_trap(m, w, e) /\ n1 = ExecuteTrap(n, w, e)
    <3>1. m1 = vm_trap(m, w, e)
      BY <1>19, TrapSteps, Zenon
    <3>2. n1 = ExecuteTrap(n, w, e)
      BY <1>19, TrapSteps, Zenon
    <3> QED  BY <3>1, <3>2
  <2>2. m1.status = "running" /\ n1.status = "running"
    BY <2>1, CTrap, XTrap
  <2>3. Agree(vm_trap(m, w, e), ExecuteTrap(n, w, e))
    BY <1>19, BothTrap DEF Neutral
  <2> HIDE DEF m1, n1
  <2> QED  BY <2>1, <2>2, <2>3
<1> HIDE DEF Good
<1>20. Op(w) \notin {OPCODE.RTI, OPCODE.RES}
  BY DEF Neutral
<1> QED
  BY <1>6, <1>7, <1>8, <1>9, <1>10, <1>11, <1>12, <1>13,
     <1>14, <1>15, <1>16, <1>17, <1>18, <1>19, <1>20, Operations

(* The sets of operations that Reasons asks for.                           *)
LEMMA CodeSets ==
  ASSUME NEW o
  PROVE  /\ o \in Codes({"LD", "STI"}) <=> o = OPCODE.LD \/ o = OPCODE.STI
         /\ o \in Codes({"RES", "RTI"}) <=> o = OPCODE.RES \/ o = OPCODE.RTI
  BY DEF Codes

\* A machine that has fetched an instruction.
Past(m) == [m EXCEPT !.pc = W(@ + 1)]

(* Machines past the fetch agree, and have not changed otherwise.          *)
LEMMA BothPast ==
  ASSUME NEW m, CTyped(m), NEW n, XTyped(n), Agree(m, n), NEW w \in Word
  PROVE  /\ CTyped(Past(m)) /\ XTyped(Past(n)) /\ Agree(Past(m), Past(n))
         /\ Past(m).status = m.status /\ Past(n).status = n.status
         /\ Past(m).mem = m.mem /\ Past(n).mem = n.mem
         /\ Past(n).num = n.num
         /\ Near(Past(m), w) = W(m.pc + 1 + INT_VALUE(w, 9))
         /\ Far(Past(m), w) = Far(m, w)
<1> DEFINE a == W(m.pc + 1)
<1>1. m.pc \in Int /\ n.pc = m.pc
  BY InWord DEF CTyped, Core, Agree
<1>2. a \in Word
  <2>1. m.pc + 1 \in Int
    BY <1>1
  <2> QED  BY <2>1, WordCut
<1>3. Past(m) = [m EXCEPT !.pc = a] /\ Past(n) = [n EXCEPT !.pc = a]
  BY <1>1 DEF Past, CTyped, CRec, XTyped, XRec
<1>4. Past(m).pc = a
  BY <1>3 DEF CTyped, CRec
<1>5. W(a + INT_VALUE(w, 9)) = W(m.pc + 1 + INT_VALUE(w, 9))
  <2>1. m.pc + 1 \in Int /\ INT_VALUE(w, 9) \in Int
    BY <1>1, IntTypes
  <2> QED  BY <2>1, WordCut
<1> HIDE DEF a
<1>6. CTyped(Past(m)) /\ Past(m).status = m.status
  BY <1>2, <1>3, CJump
<1>7. XTyped(Past(n)) /\ Past(n).status = n.status
  BY <1>2, <1>3, XJump
<1>8. Agree(Past(m), Past(n))
  BY <1>2, <1>3, BothJump
<1>9. /\ Past(m).mem = m.mem /\ Past(n).mem = n.mem
      /\ Past(n).num = n.num /\ Past(m).reg = m.reg
  BY <1>3 DEF CTyped, CRec, XTyped, XRec
<1>10. Near(Past(m), w) = W(m.pc + 1 + INT_VALUE(w, 9))
  BY <1>4, <1>5 DEF Near
<1>11. Far(Past(m), w) = Far(m, w)
  BY <1>9 DEF Far
<1> QED  BY <1>6, <1>7, <1>8, <1>9, <1>10, <1>11

(* The vector of a trap has eight bits or more.                            *)
LEMMA VectorSize ==
  ASSUME NEW w \in Word PROVE Cut(w, 12) <= 255 \/ Cut(w, 12) > 255
<1>1. \A v \in Int : v <= 255 \/ v > 255
  OBVIOUS
<1>2. Cut(w, 12) \in Int
  BY InWord, Literal
<1> QED  BY <1>1, <1>2

(* Without a reason to differ, the instruction w at the pc was loaded or   *)
(* stored, and is neutral.                                                 *)
LEMMA NoReasons ==
  ASSUME CTyped(c), XTyped(x), Agree(c, x), NEW w \in Word, NEW e \in World,
         Reasons(w, e) = {}
  PROVE  Readable(x, c.pc, e) /\ Neutral(Past(c), Past(x), w, e)
<1> DEFINE near   == W(c.pc + 1 + INT_VALUE(w, 9))
           far    == Far(c, w)
           vector == Cut(w, 12)
           reads  == CASE Op(w) \in Codes({"LD", "STI"}) -> {near}
                       [] Op(w) = OPCODE.LDI -> {near, vm_read(c, near, e)}
                       [] Op(w) = OPCODE.LDR -> {far}
                       [] Op(w) = OPCODE.TRAP -> {vector}
                       [] OTHER -> {}
           link   == Op(w) = OPCODE.JSR \/ (Op(w) = OPCODE.TRAP /\ vector # GETC)
           getc   == Op(w) = OPCODE.TRAP /\ vector = GETC
           plain  == DOMAIN x.mem \cup {KBSR, KBDR, DSR, DDR}
           named  == [ extension |-> Op(w) \in Codes({"RES", "RTI"}),
                       vector    |-> Op(w) = OPCODE.TRAP /\ vector > 255,
                       flags     |-> \/ link /\ x.num = 7
                                     \/ getc /\ x.num = 0
                                     \/ Op(w) = OPCODE.STI /\ x.num # R1(w),
                       char      |-> e.char > 127
                                     /\ (getc \/ KBDR \in reads \cup {c.pc}),
                       memory    |-> ~(reads \cup {c.pc} \subseteq plain) ]
<1>1. Reasons(w, e) = {k \in DOMAIN named : named[k]}
  BY DEF Reasons, Op, R1, Far
<1>2. \A k \in DOMAIN named : ~named[k]
  BY <1>1
<1>3. /\ ~(Op(w) \in Codes({"RES", "RTI"}))
      /\ ~(Op(w) = OPCODE.TRAP /\ vector > 255)
      /\ ~(link /\ x.num = 7) /\ ~(getc /\ x.num = 0)
      /\ ~(Op(w) = OPCODE.STI /\ x.num # R1(w))
      /\ ~(e.char > 127 /\ (getc \/ KBDR \in reads \cup {c.pc}))
      /\ reads \cup {c.pc} \subseteq plain
  <2> HIDE DEF near, far, vector, reads, link, getc, plain
  <2> QED  BY <1>2
<1>4. e.char > 127 \/ e.char <= 127
  <2>1. \A k \in -1 .. 255 : k > 127 \/ k <= 127
    OBVIOUS
  <2>2. e.char \in -1 .. 255
    BY VmConstants DEF World
  <2> QED  BY <2>1, <2>2
<1>5. /\ Op(w) \in {OPCODE.LD, OPCODE.STI} => near \in reads
      /\ Op(w) = OPCODE.LDI => near \in reads /\ vm_read(c, near, e) \in reads
      /\ Op(w) = OPCODE.LDR => far \in reads
      /\ Op(w) = OPCODE.TRAP => vector \in reads
  <2> HIDE DEF near, far, vector
  <2> QED  BY CodeSets, Opcodes
<1>6. ASSUME NEW a \in reads \cup {c.pc} PROVE Readable(x, a, e)
  <2> HIDE DEF reads, getc
  <2> QED  BY <1>3, <1>4, <1>6 DEF Readable
<1> HIDE DEF reads, named
<1>7. \A a : Readable(Past(x), a, e) <=> Readable(x, a, e)
  BY BothPast DEF Readable
<1>8. \A a : vm_read(Past(c), a, e) = vm_read(c, a, e)
  BY BothPast DEF vm_read
<1>9. Near(Past(c), w) = near /\ Far(Past(c), w) = far /\ Past(x).num = x.num
  BY BothPast
<1> HIDE DEF near, far
<1>10. Op(w) = OPCODE.TRAP =>
         /\ vector <= 255 /\ Readable(x, vector, e)
         /\ IF vector = GETC THEN x.num # 0 /\ e.char <= 127 ELSE x.num # 7
  <2>1. vector <= 255 \/ vector > 255
    BY VectorSize
  <2> HIDE DEF vector
  <2> QED  BY <2>1, <1>3, <1>4, <1>5, <1>6
<1>11. Op(w) \notin {OPCODE.RTI, OPCODE.RES}
  BY <1>3, CodeSets
<1>12. /\ Op(w) = OPCODE.JSR => x.num # 7
       /\ Op(w) = OPCODE.STI => x.num = R1(w)
  BY <1>3
<1>13. /\ Op(w) \in {OPCODE.LD, OPCODE.STI, OPCODE.LDI} => Readable(x, near, e)
       /\ Op(w) = OPCODE.LDI => Readable(x, vm_read(c, near, e), e)
       /\ Op(w) = OPCODE.LDR => Readable(x, far, e)
  BY <1>5, <1>6
<1>14. Readable(x, c.pc, e)
  BY <1>6
<1> HIDE DEF vector
<1>15. Neutral(Past(c), Past(x), w, e)
  BY <1>7, <1>8, <1>9, <1>10, <1>11, <1>12, <1>13 DEF Neutral, vector
<1> QED  BY <1>14, <1>15


(* One turn of both loops.                                                 *)
LEMMA StepAgree ==
  ASSUME CTyped(c), XTyped(x), Agree(c, x), NEW e \in World,
         c.status = "running", x.status = "running",
         vm_run(c, e).status \notin {"range", "mcr"},
         Run(x, e).status # "limit",
         Reasons(vm_read(c, c.pc, e), e) = {}
  PROVE  /\ Agree(vm_run(c, e), Run(x, e))
         /\ vm_run(c, e).status = Run(x, e).status
<1> DEFINE w    == vm_read(c, c.pc, e)
           c1   == vm_run(c, e)
           x1   == Run(x, e)
           done == ExecuteOneInstruction(Past(x), w, e)
           last == x.ran + 1 = MaxExecute * MaxRuns
<1> SUFFICES Agree(c1, x1) /\ c1.status = x1.status
  OBVIOUS
<1>1. c.pc \in Word /\ x.pc = c.pc
  BY DEF CTyped, Core, Agree
<1>2. w = -1 \/ w \in Word
  BY <1>1, CRead
<1>3. c1.status # "range" /\ c1.status # "mcr"
  OBVIOUS
<1>4. /\ w # -1 /\ c1 = vm_perform(Past(c), w, e)
  <2>1. \/ c1 = Stopped(c, "mcr") \/ c1 = Stopped(c, "range")
        \/ w # -1 /\ c1 = vm_perform(Past(c), w, e)
    BY DEF vm_run, Past
  <2> HIDE DEF c1, w
  <2> QED  BY <2>1, <1>3, CStopped
<1>5. w \in Word
  BY <1>2, <1>4
<1>6. Readable(x, c.pc, e) /\ Neutral(Past(c), Past(x), w, e)
  BY <1>5, NoReasons
<1>7. MemoryRead(x, x.pc, e) = w
  BY <1>1, <1>6, BothRead DEF Readable
<1>8. x1 = [done EXCEPT !.ran = @ + 1,
                        !.status = IF @ = "running" /\ last THEN "limit" ELSE @]
  BY <1>4, <1>7 DEF Run, Past
<1>9. /\ CTyped(Past(c)) /\ XTyped(Past(x)) /\ Agree(Past(c), Past(x))
      /\ Past(c).status = "running" /\ Past(x).status = "running"
  BY <1>5, BothPast
<1>10. x1.status # "limit"
  OBVIOUS
<1> HIDE DEF w, c1, x1, last
<1>11. Agree(c1, done) /\ c1.status = done.status
  BY <1>3, <1>4, <1>5, <1>6, <1>9, BothPerform
<1>12. XTyped(done)
  BY <1>5, <1>9, XExecute
<1> HIDE DEF done
<1>13. /\ x1.reg = done.reg /\ x1.pc = done.pc /\ x1.out = done.out
       /\ x1.num = done.num /\ x1.mem = done.mem
       /\ x1.status = IF done.status = "running" /\ last THEN "limit"
                      ELSE done.status
  BY <1>8, <1>12 DEF XTyped, XRec
<1>14. x1.status = done.status
  BY <1>10, <1>13
<1> QED  BY <1>11, <1>13, <1>14 DEF Agree

----------------------------------------------------------------------------
(***************************************************************************)
(* Lockstep.                                                               *)
(***************************************************************************)
(* While the C machine is loaded, runs or has stopped at a zero word, and  *)
(* nothing has set the machines apart, they agree and have the same status.*)
Paired ==
  c.status \in {"loaded", "running", "nop"} /\ apart = {} =>
    /\ Agree(c, x)
    /\ x.status = IF c.status = "loaded" THEN "running" ELSE c.status

LoadedAlike(m, n) ==
  /\ m.reg = n.reg /\ m.out = n.out /\ m.cc = SignFlag(n.reg[n.num])
  /\ \A a \in DOMAIN n.mem : m.mem[a] = n.mem[a]
  /\ DOMAIN m.mem = DOMAIN n.mem \cup {MCR}

(* Both machines load a file that the C machine accepts to the same place. *)
LEMMA LoadBoth ==
  ASSUME NEW m, CTyped(m), NEW n, XTyped(n), LoadedAlike(m, n),
         m.status = "boot", n.status = "boot",
         NEW f \in Files \cup {Os}, vm_load_data(m, f).status # "aborted"
  PROVE  /\ LoadedAlike(vm_load_data(m, f), LoadData(n, f))
         /\ vm_load_data(m, f).pc = LoadData(n, f).pc
         /\ vm_load_data(m, f).status = "boot" /\ LoadData(n, f).status = "boot"
<1> DEFINE l    == Len(f.words)
           k    == W(l)
           fits == {i \in 1 .. k : f.start + i - 1 < LC3_MAX_MEMORY_ADDRESS}
           p    == Filled(m.mem, f, 1 .. l)
           q    == Filled(n.mem, f, 1 .. l)
           m1   == vm_load_data(m, f)
           n1   == LoadData(n, f)
<1> SUFFICES /\ LoadedAlike(m1, n1) /\ m1.pc = n1.pc
             /\ m1.status = "boot" /\ n1.status = "boot"
  OBVIOUS
<1>1. f.start \in Nat /\ l \in Nat
  BY VmConstants, InWord
<1>2. m1.status # "aborted"
  OBVIOUS
<1>3. ~(f.start + l >= VM_ADDR_MAX) /\ m1 = [m EXCEPT !.pc = f.start, !.mem = p]
  <2>1. IF f.start + l >= VM_ADDR_MAX THEN m1 = Stopped(m, "aborted")
        ELSE m1 = [m EXCEPT !.pc = f.start, !.mem = p]
    BY DEF vm_load_data, CTyped, CRec
  <2> HIDE DEF m1, l, p
  <2> QED  BY <2>1, <1>2, CStopped
<1>4. f.start + l < 65535 /\ LC3_MAX_MEMORY_ADDRESS = 65535
  <2> HIDE DEF l
  <2> QED  BY <1>1, <1>3, Sizes DEF VM_ADDR_MAX, LC3_MAX_MEMORY_ADDRESS
<1>5. k = l
  <2>1. l \in Word
    <3> HIDE DEF l
    <3> QED  BY <1>1, <1>4, InWord
  <2> QED  BY <2>1, WordCut
<1>6. fits = 1 .. k
  <2> HIDE DEF k, l
  <2> QED  BY <1>1, <1>4, <1>5
<1>7. n1 = [n EXCEPT !.mem = q, !.pc = f.start]
  <2>1. n1 = IF l > 0 /\ fits # 1 .. k
             THEN [n EXCEPT !.mem = Filled(n.mem, f, fits), !.status = "toolarge"]
             ELSE [n EXCEPT !.mem = Filled(n.mem, f, fits), !.pc = f.start]
    BY DEF LoadData
  <2> HIDE DEF n1, fits, k, l
  <2> QED  BY <2>1, <1>5, <1>6
<1> DEFINE there == {f.start + i - 1 : i \in 1 .. l}
<1>8. /\ p = [a \in DOMAIN m.mem \cup there |->
                IF a \in there THEN f.words[a - f.start + 1] ELSE m.mem[a]]
      /\ q = [a \in DOMAIN n.mem \cup there |->
                IF a \in there THEN f.words[a - f.start + 1] ELSE n.mem[a]]
  BY DEF Filled
<1> HIDE DEF there, p, q, m1, n1, l, k, fits
<1>9. (\A a \in DOMAIN q : p[a] = q[a]) /\ DOMAIN p = DOMAIN q \cup {MCR}
  BY <1>8 DEF LoadedAlike
<1>10. /\ m1.reg = m.reg /\ m1.out = m.out /\ m1.cc = m.cc /\ m1.mem = p
       /\ m1.pc = f.start /\ m1.status = "boot"
  BY <1>3 DEF CTyped, CRec
<1>11. /\ n1.reg = n.reg /\ n1.out = n.out /\ n1.num = n.num /\ n1.mem = q
       /\ n1.pc = f.start /\ n1.status = "boot"
  BY <1>7 DEF XTyped, XRec
<1> QED  BY <1>9, <1>10, <1>11 DEF LoadedAlike


(* The machines as they are created, which differ in the pc only.          *)
LEMMA CreatedAlike ==
  ASSUME NEW j PROVE LoadedAlike(vm_create, Registers(j))
<1>1. SignFlag(0) = "z"
  BY DEF SignFlag
<1> QED  BY <1>1 DEF LoadedAlike, vm_create, Registers

(* When Load leaves the C machine loaded, the machines agree.              *)
LEMMA LoadPaired ==
  ASSUME VmInv, Load, c'.status \in {"loaded", "running", "nop"}
  PROVE  Agree(c, x)' /\ c'.status = "loaded" /\ x'.status = "running"
<1>1. /\ c.status = "boot" /\ Typed /\ Fresh
      /\ c' = IF C2.status = "boot" THEN Stopped(C2, "loaded") ELSE C2
      /\ x' = IF X2.status = "boot" THEN Stopped(X2, "running") ELSE X2
  BY LoadStep DEF VmInv
<1>2. /\ CTyped(C2) /\ C2.status \in {"boot", "aborted", "unread"}
      /\ XTyped(X2)
  BY <1>1, LoadTypes
<1>3. C2.status = "boot" /\ c' = Stopped(C2, "loaded")
  BY <1>1, <1>2
<1>4. CTyped(c) /\ XTyped(x) /\ LoadedAlike(c, x) /\ x.status = "boot"
  <2>1. PICK j \in Garbage : c = vm_create /\ x = Registers(j)
    BY <1>1 DEF Fresh
  <2>2. x.status = "boot"
    BY <2>1 DEF Registers
  <2>3. LoadedAlike(c, x)
    BY <2>1, CreatedAlike
  <2> QED  BY <1>1, <2>2, <2>3 DEF Typed
<1>5. CTyped(C1) /\ XTyped(X1) /\ C1.status \in {"boot", "aborted"}
  BY <1>1, <1>4, CLoad, XLoad DEF C1, X1
<1>6. C1.status = "boot" /\ C2 = vm_load_file(C1, file)
  BY <1>3, <1>5 DEF C2
<1>7. LoadedAlike(C1, X1) /\ X1.status = "boot"
  <2>1. vm_load_data(c, Os).status # "aborted"
    BY <1>6 DEF C1
  <2> QED  BY <1>1, <1>4, <2>1, LoadBoth DEF C1, X1
<1>8. file \in Files /\ C2 = vm_load_data(C1, file) /\ X2 = LoadData(X1, file)
  <2>1. file # NoFile
    <3>1. ASSUME file = NoFile PROVE C2.status = "unread"
      BY <3>1, <1>5, <1>6, CStopped DEF vm_load_file
    <3> QED  BY <3>1, <1>3
  <2> QED  BY <2>1, <1>1, <1>6, <1>7 DEF vm_load_file, X2, LoadObjFile, Typed
<1>9. LoadedAlike(C2, X2) /\ C2.pc = X2.pc /\ X2.status = "boot"
  <2>1. vm_load_data(C1, file).status # "aborted"
    BY <1>3, <1>8
  <2> QED  BY <1>5, <1>6, <1>7, <1>8, <2>1, LoadBoth
<1>10. Agree(C2, X2)
  BY <1>9 DEF LoadedAlike, Agree
<1>11. /\ Agree(Stopped(C2, "loaded"), X2)
       /\ CTyped(Stopped(C2, "loaded")) /\ Stopped(C2, "loaded").status = "loaded"
  BY <1>2, <1>10, CStopped
<1>12. /\ x' = Stopped(X2, "running") /\ x'.status = "running"
       /\ Agree(Stopped(C2, "loaded"), Stopped(X2, "running"))
  BY <1>1, <1>2, <1>9, <1>11, XStopped
<1>13. Agree(c', x') /\ c'.status = "loaded" /\ x'.status = "running"
  BY <1>3, <1>11, <1>12
<1> QED  BY <1>13 DEF Agree

(* Every step keeps Paired.                                                *)
LEMMA NextPaired == VmInv /\ Paired /\ [Next]_vars => Paired'
<1> SUFFICES ASSUME VmInv, Paired, [Next]_vars,
                    c'.status \in {"loaded", "running", "nop"}, apart' = {}
             PROVE  /\ Agree(c', x')
                    /\ x'.status = IF c'.status = "loaded" THEN "running"
                                   ELSE c'.status
  BY DEF Paired, Agree
<1>1. CTyped(c) /\ XTyped(x)
  BY DEF VmInv, Typed
<1>2. CASE Load
  <2>1. Agree(c, x)' /\ c'.status = "loaded" /\ x'.status = "running"
    BY <1>2, LoadPaired
  <2>2. Agree(c', x')
    BY <2>1 DEF Agree
  <2> QED  BY <2>1, <2>2
<1>3. CASE disable_input_buffering
  BY <1>3 DEF disable_input_buffering, Paired
<1>4. CASE install_handler
  <2>1. /\ c.status = "loaded" /\ apart = {} /\ x' = x
        /\ c' = Stopped(c, "running")
    BY <1>4 DEF install_handler
  <2>2. Agree(c, x) /\ x.status = "running"
    BY <2>1 DEF Paired
  <2> QED  BY <1>1, <2>1, <2>2, CStopped
<1>5. CASE Step
  <2>1. c.status = "running" /\ x.status = "running" /\ apart = {}
    BY <1>5 DEF Step
  <2>2. Agree(c, x)
    BY <2>1 DEF Paired
  <2>3. PICK e \in World :
          /\ c' = vm_run(c, e) /\ x' = Run(x, e)
          /\ apart' = (IF c'.status \in {"range", "mcr"} THEN {c'.status}
                       ELSE Reasons(vm_read(c, c.pc, e), e))
                      \cup (IF x'.status = "limit" THEN {"limit"} ELSE {})
    BY <1>5 DEF Step
  <2> DEFINE why == Reasons(vm_read(c, c.pc, e), e)
  <2>4. /\ c'.status \notin {"range", "mcr"} /\ x'.status # "limit"
        /\ why = {}
    <3> HIDE DEF why
    <3> QED  BY <2>3 DEF why
  <2>5. Agree(c', x') /\ c'.status = x'.status
    BY <1>1, <2>1, <2>2, <2>3, <2>4, StepAgree
  <2>6. c'.status # "loaded"
    BY <1>1, <2>1, <2>3, CRun DEF Left
  <2> QED  BY <2>5, <2>6
<1>6. CASE restore_input_buffering
  BY <1>1, <1>6, CStopped DEF restore_input_buffering
<1>7. CASE handle_signal
  <2>1. c'.status \in {"exited", "killed"}
    BY <1>1, <1>7, CStopped DEF handle_signal
  <2> QED  BY <2>1
<1>8. CASE UNCHANGED vars
  BY <1>8 DEF vars, Paired
<1> QED  BY <1>2, <1>3, <1>4, <1>5, <1>6, <1>7, <1>8 DEF Next

(* For every program, OS, input and content of the C++ machine's memory:   *)
(* until one of the named reasons occurs, lc3sim-c and lc3sim_cpp have the *)
(* same registers, pc, memory, flags and output and stop at the same       *)
(* instruction (vm.c vm_run, lc3sim.cpp Run).                              *)
THEOREM LockstepHolds == Spec => []Lockstep
<1>1. Init => Paired
  BY DEF Init, vm_create, Paired
<1>2. VmInv /\ Paired => Lockstep
  BY DEF Paired, Agree, Lockstep
<1> QED  BY <1>1, <1>2, NextPaired, VmInductive, PTL DEF Spec


----------------------------------------------------------------------------
(***************************************************************************)
(* The instruction converter, for every width of the word.                 *)
(***************************************************************************)
\* The weight of the last field but one; the others are multiples of it.
Unit == Pow2[ParamBit(Wide)]

\* What a field of a 16-bit instruction can hold, by its number of bits.
Uint3 == 0 .. 7
Uint4 == 0 .. 15
Int5  == -16 .. 15
Int6  == -32 .. 31
Int9  == -256 .. 255
Int11 == -1024 .. 1023
Int12 == -2048 .. 2047

\* A remainder m by 2 * h as a signed number.
Centred(m, h) == IF m >= h THEN m - 2 * h ELSE m

\* The number v is q above a rest m below s.
Above(v, s, q, m) ==
  s \in Nat \ {0} /\ q \in Int /\ m \in 0 .. s - 1 /\ v = q * s + m

(* Division with remainder has one result, for any divisor.                *)
LEMMA Divides ==
  ASSUME NEW s, NEW q, NEW m, NEW v, Above(v, s, q, m)
  PROVE  v \div s = q /\ v % s = m
<1>0. s \in Nat \ {0} /\ q \in Int /\ m \in 0 .. s - 1 /\ v = q * s + m
  BY DEF Above
<1>1. v \in Int /\ q * s \in Int
  BY <1>0
<1> DEFINE k == v \div s
           t == v % s
<1>2. k \in Int /\ t \in 0 .. s - 1 /\ v = s * k + t
  BY <1>0, <1>1
<1> HIDE DEF k, t
<1>3. s * k = k * s /\ k * s \in Int
  BY <1>0, <1>2
<1>4. CASE k > q
  <2>1. PICK d \in Nat : k = q + 1 + d
    <3>1. k - q - 1 \in Nat /\ k = q + 1 + (k - q - 1)
      BY <1>0, <1>2, <1>4
    <3> QED  BY <3>1
  <2>2. k * s = q * s + s + d * s /\ d * s \in Nat
    BY <1>0, <2>1
  <2> QED  BY <1>0, <1>1, <1>2, <1>3, <2>2
<1>5. CASE k < q
  <2>1. PICK d \in Nat : q = k + 1 + d
    <3>1. q - k - 1 \in Nat /\ q = k + 1 + (q - k - 1)
      BY <1>0, <1>2, <1>5
    <3> QED  BY <3>1
  <2>2. q * s = k * s + s + d * s /\ d * s \in Nat
    BY <1>0, <1>2, <2>1
  <2> QED  BY <1>0, <1>1, <1>2, <1>3, <2>2
<1>6. CASE k = q
  <2>1. k * s = q * s
    BY <1>6
  <2>2. t = m
    BY <1>0, <1>1, <1>2, <1>3, <2>1
  <2> QED  BY <1>6, <2>2 DEF k, t
<1> QED  BY <1>0, <1>2, <1>4, <1>5, <1>6

(* A digit y above a rest below s.                                         *)
LEMMA Below ==
  ASSUME NEW s \in Nat \ {0}, NEW n \in Nat \ {0}, NEW y \in 0 .. n - 1,
         NEW m \in 0 .. s - 1
  PROVE  y * s + m \in 0 .. n * s - 1
<1>1. PICK d \in Nat : n = y + 1 + d
  <2>1. n - y - 1 \in Nat /\ n = y + 1 + (n - y - 1)
    OBVIOUS
  <2> QED  BY <2>1
<1>2. n * s = y * s + s + d * s /\ d * s \in Nat /\ y * s \in Nat
  BY <1>1
<1> QED  BY <1>2

(* An int that fits is what its field means.                               *)
LEMMA Centres ==
  ASSUME NEW h \in Nat \ {0}, NEW i \in -h .. h - 1
  PROVE  /\ i % (2 * h) = IF i < 0 THEN i + 2 * h ELSE i
         /\ i % (2 * h) \in 0 .. 2 * h - 1
         /\ Centred(i % (2 * h), h) = i
<1> DEFINE s == 2 * h
<1>1. s \in Nat \ {0}
  OBVIOUS
<1>2. ASSUME i < 0 PROVE i % s = i + s
  <2>1. Above(i, s, -1, i + s)
    BY <1>2 DEF Above
  <2> HIDE DEF s
  <2> QED  BY <2>1, Divides
<1>3. ASSUME ~(i < 0) PROVE i % s = i
  <2>1. Above(i, s, 0, i)
    BY <1>3 DEF Above
  <2> HIDE DEF s
  <2> QED  BY <2>1, Divides
<1> QED  BY <1>2, <1>3 DEF Centred

(* The format and the weights of its fields.                               *)
LEMMA Widths ==
  /\ Wide.op = 4 /\ Wide.rn = 3 /\ Wide.par = 3
  /\ Unit \in Nat /\ Unit >= 8
  /\ Pow2[ParamBit(Wide)] = Unit
  /\ Pow2[Num2Bit(Wide)] = 8 * Unit /\ Pow2[Num2Bit(Wide) - 1] = 4 * Unit
  /\ Pow2[Num2Bit(Wide) - 2] = 2 * Unit
  /\ Pow2[Num1Bit(Wide)] = 64 * Unit /\ Pow2[Num1Bit(Wide) - 1] = 32 * Unit
  /\ Pow2[OperBit(Wide)] = 512 * Unit /\ Pow2[OperBit(Wide) - 1] = 256 * Unit
  /\ Pow2[OperBit(Wide) - 2] = 128 * Unit
<1>1. PICK n \in 16 .. 64 : Wide = [instr |-> n, op |-> 4, rn |-> 3, par |-> 3]
  BY VmConstants
<1>2. PICK k \in Nat : n = k + 16
  <2>1. n - 16 \in Nat /\ n = (n - 16) + 16
    OBVIOUS
  <2> QED  BY <2>1
<1>3. Wide.instr = n /\ Wide.op = 4 /\ Wide.rn = 3 /\ Wide.par = 3
  BY <1>1
<1>4. /\ OperBit(Wide) = k + 12 /\ Num1Bit(Wide) = k + 9
      /\ Num2Bit(Wide) = k + 6 /\ ParamBit(Wide) = k + 3
  BY <1>2, <1>3 DEF OperBit, Num1Bit, Num2Bit, ParamBit
<1>5. /\ (k + 12) - 1 = k + 11 /\ (k + 12) - 2 = k + 10 /\ (k + 9) - 1 = k + 8
      /\ (k + 6) - 1 = k + 5 /\ (k + 6) - 2 = k + 4
  OBVIOUS
<1>6. \A j \in Nat : j + 1 \in Nat /\ Pow2[j + 1] = 2 * Pow2[j]
  BY Powers
<1>7. /\ k + 1 = k + 1 /\ k + 2 = (k + 1) + 1 /\ k + 3 = (k + 2) + 1 /\ k + 4 = (k + 3) + 1
      /\ k + 5 = (k + 4) + 1 /\ k + 6 = (k + 5) + 1 /\ k + 7 = (k + 6) + 1
      /\ k + 8 = (k + 7) + 1 /\ k + 9 = (k + 8) + 1 /\ k + 10 = (k + 9) + 1
      /\ k + 11 = (k + 10) + 1 /\ k + 12 = (k + 11) + 1
  OBVIOUS
<1>8. Pow2[k] \in Nat \ {0}
  BY Powers
<1> DEFINE u == Pow2[k + 3]
<1>9. /\ Pow2[k + 1] = 2 * Pow2[k] /\ Pow2[k + 2] = 2 * Pow2[k + 1]
      /\ Pow2[k + 3] = 2 * Pow2[k + 2]
  <2>1. k + 1 \in Nat /\ k + 2 \in Nat
    OBVIOUS
  <2> QED  BY <1>6, <1>7, <2>1
<1>10. u \in Nat /\ u >= 8
  BY <1>8, <1>9
<1>11. /\ Pow2[k + 4] = 2 * u /\ Pow2[k + 5] = 2 * Pow2[k + 4]
       /\ Pow2[k + 6] = 2 * Pow2[k + 5] /\ Pow2[k + 7] = 2 * Pow2[k + 6]
  <2>1. k + 3 \in Nat /\ k + 4 \in Nat /\ k + 5 \in Nat /\ k + 6 \in Nat
    OBVIOUS
  <2> QED  BY <1>6, <1>7, <2>1
<1>12. /\ Pow2[k + 8] = 2 * Pow2[k + 7] /\ Pow2[k + 9] = 2 * Pow2[k + 8]
       /\ Pow2[k + 10] = 2 * Pow2[k + 9] /\ Pow2[k + 11] = 2 * Pow2[k + 10]
       /\ Pow2[k + 12] = 2 * Pow2[k + 11]
  <2>1. k + 7 \in Nat /\ k + 8 \in Nat /\ k + 9 \in Nat /\ k + 10 \in Nat /\ k + 11 \in Nat
    OBVIOUS
  <2> QED  BY <1>6, <1>7, <2>1
<1> HIDE DEF u
<1>13. /\ Pow2[k + 4] = 2 * u /\ Pow2[k + 5] = 4 * u /\ Pow2[k + 6] = 8 * u
       /\ Pow2[k + 7] = 16 * u
  BY <1>10, <1>11
<1>14. /\ Pow2[k + 8] = 32 * u /\ Pow2[k + 9] = 64 * u /\ Pow2[k + 10] = 128 * u
       /\ Pow2[k + 11] = 256 * u /\ Pow2[k + 12] = 512 * u
  BY <1>10, <1>12, <1>13
<1>15. Unit = u
  BY <1>4 DEF Unit, u
<1> QED
  BY <1>3, <1>4, <1>5, <1>10, <1>13, <1>14, <1>15 DEF u

(* The fields of a word of the format.                                     *)
LEMMA WideFields ==
  ASSUME NEW v
  PROVE  /\ OPER_CODE(v, Wide) = (v \div (512 * Unit)) % 16
         /\ REG_NUM1(v, Wide) = (v \div (64 * Unit)) % 8
         /\ REG_NUM2(v, Wide) = (v \div (8 * Unit)) % 8
         /\ REG_NUM3(v, Wide) = v % 8
         /\ INT_AFTER_OPER(v, Wide) = Centred(v % (512 * Unit), 256 * Unit)
         /\ INT_AFTER_OPER_FLAG(v, Wide) <=> (v \div (256 * Unit)) % 2 = 1
         /\ INT_AFTER_OPER_WITH_FLAG(v, Wide) = Centred(v % (256 * Unit), 128 * Unit)
         /\ INT_AFTER_NUM1(v, Wide) = Centred(v % (64 * Unit), 32 * Unit)
         /\ INT_AFTER_NUM2(v, Wide) = Centred(v % (8 * Unit), 4 * Unit)
         /\ INT_AFTER_NUM2_FLAG(v, Wide) <=> (v \div (4 * Unit)) % 2 = 1
         /\ INT_AFTER_NUM2_WITH_FLAG(v, Wide) = Centred(v % (4 * Unit), 2 * Unit)
         /\ PARAM_AFTER_NUM2(v, Wide) = (v \div Unit) % 8
         /\ UINT_AFTER_PARAM(v, Wide) = v % Unit
<1>1. Pow2[1] = 2 /\ Pow2[3] = 8 /\ Pow2[4] = 16
  BY SmallPowers
<1>2. /\ OPER_CODE(v, Wide) = (v \div (512 * Unit)) % 16
      /\ REG_NUM1(v, Wide) = (v \div (64 * Unit)) % 8
      /\ REG_NUM2(v, Wide) = (v \div (8 * Unit)) % 8
  BY <1>1, Widths DEF OPER_CODE, REG_NUM1, REG_NUM2, Bits
<1>3. /\ REG_NUM3(v, Wide) = v % 8
      /\ PARAM_AFTER_NUM2(v, Wide) = (v \div Unit) % 8
      /\ UINT_AFTER_PARAM(v, Wide) = v % Unit
  BY <1>1, Widths DEF REG_NUM3, PARAM_AFTER_NUM2, UINT_AFTER_PARAM, Bits, Cut
<1>4. /\ INT_AFTER_OPER_FLAG(v, Wide) <=> (v \div (256 * Unit)) % 2 = 1
      /\ INT_AFTER_NUM2_FLAG(v, Wide) <=> (v \div (4 * Unit)) % 2 = 1
  BY <1>1, Widths DEF INT_AFTER_OPER_FLAG, INT_AFTER_NUM2_FLAG, Bits
<1>5. /\ 512 * Unit = 2 * (256 * Unit) /\ 256 * Unit = 2 * (128 * Unit)
      /\ 64 * Unit = 2 * (32 * Unit) /\ 8 * Unit = 2 * (4 * Unit)
      /\ 4 * Unit = 2 * (2 * Unit)
  BY Widths
<1>6. ASSUME NEW n, NEW h, Pow2[n] = 2 * h, Pow2[n - 1] = h
      PROVE  INT_VALUE(v, n) = Centred(v % (2 * h), h)
  BY <1>6 DEF INT_VALUE, Cut, Centred
<1>7. INT_AFTER_OPER(v, Wide) = Centred(v % (512 * Unit), 256 * Unit)
  BY <1>5, <1>6, Widths DEF INT_AFTER_OPER
<1>8. INT_AFTER_NUM1(v, Wide) = Centred(v % (64 * Unit), 32 * Unit)
  BY <1>5, <1>6, Widths DEF INT_AFTER_NUM1
<1>9. INT_AFTER_NUM2(v, Wide) = Centred(v % (8 * Unit), 4 * Unit)
  BY <1>5, <1>6, Widths DEF INT_AFTER_NUM2
<1>10. /\ (OperBit(Wide) - 1) - 1 = OperBit(Wide) - 2
       /\ (Num2Bit(Wide) - 1) - 1 = Num2Bit(Wide) - 2
  <2>1. PICK n \in 16 .. 64 : Wide = [instr |-> n, op |-> 4, rn |-> 3, par |-> 3]
    BY VmConstants
  <2>2. OperBit(Wide) \in Int /\ Num2Bit(Wide) \in Int
    BY <2>1 DEF OperBit, Num1Bit, Num2Bit
  <2> QED  BY <2>2
<1>11. INT_AFTER_OPER_WITH_FLAG(v, Wide) = Centred(v % (256 * Unit), 128 * Unit)
  BY <1>5, <1>6, <1>10, Widths DEF INT_AFTER_OPER_WITH_FLAG
<1>12. INT_AFTER_NUM2_WITH_FLAG(v, Wide) = Centred(v % (4 * Unit), 2 * Unit)
  BY <1>5, <1>6, <1>10, Widths DEF INT_AFTER_NUM2_WITH_FLAG
<1> QED  BY <1>2, <1>3, <1>4, <1>7, <1>8, <1>9, <1>11, <1>12

\* A word is laid out from an operation code, up to two registers and a rest.
Laid0(v, op, low) ==
  op \in 0 .. 15 /\ low \in 0 .. 512 * Unit - 1 /\ v = op * (512 * Unit) + low
Laid1(v, op, r1, low) ==
  /\ op \in 0 .. 15 /\ r1 \in 0 .. 7 /\ low \in 0 .. 64 * Unit - 1
  /\ v = op * (512 * Unit) + r1 * (64 * Unit) + low
Laid2(v, op, r1, r2, low) ==
  /\ op \in 0 .. 15 /\ r1 \in 0 .. 7 /\ r2 \in 0 .. 7 /\ low \in 0 .. 8 * Unit - 1
  /\ v = op * (512 * Unit) + r1 * (64 * Unit) + r2 * (8 * Unit) + low

(* The operation code above the rest of a word.                            *)
LEMMA Packed0 ==
  ASSUME NEW v, NEW op, NEW low, Laid0(v, op, low)
  PROVE  OPER_CODE(v, Wide) = op /\ v % (512 * Unit) = low
<1>0. op \in 0 .. 15 /\ low \in 0 .. 512 * Unit - 1 /\ v = op * (512 * Unit) + low
  BY DEF Laid0
<1> DEFINE s == 512 * Unit
<1>1. s \in Nat \ {0}
  BY Widths
<1>2. Above(v, s, op, low) /\ op % 16 = op
  BY <1>0, <1>1, SMTT(30) DEF Above
<1>3. OPER_CODE(v, Wide) = (v \div s) % 16
  BY WideFields
<1> HIDE DEF s
<1>4. v \div s = op /\ v % s = low
  BY <1>2, Divides
<1>5. OPER_CODE(v, Wide) = op
  BY <1>2, <1>3, <1>4, Zenon
<1> QED  BY <1>4, <1>5 DEF s

(* The operation code and a register above the rest.                       *)
LEMMA Packed1 ==
  ASSUME NEW v, NEW op, NEW r1, NEW low, Laid1(v, op, r1, low)
  PROVE  OPER_CODE(v, Wide) = op /\ REG_NUM1(v, Wide) = r1 /\ v % (64 * Unit) = low
<1>0. /\ op \in 0 .. 15 /\ r1 \in 0 .. 7 /\ low \in 0 .. 64 * Unit - 1
      /\ v = op * (512 * Unit) + r1 * (64 * Unit) + low
  BY DEF Laid1
<1> DEFINE s == 64 * Unit
<1>1. s \in Nat \ {0} /\ 512 * Unit = 8 * s
  BY Widths
<1>2. low \in 0 .. s - 1 /\ v = op * (8 * s) + r1 * s + low
  BY <1>0, <1>1
<1>3. OPER_CODE(v, Wide) = op
  <2>1. r1 * s + low \in 0 .. 8 * s - 1
    <3> HIDE DEF s
    <3>1. 8 \in Nat \ {0} /\ r1 \in 0 .. 8 - 1
      BY <1>0
    <3> QED  BY ONLY <1>1, <1>2, <3>1, Below
  <2>2. Laid0(v, op, r1 * s + low)
    BY <1>0, <1>1, <2>1 DEF Laid0
  <2> HIDE DEF s
  <2> QED  BY <2>2, Packed0
<1> HIDE DEF s
<1>4. Above(v, s, op * 8 + r1, low) /\ Above(op * 8 + r1, 8, op, r1)
  BY <1>0, <1>1, <1>2 DEF Above
<1>5. (v \div s) % 8 = r1 /\ v % s = low
  BY <1>4, Divides
<1> QED  BY <1>3, <1>5, WideFields DEF s

(* The operation code and two registers above the rest.                    *)
LEMMA Packed2 ==
  ASSUME NEW v, NEW op, NEW r1, NEW r2, NEW low, Laid2(v, op, r1, r2, low)
  PROVE  /\ OPER_CODE(v, Wide) = op /\ REG_NUM1(v, Wide) = r1
         /\ REG_NUM2(v, Wide) = r2 /\ v % (8 * Unit) = low
<1>0. /\ op \in 0 .. 15 /\ r1 \in 0 .. 7 /\ r2 \in 0 .. 7 /\ low \in 0 .. 8 * Unit - 1
      /\ v = op * (512 * Unit) + r1 * (64 * Unit) + r2 * (8 * Unit) + low
  BY DEF Laid2
<1> DEFINE s == 8 * Unit
<1>1. s \in Nat \ {0} /\ 512 * Unit = 64 * s /\ 64 * Unit = 8 * s
  BY Widths
<1>2. low \in 0 .. s - 1 /\ v = op * (64 * s) + r1 * (8 * s) + r2 * s + low
  BY <1>0, <1>1
<1>3. OPER_CODE(v, Wide) = op /\ REG_NUM1(v, Wide) = r1
  <2> DEFINE rest == r2 * s + low
  <2>1. rest \in 0 .. 8 * s - 1
    <3>1. 8 \in Nat \ {0} /\ r2 \in 0 .. 8 - 1
      BY <1>0
    <3> HIDE DEF s
    <3> QED  BY ONLY <1>1, <1>2, <3>1, Below
  <2>2. Laid1(v, op, r1, rest)
    BY <1>0, <1>1, <2>1, Widths DEF Laid1
  <2> HIDE DEF s, rest
  <2> QED  BY <2>2, Packed1
<1> HIDE DEF s
<1> DEFINE q == (op * 8 + r1) * 8 + r2
<1>4. Above(v, s, q, low) /\ Above(q, 8, op * 8 + r1, r2)
  BY <1>0, <1>1, <1>2 DEF Above
<1> HIDE DEF q
<1>5. (v \div s) % 8 = r2 /\ v % s = low
  BY <1>4, Divides
<1> QED  BY <1>3, <1>5, WideFields DEF s

\* The rest of v is a digit y, one of n, above a rest m below s.
Within(v, n, s, y, m) ==
  /\ v \in Int /\ s \in Nat \ {0} /\ n \in Nat \ {0} /\ y \in 0 .. n - 1
  /\ Above(v % (n * s), s, y, m)

(* A digit within the rest of a word.                                      *)
LEMMA WithinRest ==
  ASSUME NEW v, NEW n, NEW s, NEW y, NEW m, Within(v, n, s, y, m)
  PROVE  (v \div s) % n = y /\ v % s = m
<1> DEFINE p == n * s
           r == v % p
           h == v \div p
           q == h * n + y
<1>1. v \in Int /\ s \in Nat \ {0} /\ n \in Nat \ {0} /\ y \in 0 .. n - 1
  BY DEF Within
<1>2. r = y * s + m /\ m \in 0 .. s - 1
  BY DEF Within, Above
<1>3. p \in Nat \ {0}
  <2>1. PICK d \in Nat : n = d + 1
    <3>1. n - 1 \in Nat /\ n = (n - 1) + 1
      BY <1>1
    <3> QED  BY <3>1
  <2>2. n * s = d * s + s /\ d * s \in Nat
    BY <1>1, <2>1
  <2> QED  BY <1>1, <2>2
<1>4. h \in Int /\ v = p * h + r
  <2> HIDE DEF p
  <2> QED  BY ONLY <1>1, <1>3
<1> HIDE DEF h, r
<1>5. v = (n * s) * h + (y * s + m)
  BY <1>2, <1>4
<1>6. v = (h * n + y) * s + m /\ h * n + y \in Int
  BY <1>1, <1>2, <1>4, <1>5
<1>7. Above(v, s, q, m) /\ Above(q, n, h, y)
  BY <1>1, <1>2, <1>4, <1>6 DEF Above
<1> HIDE DEF q
<1> QED  BY <1>7, Divides

(* A word with one register and an int.                                    *)
LEMMA PackRI ==
  ASSUME NEW op \in Uint4, NEW r1 \in Uint3, NEW i \in Int9,
         NEW v, v = MAKE_RI(Wide, op, r1, i)
  PROVE  /\ OPER_CODE(v, Wide) = op
         /\ REG_NUM1(v, Wide) = r1
         /\ INT_AFTER_NUM1(v, Wide) = i
<1> DEFINE h == 32 * Unit
<1>1. op \in 0 .. 15 /\ r1 \in 0 .. 7 /\ h \in Nat \ {0} /\ i \in -h .. h - 1
      /\ 64 * Unit = 2 * h
  BY Widths DEF Uint4, Uint3, Int9
<1> HIDE DEF h
<1>2. i % (2 * h) \in 0 .. 2 * h - 1 /\ Centred(i % (2 * h), h) = i
  BY <1>1, Centres
<1>3. v = op * (512 * Unit) + r1 * (64 * Unit) + (i % (2 * h))
  BY <1>1, Widths DEF MAKE_RI, Head1, HeadOf, Cut
<1>4. /\ OPER_CODE(v, Wide) = op /\ REG_NUM1(v, Wide) = r1
      /\ v % (64 * Unit) = i % (2 * h)
  <2>1. Laid1(v, op, r1, i % (2 * h))
    BY <1>1, <1>2, <1>3 DEF Laid1
  <2> QED  BY <2>1, Packed1
<1> QED  BY <1>2, <1>4, WideFields DEF h

(* A word with two registers and an int.                                   *)
LEMMA PackRRI ==
  ASSUME NEW op \in Uint4, NEW r1 \in Uint3, NEW r2 \in Uint3,
         NEW i \in Int6,
         NEW v, v = MAKE_RRI(Wide, op, r1, r2, i)
  PROVE  /\ OPER_CODE(v, Wide) = op
         /\ REG_NUM1(v, Wide) = r1
         /\ REG_NUM2(v, Wide) = r2
         /\ INT_AFTER_NUM2(v, Wide) = i
<1> DEFINE h == 4 * Unit
<1>1. op \in 0 .. 15 /\ r1 \in 0 .. 7 /\ r2 \in 0 .. 7 /\ h \in Nat \ {0}
      /\ i \in -h .. h - 1 /\ 8 * Unit = 2 * h
  BY Widths DEF Uint4, Uint3, Int6
<1> HIDE DEF h
<1>2. i % (2 * h) \in 0 .. 2 * h - 1 /\ Centred(i % (2 * h), h) = i
  BY <1>1, Centres
<1>3. v = op * (512 * Unit) + r1 * (64 * Unit) + r2 * (8 * Unit) + (i % (2 * h))
  BY <1>1, Widths DEF MAKE_RRI, Head2, Head1, HeadOf, Cut
<1>4. /\ OPER_CODE(v, Wide) = op /\ REG_NUM1(v, Wide) = r1 /\ REG_NUM2(v, Wide) = r2
      /\ v % (8 * Unit) = i % (2 * h)
  <2>1. Laid2(v, op, r1, r2, i % (2 * h))
    BY <1>1, <1>2, <1>3 DEF Laid2
  <2> QED  BY <2>1, Packed2
<1> QED  BY <1>2, <1>4, WideFields DEF h

(* A word with three registers; its flag is clear.                         *)
LEMMA PackRRR ==
  ASSUME NEW op \in Uint4, NEW r1 \in Uint3, NEW r2 \in Uint3,
         NEW r3 \in Uint3,
         NEW v, v = MAKE_RRR(Wide, op, r1, r2, r3)
  PROVE  /\ OPER_CODE(v, Wide) = op
         /\ REG_NUM1(v, Wide) = r1
         /\ REG_NUM2(v, Wide) = r2
         /\ ~INT_AFTER_NUM2_FLAG(v, Wide)
         /\ REG_NUM3(v, Wide) = r3
<1>1. op \in 0 .. 15 /\ r1 \in 0 .. 7 /\ r2 \in 0 .. 7 /\ r3 \in 0 .. 7
  BY DEF Uint4, Uint3
<1>2. v = op * (512 * Unit) + r1 * (64 * Unit) + r2 * (8 * Unit) + r3
  BY <1>1, Widths DEF MAKE_RRR, Head2, Head1, HeadOf
<1>3. r3 \in 0 .. 8 * Unit - 1 /\ r3 \in 0 .. 4 * Unit - 1 /\ v \in Int
  BY <1>1, <1>2, Widths
<1>4. /\ OPER_CODE(v, Wide) = op /\ REG_NUM1(v, Wide) = r1 /\ REG_NUM2(v, Wide) = r2
      /\ v % (8 * Unit) = r3
  <2>1. Laid2(v, op, r1, r2, r3)
    BY <1>1, <1>2, <1>3 DEF Laid2
  <2> QED  BY <2>1, Packed2
<1>5. (v \div (4 * Unit)) % 2 = 0
  <2> DEFINE s == 4 * Unit
  <2>1. s \in Nat \ {0} /\ 8 * Unit = 2 * s
    BY Widths
  <2>2. Above(r3, s, 0, r3)
    BY <1>1, <1>3, <2>1 DEF Above
  <2> HIDE DEF s
  <2>3. Within(v, 2, s, 0, r3)
    BY <1>3, <1>4, <2>1, <2>2 DEF Within
  <2>4. (v \div s) % 2 = 0
    BY <2>3, WithinRest
  <2> QED  BY <2>4 DEF s
<1>6. v % 8 = r3
  <2> DEFINE h == op * (64 * Unit) + r1 * (8 * Unit) + r2 * Unit
  <2>1. Above(v, 8, h, r3)
    BY <1>1, <1>2, Widths DEF Above
  <2> HIDE DEF h
  <2> QED  BY <2>1, Divides
<1> QED  BY <1>4, <1>5, <1>6, WideFields

(* A word with two registers and an int marked by its flag.                *)
LEMMA PackFlag ==
  ASSUME NEW op \in Uint4, NEW r1 \in Uint3, NEW r2 \in Uint3,
         NEW i \in Int5,
         NEW v, v = MAKE_RRI_WITH_FLAG(Wide, op, r1, r2, i)
  PROVE  /\ OPER_CODE(v, Wide) = op
         /\ REG_NUM1(v, Wide) = r1
         /\ REG_NUM2(v, Wide) = r2
         /\ INT_AFTER_NUM2_FLAG(v, Wide)
         /\ INT_AFTER_NUM2_WITH_FLAG(v, Wide) = i
<1> DEFINE h == 2 * Unit
           m == i % (2 * h)
           s == 2 * h
           low == 1 * s + m
<1>1. op \in 0 .. 15 /\ r1 \in 0 .. 7 /\ r2 \in 0 .. 7 /\ h \in Nat \ {0}
      /\ i \in -h .. h - 1 /\ 4 * Unit = 2 * h
  BY Widths DEF Uint4, Uint3, Int5
<1> HIDE DEF h
<1>2. m \in 0 .. 2 * h - 1 /\ Centred(m, h) = i
  BY <1>1, Centres
<1>3. v = op * (512 * Unit) + r1 * (64 * Unit) + r2 * (8 * Unit) + s + m
  BY <1>1, Widths DEF MAKE_RRI_WITH_FLAG, Head2, Head1, HeadOf, Cut
<1> HIDE DEF m
<1>4. s \in Nat \ {0} /\ 8 * Unit = 2 * s /\ m \in 0 .. s - 1 /\ 4 * Unit = s
  BY <1>1, <1>2, Widths
<1> HIDE DEF s
<1>5. Laid2(v, op, r1, r2, low) /\ v \in Int /\ Above(low, s, 1, m)
  BY <1>1, <1>3, <1>4, Widths DEF Laid2, Above
<1> HIDE DEF low
<1>6. /\ OPER_CODE(v, Wide) = op /\ REG_NUM1(v, Wide) = r1 /\ REG_NUM2(v, Wide) = r2
      /\ v % (8 * Unit) = low
  BY <1>5, Packed2
<1>7. Within(v, 2, s, 1, m)
  BY <1>4, <1>5, <1>6 DEF Within
<1>8. (v \div s) % 2 = 1 /\ v % s = m
  BY <1>7, WithinRest
<1> QED  BY <1>2, <1>4, <1>6, <1>8, WideFields DEF h

(* A word of the reserved operation.                                       *)
LEMMA PackRRPI ==
  ASSUME NEW op \in Uint4, NEW r1 \in Uint3, NEW r2 \in Uint3,
         NEW par \in Uint3, NEW i \in Uint3,
         NEW v, v = MAKE_RRPI(Wide, op, r1, r2, par, i)
  PROVE  /\ OPER_CODE(v, Wide) = op
         /\ REG_NUM1(v, Wide) = r1
         /\ REG_NUM2(v, Wide) = r2
         /\ PARAM_AFTER_NUM2(v, Wide) = par
         /\ UINT_AFTER_PARAM(v, Wide) = i
<1> DEFINE low == par * Unit + i
<1>1. op \in 0 .. 15 /\ r1 \in 0 .. 7 /\ r2 \in 0 .. 7 /\ par \in 0 .. 7
      /\ i \in 0 .. Unit - 1 /\ i \in Int /\ Unit \in Nat \ {0}
  BY Widths DEF Uint4, Uint3
<1>2. i % Unit = i
  <2>1. Above(i, Unit, 0, i)
    BY <1>1 DEF Above
  <2> QED  BY <2>1, Divides
<1>3. v = op * (512 * Unit) + r1 * (64 * Unit) + r2 * (8 * Unit) + par * Unit + (i % Unit)
  BY Widths DEF MAKE_RRPI, Head2, Head1, HeadOf, Cut
<1>4. low \in 0 .. 8 * Unit - 1 /\ low \in Int
  <2>1. 8 \in Nat \ {0} /\ par \in 0 .. 8 - 1
    BY <1>1
  <2>2. par * Unit + i \in 0 .. 8 * Unit - 1
    BY ONLY <1>1, <2>1, Below
  <2> QED  BY <2>2
<1>5. Above(low, Unit, par, i)
  BY <1>1 DEF Above
<1>6. v = op * (512 * Unit) + r1 * (64 * Unit) + r2 * (8 * Unit) + low
  BY <1>1, <1>2, <1>3
<1> HIDE DEF low
<1>7. Laid2(v, op, r1, r2, low) /\ v \in Int
  BY <1>1, <1>4, <1>6 DEF Laid2
<1>8. /\ OPER_CODE(v, Wide) = op /\ REG_NUM1(v, Wide) = r1 /\ REG_NUM2(v, Wide) = r2
      /\ v % (8 * Unit) = low
  BY <1>7, Packed2
<1>9. Within(v, 8, Unit, par, i)
  BY <1>1, <1>5, <1>7, <1>8 DEF Within
<1>10. (v \div Unit) % 8 = par /\ v % Unit = i
  BY <1>9, WithinRest
<1> QED  BY <1>8, <1>10, WideFields

(* A word with two registers.                                              *)
LEMMA PackRR ==
  ASSUME NEW op \in Uint4, NEW r1 \in Uint3, NEW r2 \in Uint3,
         NEW v, v = MAKE_RR(Wide, op, r1, r2)
  PROVE  /\ OPER_CODE(v, Wide) = op
         /\ REG_NUM1(v, Wide) = r1
         /\ REG_NUM2(v, Wide) = r2
<1>1. op \in 0 .. 15 /\ r1 \in 0 .. 7 /\ r2 \in 0 .. 7 /\ 0 \in 0 .. 8 * Unit - 1
  BY Widths DEF Uint4, Uint3
<1>2. v = op * (512 * Unit) + r1 * (64 * Unit) + r2 * (8 * Unit) + 0
  BY <1>1, Widths DEF MAKE_RR, Head2, Head1, HeadOf
<1>3. Laid2(v, op, r1, r2, 0)
  BY <1>1, <1>2 DEF Laid2
<1> QED  BY <1>3, Packed2

(* A word with the second register only.                                   *)
LEMMA PackR2 ==
  ASSUME NEW op \in Uint4, NEW r2 \in Uint3,
         NEW v, v = MAKE_R2(Wide, op, r2)
  PROVE  /\ OPER_CODE(v, Wide) = op
         /\ REG_NUM2(v, Wide) = r2
         /\ ~INT_AFTER_OPER_FLAG(v, Wide)
<1> DEFINE low == r2 * (8 * Unit)
<1>1. op \in 0 .. 15 /\ r2 \in 0 .. 7 /\ 0 \in 0 .. 8 * Unit - 1 /\ 0 \in 0 .. 7
  BY Widths DEF Uint4, Uint3
<1>2. v = op * (512 * Unit) + low
  BY <1>1, Widths DEF MAKE_R2, HeadOf
<1>3. v = op * (512 * Unit) + 0 * (64 * Unit) + r2 * (8 * Unit) + 0
  BY <1>1, <1>2, Widths
<1>4. OPER_CODE(v, Wide) = op /\ REG_NUM2(v, Wide) = r2
  <2>1. Laid2(v, op, 0, r2, 0)
    BY <1>1, <1>3 DEF Laid2
  <2> QED  BY <2>1, Packed2
<1>5. (v \div (256 * Unit)) % 2 = 0
  <2> DEFINE s == 256 * Unit
  <2>1. s \in Nat \ {0} /\ 512 * Unit = 2 * s /\ low \in 0 .. s - 1 /\ v \in Int
    BY <1>1, <1>2, Widths
  <2>2. Laid0(v, op, low)
    BY <1>1, <1>2, <2>1 DEF Laid0
  <2> HIDE DEF low
  <2>3. Above(low, s, 0, low)
    BY <2>1 DEF Above
  <2> HIDE DEF s
  <2>4. v % (512 * Unit) = low
    BY <2>2, Packed0
  <2>5. Within(v, 2, s, 0, low)
    BY <2>1, <2>3, <2>4 DEF Within
  <2>6. (v \div s) % 2 = 0
    BY <2>5, WithinRest
  <2> QED  BY <2>6 DEF s
<1> QED  BY <1>4, <1>5, WideFields

(* The word of JSR: the flag stays set whatever the int.                   *)
LEMMA PackCall ==
  ASSUME NEW op \in Uint4, NEW i \in Int11,
         NEW v, v = MAKE_I_WITH_FLAG(Wide, op, i)
  PROVE  /\ OPER_CODE(v, Wide) = op
         /\ INT_AFTER_OPER_FLAG(v, Wide)
         /\ INT_AFTER_OPER_WITH_FLAG(v, Wide) = i
<1> DEFINE h == 128 * Unit
           s == 256 * Unit
           m == i % (2 * h)
           cut == i % (2 * s)
           low == 1 * s + m
<1>1. /\ op \in 0 .. 15 /\ h \in Nat \ {0} /\ s \in Nat \ {0} /\ s = 2 * h
      /\ i \in -h .. h - 1 /\ i \in -s .. s - 1 /\ 512 * Unit = 2 * s
  BY Widths DEF Uint4, Int11
<1>2. v = op * (512 * Unit) + IF cut >= s THEN cut ELSE cut + s
  BY <1>1, Widths DEF MAKE_I_WITH_FLAG, HeadOf, Cut
<1> HIDE DEF h, s
<1>3. /\ m \in 0 .. 2 * h - 1 /\ Centred(m, h) = i
      /\ m = IF i < 0 THEN i + 2 * h ELSE i
      /\ cut = IF i < 0 THEN i + 2 * s ELSE i
  BY <1>1, Centres, ZenonT(60)
<1> HIDE DEF m, cut
<1>4. Laid0(v, op, low) /\ v \in Int /\ Above(low, s, 1, m)
  BY <1>1, <1>2, <1>3, Widths DEF Laid0, Above
<1> HIDE DEF low
<1>5. OPER_CODE(v, Wide) = op /\ v % (512 * Unit) = low
  BY <1>4, Packed0
<1>6. Within(v, 2, s, 1, m)
  BY <1>1, <1>4, <1>5 DEF Within
<1>7. (v \div s) % 2 = 1 /\ v % s = m
  BY <1>6, WithinRest
<1> QED  BY <1>3, <1>5, <1>7, WideFields DEF h, s

(* The word of TRAP.                                                       *)
LEMMA PackT ==
  ASSUME NEW op \in Uint4, NEW i \in Int12,
         NEW v, v = MAKE_T(Wide, op, i)
  PROVE  /\ OPER_CODE(v, Wide) = op
         /\ INT_AFTER_OPER(v, Wide) = i
<1> DEFINE h == 256 * Unit
<1>1. op \in 0 .. 15 /\ h \in Nat \ {0} /\ i \in -h .. h - 1 /\ 512 * Unit = 2 * h
  BY Widths DEF Uint4, Int12
<1> HIDE DEF h
<1>2. i % (2 * h) \in 0 .. 2 * h - 1 /\ Centred(i % (2 * h), h) = i
  BY <1>1, Centres
<1>3. v = op * (512 * Unit) + (i % (2 * h))
  BY <1>1, Widths DEF MAKE_T, HeadOf, Cut
<1>4. OPER_CODE(v, Wide) = op /\ v % (512 * Unit) = i % (2 * h)
  <2>1. Laid0(v, op, i % (2 * h))
    BY <1>1, <1>2, <1>3 DEF Laid0
  <2> QED  BY <2>1, Packed0
<1> QED  BY <1>2, <1>4, WideFields DEF h

(* The operation codes by shape.                                           *)
LEMMA Shapes ==
  ASSUME NEW o
  PROVE  /\ o \in CODE_RI <=> o \in {0, 2, 3, 10, 11, 14}
         /\ o \in CODE_RRR_RRI <=> o \in {1, 5}
         /\ o \in CODE_RRI <=> o \in {6, 7, 8}
<1>1. o \in CODE_RI <=> o \in {0, 2, 3, 10, 11, 14}
  BY Opcodes DEF CODE_RI, Codes
<1>2. o \in CODE_RRR_RRI <=> o \in {1, 5}
  BY Opcodes DEF CODE_RRR_RRI, Codes
<1>3. o \in CODE_RRI <=> o \in {6, 7, 8}
  BY Opcodes DEF CODE_RRI, Codes
<1> QED  BY <1>1, <1>2, <1>3

(* What an instruction of each shape is decoded to.                        *)
LEMMA DecodedShapes ==
  ASSUME NEW w, NEW f, NEW o, o = OPER_CODE(w, f)
  PROVE  /\ o \in CODE_RI =>
              Decoded(w, f) = <<o, REG_NUM1(w, f), INT_AFTER_NUM1(w, f)>>
         /\ o \in CODE_RRR_RRI =>
              Decoded(w, f) =
                IF INT_AFTER_NUM2_FLAG(w, f)
                THEN <<o, REG_NUM1(w, f), REG_NUM2(w, f), "int",
                       INT_AFTER_NUM2_WITH_FLAG(w, f)>>
                ELSE <<o, REG_NUM1(w, f), REG_NUM2(w, f), "reg", REG_NUM3(w, f)>>
         /\ o = 4 =>
              Decoded(w, f) =
                IF INT_AFTER_OPER_FLAG(w, f)
                THEN <<o, "int", INT_AFTER_OPER_WITH_FLAG(w, f)>>
                ELSE <<o, "reg", REG_NUM2(w, f)>>
         /\ o \in CODE_RRI =>
              Decoded(w, f) = <<o, REG_NUM1(w, f), REG_NUM2(w, f),
                                INT_AFTER_NUM2(w, f)>>
         /\ o = 13 =>
              Decoded(w, f) = <<o, REG_NUM1(w, f), REG_NUM2(w, f),
                                PARAM_AFTER_NUM2(w, f), UINT_AFTER_PARAM(w, f)>>
         /\ o = 9 => Decoded(w, f) = <<o, REG_NUM1(w, f), REG_NUM2(w, f)>>
         /\ o = 12 => Decoded(w, f) = <<o, REG_NUM2(w, f)>>
         /\ o = 15 => Decoded(w, f) = <<o, INT_AFTER_OPER(w, f)>>
  BY Shapes, Opcodes DEF Decoded

(* What a 16-bit instruction of each shape is converted to.                *)
LEMMA ConvertShapes ==
  ASSUME NEW w, NEW o, o = OPER_CODE(w, Format16)
  PROVE  /\ o \in CODE_RI =>
              INSTR_CONVERT(w, Format16, Wide) =
                MAKE_RI(Wide, o, REG_NUM1(w, Format16),
                        INT_AFTER_NUM1(w, Format16))
         /\ o \in CODE_RRR_RRI =>
              INSTR_CONVERT(w, Format16, Wide) =
                IF INT_AFTER_NUM2_FLAG(w, Format16)
                THEN MAKE_RRI_WITH_FLAG(Wide, o, REG_NUM1(w, Format16),
                       REG_NUM2(w, Format16), INT_AFTER_NUM2_WITH_FLAG(w, Format16))
                ELSE MAKE_RRR(Wide, o, REG_NUM1(w, Format16),
                       REG_NUM2(w, Format16), REG_NUM3(w, Format16))
         /\ o = 4 =>
              INSTR_CONVERT(w, Format16, Wide) =
                IF INT_AFTER_OPER_FLAG(w, Format16)
                THEN MAKE_I_WITH_FLAG(Wide, o,
                                      INT_AFTER_OPER_WITH_FLAG(w, Format16))
                ELSE MAKE_R2(Wide, o, REG_NUM2(w, Format16))
         /\ o \in CODE_RRI =>
              INSTR_CONVERT(w, Format16, Wide) =
                MAKE_RRI(Wide, o, REG_NUM1(w, Format16),
                         REG_NUM2(w, Format16), INT_AFTER_NUM2(w, Format16))
         /\ o = 13 =>
              INSTR_CONVERT(w, Format16, Wide) =
                MAKE_RRPI(Wide, o, REG_NUM1(w, Format16),
                          REG_NUM2(w, Format16), PARAM_AFTER_NUM2(w, Format16),
                          UINT_AFTER_PARAM(w, Format16))
         /\ o = 9 =>
              INSTR_CONVERT(w, Format16, Wide) =
                MAKE_RR(Wide, o, REG_NUM1(w, Format16), REG_NUM2(w, Format16))
         /\ o = 12 =>
              INSTR_CONVERT(w, Format16, Wide) =
                MAKE_R2(Wide, o, REG_NUM2(w, Format16))
         /\ o = 15 =>
              INSTR_CONVERT(w, Format16, Wide) =
                MAKE_T(Wide, o, INT_AFTER_OPER(w, Format16))
  BY Shapes, Opcodes DEF INSTR_CONVERT, INSTR_CONVERT_RRR_RRI

(* The ranges of the fields of a 16-bit instruction.                       *)
LEMMA Ranges ==
  ASSUME NEW w \in Word
  PROVE  /\ OPER_CODE(w, Format16) \in Uint4
         /\ REG_NUM1(w, Format16) \in Uint3 /\ REG_NUM2(w, Format16) \in Uint3
         /\ REG_NUM3(w, Format16) \in Uint3
         /\ PARAM_AFTER_NUM2(w, Format16) \in Uint3
         /\ UINT_AFTER_PARAM(w, Format16) \in Uint3
         /\ INT_AFTER_NUM2_WITH_FLAG(w, Format16) \in Int5
         /\ INT_AFTER_NUM2(w, Format16) \in Int6
         /\ INT_AFTER_NUM1(w, Format16) \in Int9
         /\ INT_AFTER_OPER_WITH_FLAG(w, Format16) \in Int11
         /\ INT_AFTER_OPER(w, Format16) \in Int12
<1>1. w \in Nat /\ w < 65536
  BY InWord
<1>2. /\ INT_VALUE(w, 5) \in Int5 /\ INT_VALUE(w, 6) \in Int6
      /\ INT_VALUE(w, 9) \in Int9 /\ INT_VALUE(w, 11) \in Int11
      /\ INT_VALUE(w, 12) \in Int12
  <2>1. INT_VALUE(w, 5) \in Int5
    <3> DEFINE m == w % 32
               k == INT_VALUE(w, 5)
    <3>1. k = IF m >= 16 THEN m - 32 ELSE m
      BY Literal
    <3>2. m \in Int /\ 0 <= m /\ m < 32
      BY ONLY <1>1
    <3> HIDE DEF m, k
    <3>3. k \in Int /\ -16 <= k /\ k < 16
      BY ONLY <3>1, <3>2
    <3>4. k \in Int5
      BY ONLY <3>3 DEF Int5
    <3> QED  BY ONLY <3>4 DEF k
  <2>2. INT_VALUE(w, 6) \in Int6
    <3> DEFINE m == w % 64
               k == INT_VALUE(w, 6)
    <3>1. k = IF m >= 32 THEN m - 64 ELSE m
      BY Literal
    <3>2. m \in Int /\ 0 <= m /\ m < 64
      BY ONLY <1>1
    <3> HIDE DEF m, k
    <3>3. k \in Int /\ -32 <= k /\ k < 32
      BY ONLY <3>1, <3>2
    <3>4. k \in Int6
      BY ONLY <3>3 DEF Int6
    <3> QED  BY ONLY <3>4 DEF k
  <2>3. INT_VALUE(w, 9) \in Int9
    <3> DEFINE m == w % 512
               k == INT_VALUE(w, 9)
    <3>1. k = IF m >= 256 THEN m - 512 ELSE m
      BY Literal
    <3>2. m \in Int /\ 0 <= m /\ m < 512
      BY ONLY <1>1
    <3> HIDE DEF m, k
    <3>3. k \in Int /\ -256 <= k /\ k < 256
      BY ONLY <3>1, <3>2
    <3>4. k \in Int9
      BY ONLY <3>3 DEF Int9
    <3> QED  BY ONLY <3>4 DEF k
  <2>4. INT_VALUE(w, 11) \in Int11
    <3> DEFINE m == w % 2048
               k == INT_VALUE(w, 11)
    <3>1. k = IF m >= 1024 THEN m - 2048 ELSE m
      BY Literal
    <3>2. m \in Int /\ 0 <= m /\ m < 2048
      BY ONLY <1>1
    <3> HIDE DEF m, k
    <3>3. k \in Int /\ -1024 <= k /\ k < 1024
      BY ONLY <3>1, <3>2
    <3>4. k \in Int11
      BY ONLY <3>3 DEF Int11
    <3> QED  BY ONLY <3>4 DEF k
  <2>5. INT_VALUE(w, 12) \in Int12
    <3> DEFINE m == w % 4096
               k == INT_VALUE(w, 12)
    <3>1. k = IF m >= 2048 THEN m - 4096 ELSE m
      BY Literal
    <3>2. m \in Int /\ 0 <= m /\ m < 4096
      BY ONLY <1>1
    <3> HIDE DEF m, k
    <3>3. k \in Int /\ -2048 <= k /\ k < 2048
      BY ONLY <3>1, <3>2
    <3>4. k \in Int12
      BY ONLY <3>3 DEF Int12
    <3> QED  BY ONLY <3>4 DEF k
  <2> QED  BY <2>1, <2>2, <2>3, <2>4, <2>5
<1>3. Bits(w, 3, 3) \in Uint3 /\ w % 2^3 \in Uint3
  <2>1. Bits(w, 3, 3) = (w \div 8) % 8
    BY Literal
  <2> QED  BY <1>1, <2>1 DEF Uint3
<1>4. /\ w \div 2^12 \in Uint4 /\ Bits(w, 9, 3) \in Uint3
      /\ Bits(w, 6, 3) \in Uint3 /\ Cut(w, 3) \in Uint3
  BY FieldTypes DEF Uint3, Uint4
<1> QED  BY <1>2, <1>3, <1>4, SameFields

(* Converting a word keeps what the executer takes from it.                *)
LEMMA ConvertWide ==
  ASSUME NEW w \in Word
  PROVE  Decoded(INSTR_CONVERT(w, Format16, Wide), Wide)
           = Decoded(w, Format16)
<1> DEFINE v   == INSTR_CONVERT(w, Format16, Wide)
           op  == OPER_CODE(w, Format16)
           r1  == REG_NUM1(w, Format16)
           r2  == REG_NUM2(w, Format16)
           r3  == REG_NUM3(w, Format16)
           par == PARAM_AFTER_NUM2(w, Format16)
           u   == UINT_AFTER_PARAM(w, Format16)
           i5  == INT_AFTER_NUM2_WITH_FLAG(w, Format16)
           i6  == INT_AFTER_NUM2(w, Format16)
           i9  == INT_AFTER_NUM1(w, Format16)
           i11 == INT_AFTER_OPER_WITH_FLAG(w, Format16)
           i12 == INT_AFTER_OPER(w, Format16)
<1> SUFFICES Decoded(v, Wide) = Decoded(w, Format16)
  OBVIOUS
<1>1. /\ op \in Uint4 /\ r1 \in Uint3 /\ r2 \in Uint3 /\ r3 \in Uint3
      /\ par \in Uint3 /\ u \in Uint3 /\ i5 \in Int5 /\ i6 \in Int6
      /\ i9 \in Int9 /\ i11 \in Int11 /\ i12 \in Int12
  BY Ranges
<1>2. CASE op \in CODE_RI
  <2>1. v = MAKE_RI(Wide, op, r1, i9)
    BY <1>2, ConvertShapes
  <2>2. Decoded(w, Format16) = <<op, r1, i9>>
    BY <1>2, DecodedShapes
  <2> HIDE DEF v, op, r1, r2, r3, par, u, i5, i6, i9, i11, i12
  <2>3. /\ OPER_CODE(v, Wide) = op
        /\ REG_NUM1(v, Wide) = r1
        /\ INT_AFTER_NUM1(v, Wide) = i9
    BY <1>1, <2>1, PackRI
  <2>4. Decoded(v, Wide) = <<op, r1, i9>>
    BY <1>2, <2>3, DecodedShapes
  <2> QED  BY <2>2, <2>4
<1>3. CASE op \in CODE_RRR_RRI /\ INT_AFTER_NUM2_FLAG(w, Format16)
  <2>1. v = MAKE_RRI_WITH_FLAG(Wide, op, r1, r2, i5)
    BY <1>3, ConvertShapes
  <2>2. Decoded(w, Format16) = <<op, r1, r2, "int", i5>>
    BY <1>3, DecodedShapes
  <2> HIDE DEF v, op, r1, r2, r3, par, u, i5, i6, i9, i11, i12
  <2>3. /\ OPER_CODE(v, Wide) = op
        /\ REG_NUM1(v, Wide) = r1
        /\ REG_NUM2(v, Wide) = r2
        /\ INT_AFTER_NUM2_FLAG(v, Wide)
        /\ INT_AFTER_NUM2_WITH_FLAG(v, Wide) = i5
    BY <1>1, <2>1, PackFlag
  <2>4. Decoded(v, Wide) = <<op, r1, r2, "int", i5>>
    BY <1>3, <2>3, DecodedShapes
  <2> QED  BY <2>2, <2>4
<1>4. CASE op \in CODE_RRR_RRI /\ ~INT_AFTER_NUM2_FLAG(w, Format16)
  <2>1. v = MAKE_RRR(Wide, op, r1, r2, r3)
    BY <1>4, ConvertShapes
  <2>2. Decoded(w, Format16) = <<op, r1, r2, "reg", r3>>
    BY <1>4, DecodedShapes
  <2> HIDE DEF v, op, r1, r2, r3, par, u, i5, i6, i9, i11, i12
  <2>3. /\ OPER_CODE(v, Wide) = op
        /\ REG_NUM1(v, Wide) = r1
        /\ REG_NUM2(v, Wide) = r2
        /\ ~INT_AFTER_NUM2_FLAG(v, Wide)
        /\ REG_NUM3(v, Wide) = r3
    BY <1>1, <2>1, PackRRR
  <2>4. Decoded(v, Wide) = <<op, r1, r2, "reg", r3>>
    BY <1>4, <2>3, DecodedShapes
  <2> QED  BY <2>2, <2>4
<1>5. CASE op = 4 /\ INT_AFTER_OPER_FLAG(w, Format16)
  <2>1. v = MAKE_I_WITH_FLAG(Wide, op, i11)
    BY <1>5, ConvertShapes, SMTT(60)
  <2>2. Decoded(w, Format16) = <<op, "int", i11>>
    BY <1>5, DecodedShapes
  <2> HIDE DEF v, op, r1, r2, r3, par, u, i5, i6, i9, i11, i12
  <2>3. /\ OPER_CODE(v, Wide) = op
        /\ INT_AFTER_OPER_FLAG(v, Wide)
        /\ INT_AFTER_OPER_WITH_FLAG(v, Wide) = i11
    BY <1>1, <2>1, PackCall
  <2>4. Decoded(v, Wide) = <<op, "int", i11>>
    BY <1>5, <2>3, DecodedShapes
  <2> QED  BY <2>2, <2>4
<1>6. CASE op = 4 /\ ~INT_AFTER_OPER_FLAG(w, Format16)
  <2>1. v = MAKE_R2(Wide, op, r2)
    BY <1>6, ConvertShapes
  <2>2. Decoded(w, Format16) = <<op, "reg", r2>>
    BY <1>6, DecodedShapes
  <2> HIDE DEF v, op, r1, r2, r3, par, u, i5, i6, i9, i11, i12
  <2>3. /\ OPER_CODE(v, Wide) = op
        /\ REG_NUM2(v, Wide) = r2
        /\ ~INT_AFTER_OPER_FLAG(v, Wide)
    BY <1>1, <2>1, PackR2
  <2>4. Decoded(v, Wide) = <<op, "reg", r2>>
    BY <1>6, <2>3, DecodedShapes
  <2> QED  BY <2>2, <2>4
<1>7. CASE op \in CODE_RRI
  <2>1. v = MAKE_RRI(Wide, op, r1, r2, i6)
    BY <1>7, ConvertShapes
  <2>2. Decoded(w, Format16) = <<op, r1, r2, i6>>
    BY <1>7, DecodedShapes
  <2> HIDE DEF v, op, r1, r2, r3, par, u, i5, i6, i9, i11, i12
  <2>3. /\ OPER_CODE(v, Wide) = op
        /\ REG_NUM1(v, Wide) = r1
        /\ REG_NUM2(v, Wide) = r2
        /\ INT_AFTER_NUM2(v, Wide) = i6
    BY <1>1, <2>1, PackRRI
  <2>4. Decoded(v, Wide) = <<op, r1, r2, i6>>
    BY <1>7, <2>3, DecodedShapes
  <2> QED  BY <2>2, <2>4
<1>8. CASE op = 13
  <2>1. v = MAKE_RRPI(Wide, op, r1, r2, par, u)
    BY <1>8, ConvertShapes
  <2>2. Decoded(w, Format16) = <<op, r1, r2, par, u>>
    BY <1>8, DecodedShapes
  <2> HIDE DEF v, op, r1, r2, r3, par, u, i5, i6, i9, i11, i12
  <2>3. /\ OPER_CODE(v, Wide) = op
        /\ REG_NUM1(v, Wide) = r1
        /\ REG_NUM2(v, Wide) = r2
        /\ PARAM_AFTER_NUM2(v, Wide) = par
        /\ UINT_AFTER_PARAM(v, Wide) = u
    BY <1>1, <2>1, PackRRPI
  <2>4. Decoded(v, Wide) = <<op, r1, r2, par, u>>
    BY <1>8, <2>3, DecodedShapes
  <2> QED  BY <2>2, <2>4
<1>9. CASE op = 9
  <2>1. v = MAKE_RR(Wide, op, r1, r2)
    BY <1>9, ConvertShapes
  <2>2. Decoded(w, Format16) = <<op, r1, r2>>
    BY <1>9, DecodedShapes
  <2> HIDE DEF v, op, r1, r2, r3, par, u, i5, i6, i9, i11, i12
  <2>3. /\ OPER_CODE(v, Wide) = op
        /\ REG_NUM1(v, Wide) = r1
        /\ REG_NUM2(v, Wide) = r2
    BY <1>1, <2>1, PackRR
  <2>4. Decoded(v, Wide) = <<op, r1, r2>>
    BY <1>9, <2>3, DecodedShapes
  <2> QED  BY <2>2, <2>4
<1>10. CASE op = 12
  <2>1. v = MAKE_R2(Wide, op, r2)
    BY <1>10, ConvertShapes
  <2>2. Decoded(w, Format16) = <<op, r2>>
    BY <1>10, DecodedShapes
  <2> HIDE DEF v, op, r1, r2, r3, par, u, i5, i6, i9, i11, i12
  <2>3. /\ OPER_CODE(v, Wide) = op
        /\ REG_NUM2(v, Wide) = r2
    BY <1>1, <2>1, PackR2
  <2>4. Decoded(v, Wide) = <<op, r2>>
    BY <1>10, <2>3, DecodedShapes
  <2> QED  BY <2>2, <2>4
<1>11. CASE op = 15
  <2>1. v = MAKE_T(Wide, op, i12)
    BY <1>11, ConvertShapes
  <2>2. Decoded(w, Format16) = <<op, i12>>
    BY <1>11, DecodedShapes
  <2> HIDE DEF v, op, r1, r2, r3, par, u, i5, i6, i9, i11, i12
  <2>3. /\ OPER_CODE(v, Wide) = op
        /\ INT_AFTER_OPER(v, Wide) = i12
    BY <1>1, <2>1, PackT
  <2>4. Decoded(v, Wide) = <<op, i12>>
    BY <1>11, <2>3, DecodedShapes
  <2> QED  BY <2>2, <2>4
<1> HIDE DEF v, op, r1, r2, r3, par, u, i5, i6, i9, i11, i12
<1>12. op \in 0 .. 15
  BY <1>1 DEF Uint4
<1> QED
  BY <1>2, <1>3, <1>4, <1>5, <1>6, <1>7, <1>8, <1>9, <1>10, <1>11, <1>12, Shapes

(* An assembler built for words of 16 to 64 bits converts every 16-bit     *)
(* instruction to one that the executer takes the same operation and       *)
(* operands from (instr_converter.h LC3_INSTR_CONVERT).                    *)
THEOREM AlwaysConvertKeepsMeaning == Spec => []ConvertKeepsMeaning
<1>1. ConvertKeepsMeaning
  BY ConvertWide DEF ConvertKeepsMeaning
<1> QED  BY <1>1, PTL


=============================================================================
