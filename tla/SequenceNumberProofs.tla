------------------------ MODULE SequenceNumberProofs ------------------------
(***************************************************************************)
(* Facts about wrapping arithmetic.  The provers know i % Modulus only as  *)
(* the remainder of a division; everything else is derived here once.      *)
(***************************************************************************)
EXTENDS SequenceNumber, TLAPS

\* A number differs from what it wraps to by a multiple of the modulus.
LEMMA WrapIsRemainder ==
  ASSUME NEW i \in Int
  PROVE  Wrap(i) \in SeqNum /\ \E q \in Int : i = Modulus * q + Wrap(i)
<1>1. /\ Wrap(i) \in 0 .. Modulus - 1
      /\ i \div Modulus \in Int
      /\ i = Modulus * (i \div Modulus) + Wrap(i)
  BY SequenceNumberAssumption DEF Wrap
<1>2. QED
  BY <1>1 DEF SeqNum

\* A multiple of m strictly between -m and m is zero.
LEMMA SmallMultiple ==
  ASSUME NEW m \in Nat \ {0}, NEW q \in Int, m * q < m, m * q > -m
  PROVE  q = 0
<1>1. CASE q >= 1
  BY <1>1
<1>2. CASE q <= -1
  BY <1>2
<1>3. QED
  BY <1>1, <1>2

LEMMA MultipleDifference ==
  ASSUME NEW m \in Int, NEW p \in Int, NEW q \in Int
  PROVE  /\ m * (p - q) = m * p - m * q
         /\ m * p \in Int /\ m * q \in Int /\ p - q \in Int
OBVIOUS

\* The remainder is the only number of its kind.
LEMMA WrapUnique ==
  ASSUME NEW i \in Int, NEW q \in Int, NEW r \in SeqNum, i = Modulus * q + r
  PROVE  Wrap(i) = r
<1>1. PICK p \in Int : i = Modulus * p + Wrap(i)
  BY WrapIsRemainder
<1>2. Wrap(i) \in 0 .. Modulus - 1 /\ r \in 0 .. Modulus - 1
  BY WrapIsRemainder DEF SeqNum
<1>3. Modulus \in Nat \ {0}
  BY SequenceNumberAssumption
<1> DEFINE x == Modulus * p
           y == Modulus * q
<1>4. Modulus * (p - q) = x - y /\ x \in Int /\ y \in Int /\ p - q \in Int
  BY <1>3, MultipleDifference
<1>5. i = x + Wrap(i) /\ i = y + r
  BY <1>1
<1> HIDE DEF x, y
<1>6. x - y < Modulus /\ x - y > -Modulus
  BY <1>2, <1>3, <1>4, <1>5
<1>7. p - q = 0
  BY <1>3, <1>4, <1>6, SmallMultiple
<1>8. x = y
  BY <1>7 DEF x, y
<1>9. QED
  BY <1>2, <1>4, <1>5, <1>8

\* Numbers that are a multiple of the modulus apart wrap to the same.
LEMMA WrapShift ==
  ASSUME NEW i \in Int, NEW j \in Int, NEW q \in Int, i = Modulus * q + j
  PROVE  Wrap(i) = Wrap(j)
<1>1. PICK p \in Int : j = Modulus * p + Wrap(j)
  BY WrapIsRemainder
<1>2. Wrap(j) \in SeqNum /\ Wrap(j) \in Int
  BY WrapIsRemainder DEF SeqNum
<1>3. i = Modulus * (q + p) + Wrap(j) /\ q + p \in Int
  BY <1>1, <1>2, SequenceNumberAssumption
<1>4. QED
  BY <1>2, <1>3, WrapUnique

LEMMA WrapSmall ==
  ASSUME NEW i \in Int
  PROVE  /\ i \in 0 .. Modulus - 1 => Wrap(i) = i
         /\ i \in -Modulus .. -1 => Wrap(i) = i + Modulus
<1>1. ASSUME i \in 0 .. Modulus - 1 PROVE Wrap(i) = i
  <2>1. i \in SeqNum /\ i = Modulus * 0 + i
    BY <1>1, SequenceNumberAssumption DEF SeqNum
  <2>2. QED
    BY <2>1, WrapUnique
<1>2. ASSUME i \in -Modulus .. -1 PROVE Wrap(i) = i + Modulus
  <2>1. i + Modulus \in SeqNum /\ i = Modulus * (-1) + (i + Modulus)
    BY <1>2, SequenceNumberAssumption DEF SeqNum
  <2>2. QED
    BY <2>1, WrapUnique
<1>3. QED
  BY <1>1, <1>2

\* Wrapping the operands first changes no sum and no difference.
LEMMA PlusWrap ==
  ASSUME NEW i \in Int, NEW k \in Int
  PROVE  Plus(Wrap(i), k) = Wrap(i + k)
<1>1. PICK q \in Int : i = Modulus * q + Wrap(i)
  BY WrapIsRemainder
<1>2. Wrap(i) \in Int
  BY WrapIsRemainder DEF SeqNum
<1> DEFINE x == Modulus * q
<1>3. x \in Int /\ i = x + Wrap(i)
  BY <1>1, SequenceNumberAssumption
<1> HIDE DEF x
<1>4. i + k = x + (Wrap(i) + k)
  BY <1>2, <1>3
<1>5. Wrap(i + k) = Wrap(Wrap(i) + k)
  BY <1>2, <1>4, WrapShift DEF x
<1>6. QED
  BY <1>5 DEF Plus

LEMMA MinusWrap ==
  ASSUME NEW i \in Int, NEW k \in Int
  PROVE  /\ Minus(Wrap(i), k) = Wrap(i - k)
         /\ Minus(k, Wrap(i)) = Wrap(k - i)
         /\ Minus(Wrap(i), Wrap(k)) = Wrap(i - k)
<1>1. PICK q \in Int : i = Modulus * q + Wrap(i)
  BY WrapIsRemainder
<1>2. PICK p \in Int : k = Modulus * p + Wrap(k)
  BY WrapIsRemainder
<1>3. Wrap(i) \in Int /\ Wrap(k) \in Int
  BY WrapIsRemainder DEF SeqNum
<1>4. i - k = Modulus * q + (Wrap(i) - k)
  BY <1>1, <1>3, SequenceNumberAssumption
<1>5. k - i = Modulus * (-q) + (k - Wrap(i))
  BY <1>1, <1>3, SequenceNumberAssumption
<1>6. i - k = Modulus * (q - p) + (Wrap(i) - Wrap(k))
  BY <1>1, <1>2, <1>3, SequenceNumberAssumption
<1>7. QED
  BY <1>3, <1>4, <1>5, <1>6, WrapShift DEF Minus

LEMMA ResultsAreSequenceNumbers ==
  ASSUME NEW a \in Int, NEW b \in Int
  PROVE  /\ Plus(a, b) \in SeqNum
         /\ Minus(a, b) \in SeqNum
         /\ Wrap(a) \in SeqNum
BY WrapIsRemainder DEF Plus, Minus
\* Numbers less than the modulus apart have wrapped numbers of their own.
LEMMA WrapInjective ==
  ASSUME NEW i \in Int, NEW j \in Int, Wrap(i) = Wrap(j),
         i - j < Modulus, j - i < Modulus
  PROVE  i = j
<1>1. PICK p \in Int : i = Modulus * p + Wrap(i)
  BY WrapIsRemainder
<1>2. PICK q \in Int : j = Modulus * q + Wrap(j)
  BY WrapIsRemainder
<1>3. Modulus \in Nat \ {0} /\ Wrap(i) \in Int
  BY WrapIsRemainder, SequenceNumberAssumption DEF SeqNum
<1> DEFINE x == Modulus * p
           y == Modulus * q
<1>4. Modulus * (p - q) = x - y /\ x \in Int /\ y \in Int /\ p - q \in Int
  BY <1>3, MultipleDifference
<1>5. i = x + Wrap(i) /\ j = y + Wrap(i)
  BY <1>1, <1>2
<1> HIDE DEF x, y
<1>6. x - y < Modulus /\ x - y > -Modulus
  BY <1>3, <1>4, <1>5
<1>7. p - q = 0
  BY <1>3, <1>4, <1>6, SmallMultiple
<1>8. x = y
  BY <1>7 DEF x, y
<1>9. QED
  BY <1>5, <1>8

\* Numbers counted from the same start: what the storages compute with the
\* wrapped numbers is the wrapped result of the counts.
LEMMA CountedNumbers ==
  ASSUME NEW b \in Int, NEW i \in Int, NEW j \in Int
  PROVE  /\ Plus(Wrap(b + i), j) = Wrap(b + (i + j))
         /\ Minus(Wrap(b + i), j) = Wrap(b + (i - j))
         /\ Minus(Wrap(b + i), Wrap(b + j)) = Wrap(i - j)
<1>1. /\ (b + i) + j = b + (i + j)
      /\ (b + i) - j = b + (i - j)
      /\ (b + i) - (b + j) = i - j
  OBVIOUS
<1>2. QED
  BY <1>1, PlusWrap, MinusWrap

\* How far a number lies behind the next one, after one more, and seen from a
\* number that lies behind it itself.
LEMMA NumbersBehind ==
  ASSUME NEW n \in SeqNum, NEW x \in SeqNum, NEW k \in SeqNum, Modulus > 1
  PROVE  /\ Minus(n, x) + 1 < Modulus => Minus(Plus(n, 1), x) = Minus(n, x) + 1
         /\ Minus(Plus(n, 1), n) = 1
         /\ Minus(n, x) = 1 => x = Minus(n, 1)
         /\ Minus(k, x) = Wrap(Minus(n, x) - Minus(n, k))
<1>1. /\ n \in Int /\ x \in Int /\ k \in Int /\ 1 \in Int
      /\ n - x \in Int /\ n - k \in Int /\ n + 1 \in Int /\ Modulus \in Nat
  BY SequenceNumberAssumption DEF SeqNum
<1>2. Minus(n, x) \in 0 .. Modulus - 1
  BY <1>1, ResultsAreSequenceNumbers DEF SeqNum
<1>3. ASSUME Minus(n, x) + 1 < Modulus
      PROVE  Minus(Plus(n, 1), x) = Minus(n, x) + 1
  <2> DEFINE d == Wrap(n - x)
  <2>1. Minus(Wrap(n + 1), x) = Wrap((n + 1) - x)
    BY <1>1, MinusWrap
  <2>2. (n + 1) - x = (n - x) + 1
    BY <1>1
  <2>3. Plus(d, 1) = Wrap((n - x) + 1)
    BY <1>1, PlusWrap
  <2>4. d \in Int /\ d + 1 \in Int /\ d + 1 \in 0 .. Modulus - 1 /\ d = Minus(n, x)
    BY <1>1, <1>2, <1>3 DEF Minus
  <2> HIDE DEF d
  <2>5. Wrap(d + 1) = d + 1
    BY <2>4, WrapSmall
  <2>6. QED
    BY <2>1, <2>2, <2>3, <2>4, <2>5 DEF Plus
<1>4. Minus(Plus(n, 1), n) = 1
  <2>1. Minus(Wrap(n + 1), n) = Wrap((n + 1) - n)
    BY <1>1, MinusWrap
  <2>2. (n + 1) - n = 1 /\ 1 \in 0 .. Modulus - 1
    BY <1>1
  <2>3. Wrap(1) = 1
    BY <2>2, WrapSmall
  <2>4. QED
    BY <2>1, <2>2, <2>3 DEF Plus
<1>5. ASSUME Minus(n, x) = 1 PROVE x = Minus(n, 1)
  <2>1. Minus(n, Wrap(n - x)) = Wrap(n - (n - x))
    BY <1>1, MinusWrap
  <2>2. n - (n - x) = x /\ x \in 0 .. Modulus - 1
    BY <1>1 DEF SeqNum
  <2>3. Wrap(x) = x
    BY <1>1, <2>2, WrapSmall
  <2>4. Wrap(n - x) = 1
    BY <1>5 DEF Minus
  <2>5. QED
    BY <2>1, <2>2, <2>3, <2>4
<1>6. Minus(k, x) = Wrap(Minus(n, x) - Minus(n, k))
  <2>1. Minus(Wrap(n - x), Wrap(n - k)) = Wrap((n - x) - (n - k))
    BY <1>1, MinusWrap
  <2>2. (n - x) - (n - k) = k - x
    BY <1>1
  <2>3. QED
    BY <2>1, <2>2 DEF Minus
<1>7. QED
  BY <1>3, <1>4, <1>5, <1>6
=============================================================================
