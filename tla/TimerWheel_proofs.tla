-------------------------- MODULE TimerWheel_proofs --------------------------
(***************************************************************************)
(* Proofs about the timing wheel, for any number of slots on each level,    *)
(* any timers and any delays a call can pass.                               *)
(*                                                                          *)
(* The argument: every node lies in the slot that add_node would choose for *)
(* it now, and nodes of one time lie there in the order they were added.    *)
(* A tick changes that choice only for the nodes of the slot it moves.      *)
(***************************************************************************)
EXTENDS TimerWheel, TLAPS, NaturalsInduction, WellFoundedInduction

-----------------------------------------------------------------------------
(* Numbers.                                                                *)

\* A set of numbers that is not empty has a least one.
LEMMA LeastOf ==
  ASSUME NEW B, B \subseteq Nat, B # {}
  PROVE  \E n \in B : \A m \in B : n <= m
<1> DEFINE R == OpToRel(<, Nat)
<1>1. PICK n \in B : \A m \in B : ~(<<m, n>> \in R)
  BY NatLessThanWellFounded, WFMin
<1>2. \A m \in B : ~(m < n)
  BY <1>1 DEF OpToRel
<1> QED BY <1>2

-----------------------------------------------------------------------------
(* Quotients and remainders.                                               *)

\* What they are.
LEMMA Divides ==
  ASSUME NEW a \in Nat, NEW b \in Nat \ {0}
  PROVE  /\ a \div b \in Nat /\ a % b \in 0 .. b - 1
         /\ a = b * (a \div b) + (a % b)
<1>1. a \div b \in Nat /\ a % b \in 0 .. b - 1
  OBVIOUS
<1>2. a \in Int /\ b \in Int /\ b > 0
  OBVIOUS
<1>3. ASSUME NEW c \in Int, NEW d \in Int, d > 0 PROVE c = d * (c \div d) + (c % d)
  BY <1>3
<1> QED BY <1>1, <1>2, <1>3

\* A product does not shrink when a factor grows.
LEMMA MulMono ==
  ASSUME NEW a \in Nat, NEW b \in Nat, NEW c \in Nat, a <= b
  PROVE  c * a <= c * b
<1>1. b = a + (b - a) /\ b - a \in Nat
  OBVIOUS
<1>2. ASSUME NEW d \in Nat PROVE c * (a + d) = c * a + c * d /\ c * d \in Nat /\ c * a \in Nat
  OBVIOUS
<1> QED BY <1>1, <1>2

\* A number with that quotient and that remainder.
LEMMA DivIs ==
  ASSUME NEW q \in Nat, NEW b \in Nat \ {0}, NEW r \in 0 .. b - 1
  PROVE  (b * q + r) \div b = q /\ (b * q + r) % b = r
OBVIOUS

\* A quotient does not shrink when the number grows.
LEMMA DivMono ==
  ASSUME NEW a \in Nat, NEW c \in Nat, NEW b \in Nat \ {0}, a <= c
  PROVE  a \div b <= c \div b
<1> DEFINE q == a \div b
           p == c \div b
<1>1. /\ q \in Nat /\ p \in Nat
      /\ a % b \in 0 .. b - 1 /\ a = b * q + (a % b)
      /\ c % b \in 0 .. b - 1 /\ c = b * p + (c % b)
  BY Divides
<1> HIDE DEF q, p
<1>2. SUFFICES ASSUME p + 1 <= q PROVE FALSE
  BY <1>1 DEF q, p
<1>3. b * (p + 1) <= b * q /\ b * (p + 1) = b * p + b /\ b * p \in Nat /\ b * q \in Nat
  BY <1>1, <1>2, MulMono
<1> QED BY <1>1, <1>3

\* Dividing twice is dividing by the product.
LEMMA DivDiv ==
  ASSUME NEW a \in Nat, NEW b \in Nat \ {0}, NEW c \in Nat \ {0}
  PROVE  (a \div b) \div c = a \div (b * c)
<1> DEFINE q == a \div b
           r == a % b
           p == q \div c
           s == q % c
           d == b * c
<1>1. q \in Nat /\ r \in 0 .. b - 1 /\ a = b * q + r
  BY Divides
<1> HIDE DEF q, r
<1>2. p \in Nat /\ s \in 0 .. c - 1 /\ q = c * p + s
  BY <1>1, Divides
<1> HIDE DEF p, s
<1>3. b * (c * p + s) = b * (c * p) + b * s /\ b * (c * p) = (b * c) * p
  BY <1>1, <1>2
<1>4. b * s <= b * (c - 1) /\ b * (c - 1) = b * c - b /\ b * s \in Nat /\ b * c \in Nat \ {0}
  <2>1. s \in Nat /\ c - 1 \in Nat /\ s <= c - 1
    BY <1>2
  <2>2. b * s <= b * (c - 1)
    BY <2>1, MulMono
  <2>3. b * (c - 1) = b * c - b /\ b * s \in Nat /\ b * c \in Nat \ {0}
    BY <2>1
  <2> QED BY <2>2, <2>3
<1>5. b * s + r \in 0 .. d - 1 /\ d \in Nat \ {0} /\ a = d * p + (b * s + r)
  BY <1>1, <1>2, <1>3, <1>4
<1> HIDE DEF d
<1>6. a \div d = p
  BY <1>2, <1>5, DivIs
<1> QED BY <1>6 DEF d, p, q

\* The quotient changes from one number to the next at a multiple.
LEMMA DivStep ==
  ASSUME NEW a \in Nat, NEW b \in Nat \ {0}, a \div b # (a + 1) \div b
  PROVE  (a + 1) % b = 0
<1> DEFINE q == a \div b
           r == a % b
<1>1. q \in Nat /\ r \in 0 .. b - 1 /\ a = b * q + r
  BY Divides
<1>2. r = b - 1
  <2> SUFFICES ASSUME r # b - 1 PROVE FALSE
    OBVIOUS
  <2>1. r + 1 \in 0 .. b - 1 /\ b * q \in Nat /\ a + 1 = b * q + (r + 1)
    <3> HIDE DEF q, r
    <3> QED BY <1>1
  <2>2. (a + 1) \div b = q
    <3> HIDE DEF q, r
    <3> QED BY <1>1, <2>1, DivIs
  <2> QED BY <2>2
<1> HIDE DEF q, r
<1>3. a + 1 = b * (q + 1) + 0 /\ q + 1 \in Nat /\ 0 \in 0 .. b - 1
  BY <1>1, <1>2
<1> QED BY <1>3, DivIs

\* A multiple of a product is a multiple of the one factor, and the quotient is one
\* of the other; and conversely.
LEMMA Multiples ==
  ASSUME NEW a \in Nat, NEW b \in Nat \ {0}, NEW c \in Nat \ {0}
  PROVE  a % (b * c) = 0 <=> a % b = 0 /\ (a \div b) % c = 0
<1> DEFINE q == a \div b
           r == a % b
           d == b * c
           p == a \div d
<1>1. q \in Nat /\ r \in 0 .. b - 1 /\ a = b * q + r /\ d \in Nat \ {0}
  <2>1. b * c \in Nat \ {0}
    OBVIOUS
  <2> QED BY <2>1, Divides
<1>2. p \in Nat /\ a % d \in 0 .. d - 1 /\ a = d * p + (a % d)
  BY <1>1, Divides
<1> HIDE DEF p
<1>3. q \div c = p
  BY DivDiv DEF p
<1> HIDE DEF q
<1>4. q % c \in 0 .. c - 1 /\ q = c * p + (q % c)
  BY <1>1, <1>3, Divides
<1> DEFINE s == q % c
<1>5. d * p = b * (c * p) /\ b * (c * p + s) = b * (c * p) + b * s /\ b * (c * p) \in Nat
  <2>1. s \in Nat
    BY <1>4
  <2> HIDE DEF s
  <2>2. \A x, y \in Nat : b * (x + y) = b * x + b * y
    OBVIOUS
  <2>3. \A x \in Nat : (b * c) * x = b * (c * x) /\ c * x \in Nat /\ b * x \in Nat
    OBVIOUS
  <2> QED BY <1>2, <2>1, <2>2, <2>3
<1>6. a % d = b * s + r
  <2> DEFINE t == a % d
  <2> HIDE DEF s, r, d, t
  <2>1. d * p + t = b * (c * p) + b * s + r /\ t \in Nat
    BY <1>1, <1>2, <1>4, <1>5 DEF s, t
  <2>2. b * s \in Nat /\ r \in Nat
    BY <1>1, <1>4 DEF s
  <2>3. d * p \in Nat
    BY <1>1, <1>2
  <2> QED BY <2>1, <2>2, <2>3, <1>5 DEF t
<1> HIDE DEF r, s
<1>7. s # 0 => b * s >= b
  BY <1>4 DEF s
<1>8. b * s \in Nat /\ (s = 0 => b * s = 0) /\ s \in Nat
  BY <1>4 DEF s
<1>9. a % d = 0 <=> r = 0 /\ s = 0
  BY <1>1, <1>6, <1>7, <1>8
<1> QED BY <1>9 DEF q, r, s, d

\* The remainder of a number that is less than twice the divisor.
LEMMA ModOnce ==
  ASSUME NEW b \in Nat \ {0}, NEW a \in 0 .. 2 * b - 1
  PROVE  a % b = IF a < b THEN a ELSE a - b
<1>1. CASE a < b
  <2>1. a = b * 0 + a /\ a \in 0 .. b - 1 /\ 0 \in Nat
    BY <1>1
  <2>2. (b * 0 + a) % b = a
    BY <2>1, DivIs
  <2> QED BY <1>1, <2>1, <2>2
<1>2. CASE ~(a < b)
  <2>1. a = b * 1 + (a - b) /\ a - b \in 0 .. b - 1 /\ 1 \in Nat
    BY <1>2
  <2>2. (b * 1 + (a - b)) % b = a - b
    BY <2>1, DivIs
  <2> QED BY <1>2, <2>1, <2>2
<1> QED BY <1>1, <1>2

-----------------------------------------------------------------------------
(* The levels.                                                             *)

Times == 0 .. Span - 1

\* Each level divides the windows of the next one.
LEMMA Windows ==
  /\ Window(0) = 1 /\ Span = Window(5)
  /\ \A l \in 0 .. 5 : Window(l) \in Nat \ {0}
  /\ \A l \in 0 .. 4 : Size(l) \in Nat \ {0, 1} /\ Window(l + 1) = Window(l) * Size(l)
<1>1. NEAR \in Nat \ {0, 1} /\ LEVEL \in Nat \ {0, 1}
  BY WheelAssumption
<1>2. \A a, b \in Nat \ {0} : a * b \in Nat \ {0}
  OBVIOUS
<1> DEFINE w2 == NEAR * LEVEL
           w3 == NEAR * LEVEL * LEVEL
           w4 == NEAR * LEVEL * LEVEL * LEVEL
           w5 == NEAR * LEVEL * LEVEL * LEVEL * LEVEL
<1>3. w2 \in Nat \ {0}
  BY <1>1, <1>2
<1>4. w3 = w2 * LEVEL /\ w4 = w3 * LEVEL /\ w5 = w4 * LEVEL
  OBVIOUS
<1>5. w3 \in Nat \ {0}
  <2> HIDE DEF w2, w3
  <2> QED BY <1>1, <1>2, <1>3, <1>4
<1>6. w4 \in Nat \ {0}
  <2> HIDE DEF w3, w4, w5
  <2> QED BY <1>1, <1>2, <1>4, <1>5
<1>7. w5 \in Nat \ {0}
  <2> HIDE DEF w3, w4, w5
  <2> QED BY <1>1, <1>2, <1>4, <1>6
<1>8. /\ Window(0) = 1 /\ Window(1) = NEAR /\ Window(2) = w2
      /\ Window(3) = w3 /\ Window(4) = w4 /\ Window(5) = w5
  BY DEF Window
<1> HIDE DEF w2, w3, w4, w5
<1>9. \A l \in 0 .. 5 : Window(l) \in Nat \ {0}
  <2>1. \A l \in 0 .. 5 : l = 0 \/ l = 1 \/ l = 2 \/ l = 3 \/ l = 4 \/ l = 5
    OBVIOUS
  <2> QED BY <1>1, <1>3, <1>5, <1>6, <1>7, <1>8, <2>1
<1>10. ASSUME NEW l \in 0 .. 4
       PROVE  Size(l) \in Nat \ {0, 1} /\ Window(l + 1) = Window(l) * Size(l)
  <2>1. Size(l) = IF l = 0 THEN NEAR ELSE LEVEL
    BY DEF Size
  <2>2. CASE l = 0
    BY <1>1, <1>8, <2>1, <2>2
  <2>3. CASE l = 1
    BY <1>1, <1>8, <2>1, <2>3 DEF w2
  <2>4. CASE l = 2
    BY <1>1, <1>4, <1>8, <2>1, <2>4
  <2>5. CASE l = 3
    BY <1>1, <1>4, <1>8, <2>1, <2>5
  <2>6. CASE l = 4
    BY <1>1, <1>4, <1>8, <2>1, <2>6
  <2> QED BY <2>2, <2>3, <2>4, <2>5, <2>6
<1> QED BY <1>8, <1>9, <1>10 DEF Span

\* Times that share a window share that of the next level.
LEMMA SharesNext ==
  ASSUME NEW a \in Nat, NEW b \in Nat, NEW l \in 0 .. 4, SharesWindow(a, b, l)
  PROVE  SharesWindow(a, b, l + 1)
<1>1. l \in 0 .. 5 /\ l + 1 \in 0 .. 5
  OBVIOUS
<1>2. Window(l) \in Nat \ {0} /\ Size(l) \in Nat \ {0} /\ Window(l + 1) = Window(l) * Size(l)
  BY <1>1, Windows
<1>3. \A n \in Nat : (n \div Window(l)) \div Size(l) = n \div Window(l + 1)
  BY <1>2, DivDiv
<1> QED BY <1>3 DEF SharesWindow

\* And those of all levels above.
LEMMA SharesUp ==
  ASSUME NEW a \in Nat, NEW b \in Nat, NEW k \in 0 .. 5, NEW l \in k .. 5,
         SharesWindow(a, b, k)
  PROVE  SharesWindow(a, b, l)
<1> DEFINE Bad == {j \in k .. 5 : ~SharesWindow(a, b, j)}
<1>1. SUFFICES ASSUME Bad # {} PROVE FALSE
  OBVIOUS
<1>2. PICK j \in Bad : \A i \in Bad : j <= i
  <2>1. Bad \subseteq Nat
    OBVIOUS
  <2> HIDE DEF Bad
  <2> QED BY <1>1, <2>1, LeastOf
<1>3. j # k
  OBVIOUS
<1>4. j - 1 \in 0 .. 4 /\ j - 1 \in k .. 5 /\ ~(j <= j - 1) /\ (j - 1) + 1 = j
  BY <1>3
<1>5. j - 1 \notin Bad
  <2> HIDE DEF Bad
  <2> QED BY <1>2, <1>4
<1>6. SharesWindow(a, b, j - 1)
  BY <1>4, <1>5
<1> QED BY <1>4, <1>6, SharesNext

\* What add_node looks for: the first level whose next one the times share.
Fits(tm, now, l) ==
  /\ l = 4 \/ SharesWindow(tm, now, l + 1)
  /\ l = 0 \/ ~SharesWindow(tm, now, l)

\* It finds such a level.
LEMMA LevelFits ==
  ASSUME NEW tm \in Nat, NEW now \in Nat
  PROVE  LevelFor(tm, now) \in 0 .. 4 /\ Fits(tm, now, LevelFor(tm, now))
<1> DEFINE Enough == {l \in 0 .. 4 : l = 4 \/ SharesWindow(tm, now, l + 1)}
           Chosen(l) == /\ l = 4 \/ SharesWindow(tm, now, l + 1)
                        /\ \A k \in 0 .. l - 1 : ~SharesWindow(tm, now, k + 1)
<1>1. PICK l \in Enough : \A k \in Enough : l <= k
  <2>1. Enough # {} /\ Enough \subseteq Nat
    OBVIOUS
  <2> HIDE DEF Enough
  <2> QED BY <2>1, LeastOf
<1>2. \A k \in 0 .. l - 1 : k \in 0 .. 4 /\ k # 4 /\ ~(l <= k)
  OBVIOUS
<1>3. \A k \in 0 .. l - 1 : k \notin Enough
  <2> HIDE DEF Enough
  <2> QED BY <1>1, <1>2
<1>4. l \in 0 .. 4 /\ Chosen(l)
  BY <1>2, <1>3
<1>5. LevelFor(tm, now) = CHOOSE k \in 0 .. 4 : Chosen(k)
  BY DEF LevelFor
<1>6. LevelFor(tm, now) \in 0 .. 4 /\ Chosen(LevelFor(tm, now))
  <2> HIDE DEF Chosen
  <2> QED BY <1>4, <1>5
<1> DEFINE m == LevelFor(tm, now)
<1>7. m # 0 => m - 1 \in 0 .. m - 1 /\ (m - 1) + 1 = m
  BY <1>6
<1>8. m # 0 => ~SharesWindow(tm, now, (m - 1) + 1)
  <2> HIDE DEF m
  <2> QED BY <1>6, <1>7 DEF m
<1> QED BY <1>6, <1>7, <1>8 DEF Fits

\* There is no other.
LEMMA LevelUnique ==
  ASSUME NEW tm \in Nat, NEW now \in Nat, NEW l \in 0 .. 4, Fits(tm, now, l)
  PROVE  LevelFor(tm, now) = l
<1> DEFINE m == LevelFor(tm, now)
<1>1. m \in 0 .. 4 /\ Fits(tm, now, m)
  BY LevelFits
<1> HIDE DEF m
<1>2. ASSUME NEW i \in 0 .. 4, NEW j \in 0 .. 4, i < j, Fits(tm, now, i), Fits(tm, now, j)
      PROVE  FALSE
  <2>1. SharesWindow(tm, now, i + 1) /\ ~SharesWindow(tm, now, j)
    BY <1>2 DEF Fits
  <2>2. i + 1 \in 0 .. 5 /\ j \in i + 1 .. 5
    BY <1>2
  <2> QED BY <2>1, <2>2, SharesUp
<1>3. m < l \/ l < m \/ m = l
  BY <1>1
<1> QED BY <1>1, <1>2, <1>3 DEF m

\* The wheel has a slot for each digit.
LEMMA DigitIs ==
  ASSUME NEW tm \in Nat, NEW l \in 0 .. 4
  PROVE  Digit(tm, l) \in 0 .. Size(l) - 1 /\ <<l, Digit(tm, l)>> \in Slots
<1>1. l \in 0 .. 5
  OBVIOUS
<1>2. Window(l) \in Nat \ {0} /\ Size(l) \in Nat \ {0}
  BY <1>1, Windows
<1>3. tm \div Window(l) \in Nat
  BY <1>2, Divides
<1>4. Digit(tm, l) \in 0 .. Size(l) - 1
  BY <1>2, <1>3, Divides DEF Digit
<1> QED BY <1>4 DEF Slots

\* add_node finds a slot.
LEMMA SlotForIs ==
  ASSUME NEW tm \in Nat, NEW now \in Nat
  PROVE  SlotFor(tm, now) \in Slots
BY LevelFits, DigitIs DEF SlotFor

\* The near slot that is emptied at a time holds what is due at that time.
LEMMA DueSlot ==
  ASSUME NEW tm \in Nat, NEW now \in Nat
  PROVE  SlotFor(tm, now) = Due(now) <=> tm = now
<1>1. Window(0) = 1 /\ Window(1) = NEAR /\ Size(0) = NEAR /\ NEAR \in Nat \ {0}
  BY WheelAssumption DEF Window, Size
<1>2. \A n \in Nat : n \div 1 = n
  OBVIOUS
<1>3. \A n \in Nat : n = NEAR * (n \div NEAR) + (n % NEAR)
  BY <1>1, Divides
<1>4. \A n \in Nat : Digit(n, 0) = n % NEAR
  BY <1>1, <1>2 DEF Digit
<1>5. ASSUME SlotFor(tm, now) = Due(now) PROVE tm = now
  <2>1. LevelFor(tm, now) = 0 /\ Digit(tm, 0) = Digit(now, 0)
    BY <1>5 DEF SlotFor, Due
  <2>2. SharesWindow(tm, now, 1)
    BY <2>1, LevelFits DEF Fits
  <2>3. tm \div NEAR = now \div NEAR /\ tm % NEAR = now % NEAR
    BY <1>1, <1>4, <2>1, <2>2 DEF SharesWindow
  <2> QED BY <1>3, <2>3
<1>6. ASSUME tm = now PROVE SlotFor(tm, now) = Due(now)
  <2>1. Fits(tm, now, 0)
    BY <1>6 DEF Fits, SharesWindow
  <2>2. LevelFor(tm, now) = 0
    BY <2>1, LevelUnique
  <2> QED BY <1>6, <2>2 DEF SlotFor, Due
<1> QED BY <1>5, <1>6

-----------------------------------------------------------------------------
(* A tick.                                                                 *)

\* A multiple of a window is one of the windows of the lower levels.
LEMMA MultipleDown ==
  ASSUME NEW a \in Nat, NEW j \in 0 .. 5, NEW k \in 0 .. j, a % Window(j) = 0
  PROVE  a % Window(k) = 0
<1> DEFINE Bad == {i \in 0 .. j : a % Window(j - i) # 0}
<1>1. SUFFICES ASSUME Bad # {} PROVE FALSE
  <2>1. j - k \in 0 .. j /\ j - (j - k) = k
    OBVIOUS
  <2>2. Window(j - (j - k)) = Window(k)
    BY <2>1
  <2>3. a % Window(k) # 0 => j - k \in Bad
    BY <2>1, <2>2
  <2> HIDE DEF Bad
  <2> QED BY <2>3
<1>2. PICK i \in Bad : \A h \in Bad : i <= h
  <2>1. Bad \subseteq Nat
    OBVIOUS
  <2> HIDE DEF Bad
  <2> QED BY <1>1, <2>1, LeastOf
<1>3. i # 0
  <2>1. j - 0 = j
    OBVIOUS
  <2> QED BY <2>1
<1>4. /\ i - 1 \in 0 .. j /\ ~(i <= i - 1) /\ j - (i - 1) = (j - i) + 1
      /\ j - i \in 0 .. 4 /\ j - i \in 0 .. 5
  BY <1>3
<1>5. i - 1 \notin Bad
  <2> HIDE DEF Bad
  <2> QED BY <1>2, <1>4
<1>6. a % Window((j - i) + 1) = 0
  BY <1>4, <1>5
<1> DEFINE l == j - i
<1> HIDE DEF l
<1>7. Window(l) \in Nat \ {0} /\ Size(l) \in Nat \ {0} /\ Window(l + 1) = Window(l) * Size(l)
  BY <1>4, Windows DEF l
<1>8. a % Window(l) = 0
  BY <1>6, <1>7, Multiples DEF l
<1> QED BY <1>8 DEF l

\* One slot is moved at most.
LEMMA OneSlotMoves ==
  ASSUME NEW ct \in Nat, NEW r \in SlotToMove(ct), NEW s \in SlotToMove(ct)
  PROVE  r = s
<1>1. CASE ct = 0
  BY <1>1 DEF SlotToMove
<1>2. CASE ct # 0
  <2>1. PICK j \in 1 .. 4 : r = <<j, Digit(ct, j)>> /\ ct % Window(j) = 0 /\ Digit(ct, j) # 0
    BY <1>2 DEF SlotToMove
  <2>2. PICK k \in 1 .. 4 : s = <<k, Digit(ct, k)>> /\ ct % Window(k) = 0 /\ Digit(ct, k) # 0
    BY <1>2 DEF SlotToMove
  <2>3. ASSUME NEW a \in 1 .. 4, NEW b \in 1 .. 4, a < b, ct % Window(b) = 0
        PROVE  Digit(ct, a) = 0
    <3>1. b \in 0 .. 5 /\ a + 1 \in 0 .. b /\ a \in 0 .. 4 /\ a \in 0 .. 5
      BY <2>3
    <3>2. ct % Window(a + 1) = 0
      BY <2>3, <3>1, MultipleDown
    <3>3. Window(a) \in Nat \ {0} /\ Size(a) \in Nat \ {0} /\ Window(a + 1) = Window(a) * Size(a)
      BY <3>1, Windows
    <3>4. (ct \div Window(a)) % Size(a) = 0
      BY <3>2, <3>3, Multiples
    <3> QED BY <3>4 DEF Digit
  <2>4. j = k
    <3>1. j < k \/ k < j \/ j = k
      OBVIOUS
    <3> QED BY <2>1, <2>2, <2>3, <3>1
  <2> QED BY <2>1, <2>2, <2>4
<1> QED BY <1>1, <1>2

\* It is one of the upper levels.
LEMMA SlotToMoveIs ==
  ASSUME NEW ct \in Nat, NEW s \in SlotToMove(ct)
  PROVE  s \in Slots /\ \A now \in Nat : s # Due(now)
<1>1. CASE ct = 0
  <2>1. s = <<4, 0>> /\ Size(4) \in Nat \ {0, 1}
    BY <1>1, Windows DEF SlotToMove
  <2>2. 0 \in 0 .. Size(4) - 1
    BY <2>1
  <2> QED BY <2>1, <2>2 DEF Slots, Due
<1>2. CASE ct # 0
  <2>1. PICK l \in 1 .. 4 : s = <<l, Digit(ct, l)>>
    BY <1>2 DEF SlotToMove
  <2>2. l \in 0 .. 4 /\ l # 0
    OBVIOUS
  <2> QED BY <2>1, <2>2, DigitIs DEF Due
<1> QED BY <1>1, <1>2

\* Half of the clock has room for a window of the last level.
LEMMA HalfIsWide ==
  /\ Span \in Nat \ {0} /\ Span \div 2 \in Nat /\ 2 * (Span \div 2) <= Span
  /\ Window(4) \in Nat \ {0} /\ Window(4) <= Span \div 2
<1>1. Span \in Nat \ {0} /\ Window(4) \in Nat \ {0}
  <2>1. 4 \in 0 .. 5 /\ 5 \in 0 .. 5
    OBVIOUS
  <2> QED BY <2>1, Windows
<1>2. Size(4) \in Nat \ {0, 1} /\ Span = Window(4) * Size(4)
  <2>1. 4 \in 0 .. 4 /\ 4 + 1 = 5
    OBVIOUS
  <2> QED BY <2>1, Windows
<1>3. Window(4) * 2 <= Window(4) * Size(4)
  <2>1. 2 \in Nat /\ Size(4) \in Nat /\ 2 <= Size(4) /\ Window(4) \in Nat
    BY <1>1, <1>2
  <2> QED BY <2>1, MulMono
<1>4. 2 * Window(4) <= Span
  <2> DEFINE w == Window(4)
             z == Size(4)
  <2>1. w * 2 <= Span /\ w \in Nat
    BY <1>1, <1>2, <1>3
  <2> HIDE DEF w
  <2>2. 2 * w <= Span
    BY <1>1, <2>1
  <2> QED BY <2>2 DEF w
<1> DEFINE w == Window(4)
<1>5. w \in Nat /\ 2 * w <= Span
  BY <1>1, <1>4
<1> HIDE DEF w
<1>6. w <= Span \div 2 /\ 2 * (Span \div 2) <= Span /\ Span \div 2 \in Nat
  BY <1>1, <1>5
<1> QED BY <1>1, <1>6 DEF w

\* A time that is behind the clock by half of its span or more, because the sum has
\* wrapped, is in another window of the last level.
LEMMA WrappedIsLast ==
  ASSUME NEW tm \in Nat, NEW now \in Nat, tm + (Span \div 2) <= now
  PROVE  ~SharesWindow(tm, now, 4) /\ LevelFor(tm, now) = 4
<1> DEFINE w == Window(4)
           h == Span \div 2
<1>1. w \in Nat \ {0} /\ w <= h /\ h \in Nat
  BY HalfIsWide
<1>2. /\ tm \div w \in Nat /\ tm % w \in 0 .. w - 1 /\ tm = w * (tm \div w) + (tm % w)
      /\ now \div w \in Nat /\ now % w \in 0 .. w - 1 /\ now = w * (now \div w) + (now % w)
  <2> HIDE DEF w
  <2> QED BY <1>1, Divides
<1>3. ~SharesWindow(tm, now, 4)
  <2> SUFFICES ASSUME tm \div w = now \div w PROVE FALSE
    BY DEF SharesWindow
  <2> DEFINE q == tm \div w
             a == tm % w
             b == now % w
             p == w * q
  <2>1. tm = p + a /\ now = p + b /\ a \in 0 .. w - 1 /\ b \in 0 .. w - 1 /\ tm + h <= now
    BY <1>2
  <2>2. p \in Nat
    <3>1. q \in Nat /\ w \in Nat
      BY <1>1, <1>2
    <3> HIDE DEF q, w
    <3> QED BY <3>1
  <2> HIDE DEF w, h, p, a, b, q
  <2> QED BY <1>1, <2>1, <2>2
<1>4. Fits(tm, now, 4)
  BY <1>3 DEF Fits
<1>5. 4 \in 0 .. 4
  OBVIOUS
<1> QED BY <1>3, <1>4, <1>5, LevelUnique

\* What lies between two times of one window is in it.
LEMMA Between ==
  ASSUME NEW a \in Nat, NEW b \in Nat, NEW c \in Nat, a <= b, b <= c, NEW l \in 0 .. 5,
         SharesWindow(c, a, l)
  PROVE  SharesWindow(c, b, l) /\ SharesWindow(a, b, l)
<1>1. Window(l) \in Nat \ {0}
  BY Windows
<1>2. a \div Window(l) <= b \div Window(l) /\ b \div Window(l) <= c \div Window(l)
  BY <1>1, DivMono
<1>3. a \div Window(l) \in Nat /\ b \div Window(l) \in Nat /\ c \div Window(l) \in Nat
  BY <1>1, Divides
<1> QED BY <1>2, <1>3 DEF SharesWindow

\* When the clock goes on by one, a later time stays in its slot or is in the slot
\* that timer_shift moves: for a time that has not wrapped.
LEMMA TickAhead ==
  ASSUME NEW t \in Nat, NEW tm \in Nat, t + 1 <= tm, tm < Span
  PROVE  SlotFor(tm, t + 1) = SlotFor(tm, t) \/ SlotFor(tm, t) \in SlotToMove(t + 1)
<1> DEFINE l == LevelFor(tm, t)
           ct == t + 1
<1>1. l \in 0 .. 4 /\ Fits(tm, t, l)
  BY LevelFits
<1>2. ct \in Nat /\ t <= ct /\ ct <= tm /\ ct # 0 /\ l + 1 \in 0 .. 5 /\ l \in 0 .. 5
  BY <1>1
<1> HIDE DEF l
<1>3. ASSUME Fits(tm, ct, l) PROVE SlotFor(tm, ct) = SlotFor(tm, t)
  BY <1>1, <1>2, <1>3, LevelUnique DEF SlotFor, l
<1>4. l # 4 => SharesWindow(tm, t, l + 1)
  BY <1>1 DEF Fits
<1>5. SharesWindow(tm, t, l + 1)
  <2>1. CASE l = 4
    <3>1. Span \in Nat \ {0} /\ Window(l + 1) = Span
      BY <2>1, HalfIsWide, Windows
    <3>2. tm = Span * 0 + tm /\ t = Span * 0 + t /\ tm \in 0 .. Span - 1 /\ t \in 0 .. Span - 1
      BY <3>1
    <3>3. (Span * 0 + tm) \div Span = 0 /\ (Span * 0 + t) \div Span = 0
      BY <3>1, <3>2, DivIs
    <3> QED BY <3>1, <3>2, <3>3 DEF SharesWindow
  <2> QED BY <1>4, <2>1
<1>6. SharesWindow(tm, ct, l + 1) /\ SharesWindow(t, ct, l + 1)
  <2> HIDE DEF ct
  <2> QED BY <1>2, <1>5, Between
<1>7. CASE l = 0 \/ ~SharesWindow(tm, ct, l)
  BY <1>3, <1>6, <1>7 DEF Fits
<1>8. CASE l # 0 /\ SharesWindow(tm, ct, l)
  <2>1. Window(l) \in Nat \ {0} /\ Size(l) \in Nat \ {0} /\ Window(l + 1) = Window(l) * Size(l)
    BY <1>1, <1>2, Windows
  <2>2. ct % Window(l) = 0
    <3>1. t \div Window(l) # ct \div Window(l)
      BY <1>1, <1>8 DEF Fits, SharesWindow
    <3> DEFINE w == Window(l)
    <3>2. t \div w # (t + 1) \div w /\ w \in Nat \ {0}
      BY <2>1, <3>1
    <3> HIDE DEF w
    <3>3. (t + 1) % w = 0
      BY <3>2, DivStep
    <3> QED BY <3>3 DEF w
  <2>3. ct % Window(l + 1) # 0
    <3> SUFFICES ASSUME ct % Window(l + 1) = 0 PROVE FALSE
      OBVIOUS
    <3> DEFINE w == Window(l + 1)
               q == t \div w
               r == t % w
               p == w * q
    <3>1. w \in Nat \ {0}
      BY <1>2, Windows
    <3>2. t \div w = ct \div w /\ ct % w = 0
      BY <1>6 DEF SharesWindow
    <3>3. /\ t \div w \in Nat /\ t % w \in 0 .. w - 1 /\ t = w * (t \div w) + (t % w)
          /\ ct = w * (ct \div w) + (ct % w)
      <4> HIDE DEF w, ct
      <4> QED BY <1>2, <3>1, Divides
    <3>4. ct = p + 0 /\ t = p + r /\ r \in Nat
      BY <3>1, <3>2, <3>3
    <3>5. p \in Nat
      <4>1. q \in Nat
        BY <3>3
      <4> HIDE DEF w, q
      <4> QED BY <3>1, <4>1
    <3> HIDE DEF p, r
    <3> QED BY <3>4, <3>5
  <2>4. Digit(ct, l) # 0
    <3> HIDE DEF ct
    <3>1. (ct \div Window(l)) % Size(l) # 0
      BY <1>2, <2>1, <2>2, <2>3, Multiples
    <3> QED BY <3>1 DEF Digit
  <2>5. Digit(tm, l) = Digit(ct, l)
    BY <1>8 DEF Digit, SharesWindow
  <2>6. SlotFor(tm, t) = <<l, Digit(ct, l)>>
    BY <2>5 DEF SlotFor, l
  <2>7. l \in 1 .. 4
    BY <1>1, <1>8
  <2> HIDE DEF ct
  <2>8. <<l, Digit(ct, l)>> \in SlotToMove(ct)
    BY <1>2, <2>2, <2>4, <2>7 DEF SlotToMove
  <2> QED BY <2>6, <2>8 DEF ct
<1> QED BY <1>7, <1>8

\* The same for every time that a timer can have.
LEMMA TickSlots ==
  ASSUME NEW t \in Times, NEW d \in 1 .. (Span \div 2) - 1
  PROVE  LET tm == (t + d) % Span
             ct == (t + 1) % Span
         IN  SlotFor(tm, ct) = SlotFor(tm, t) \/ SlotFor(tm, t) \in SlotToMove(ct)
<1> DEFINE tm == (t + d) % Span
           ct == (t + 1) % Span
           h == Span \div 2
<1>1. Span \in Nat \ {0} /\ h \in Nat /\ 2 * h <= Span /\ t \in Nat /\ t < Span
      /\ d \in Nat /\ d >= 1 /\ d <= h - 1
  BY HalfIsWide DEF Times
<1>2. tm = IF t + d < Span THEN t + d ELSE t + d - Span
  <2> DEFINE a == t + d
  <2>1. a \in 0 .. 2 * Span - 1
    <3> HIDE DEF h
    <3> QED BY <1>1
  <2> HIDE DEF a
  <2>2. a % Span = IF a < Span THEN a ELSE a - Span
    BY <1>1, <2>1, ModOnce
  <2>3. t + d - Span = (t + d) - Span
    BY <1>1
  <2> QED BY <2>2, <2>3 DEF a
<1>3. ct = IF t + 1 < Span THEN t + 1 ELSE 0
  <2> DEFINE a == t + 1
  <2>1. a \in 0 .. 2 * Span - 1 /\ (~(a < Span) => a - Span = 0)
    <3> HIDE DEF h
    <3> QED BY <1>1
  <2> HIDE DEF a
  <2>2. a % Span = IF a < Span THEN a ELSE a - Span
    BY <1>1, <2>1, ModOnce
  <2>3. a % Span = IF a < Span THEN a ELSE 0
    BY <2>1, <2>2
  <2> QED BY <2>3 DEF a
<1> HIDE DEF tm, ct, h
<1>4. tm \in Nat /\ ct \in Nat /\ tm < Span
  BY <1>1, <1>2, <1>3
<1>5. CASE t + d < Span
  <2>1. t + 1 <= tm /\ ct = t + 1
    BY <1>1, <1>2, <1>3, <1>5
  <2>2. SlotFor(tm, ct) = SlotFor(tm, t) \/ SlotFor(tm, t) \in SlotToMove(ct)
    BY <1>1, <1>4, <2>1, TickAhead
  <2> QED BY <2>2 DEF tm, ct
<1>6. CASE ~(t + d < Span)
  <2>1. tm + h <= t
    BY <1>1, <1>2, <1>6
  <2>2. LevelFor(tm, t) = 4
    BY <1>1, <1>4, <2>1, WrappedIsLast DEF h
  <2>3. SlotFor(tm, t) = <<4, Digit(tm, 4)>>
    BY <2>2 DEF SlotFor
  <2>4. ASSUME LevelFor(tm, ct) = 4 PROVE SlotFor(tm, ct) = SlotFor(tm, t)
    BY <2>3, <2>4 DEF SlotFor
  <2>5. CASE ct # 0
    <3>1. tm + h <= ct
      BY <1>1, <1>2, <1>3, <2>1, <2>5
    <3>2. LevelFor(tm, ct) = 4
      BY <1>4, <3>1, WrappedIsLast DEF h
    <3> QED BY <2>4, <3>2 DEF tm, ct
  <2>6. CASE ct = 0 /\ Digit(tm, 4) = 0
    <3>1. SlotFor(tm, t) \in SlotToMove(ct)
      BY <2>3, <2>6 DEF SlotToMove
    <3> QED BY <3>1 DEF tm, ct
  <2>7. CASE ct = 0 /\ Digit(tm, 4) # 0
    <3>1. 4 \in 0 .. 4 /\ 4 \in 0 .. 5
      OBVIOUS
    <3>2. Window(4) \in Nat \ {0} /\ Size(4) \in Nat \ {0}
      BY <3>1, Windows
    <3>3. \A b \in Nat \ {0} : 0 \div b = 0 /\ 0 % b = 0
      <4>1. ASSUME NEW b \in Nat \ {0} PROVE 0 \div b = 0 /\ 0 % b = 0
        <5>1. b * 0 + 0 = 0 /\ 0 \in Nat /\ 0 \in 0 .. b - 1
          OBVIOUS
        <5>2. (b * 0 + 0) \div b = 0 /\ (b * 0 + 0) % b = 0
          BY <5>1, DivIs
        <5> QED BY <5>1, <5>2
      <4> QED BY <4>1
    <3>4. ~SharesWindow(tm, ct, 4)
      BY <2>7, <3>2, <3>3 DEF SharesWindow, Digit
    <3>5. LevelFor(tm, ct) = 4
      BY <1>4, <3>1, <3>4, LevelUnique DEF Fits
    <3> QED BY <2>4, <3>5 DEF tm, ct
  <2> QED BY <2>5, <2>6, <2>7
<1> QED BY <1>5, <1>6

\* The time of a timer says how many ticks it has to go: after a tick one less, and
\* none if the time has come.
LEMMA DueTime ==
  ASSUME NEW t \in Times, NEW d \in 0 .. (Span \div 2) - 1
  PROVE  /\ (t + d) % Span \in Times
         /\ (t + d) % Span = t => d = 0
         /\ (t + 0) % Span = t
         /\ SharesWindow((t + d) % Span, t, 1) => (t + d) % Span >= t
         /\ (t + 1) % Span \in Times
         /\ d >= 1 => (t + d) % Span = (((t + 1) % Span) + (d - 1)) % Span
<1> DEFINE h == Span \div 2
<1>1. Span \in Nat \ {0} /\ h \in Nat /\ 2 * h <= Span /\ t \in Nat /\ t < Span
      /\ d \in Nat /\ d <= h - 1
  BY HalfIsWide DEF Times
<1>2. \A a \in 0 .. 2 * Span - 1 : a % Span = IF a < Span THEN a ELSE a - Span
  BY <1>1, ModOnce
<1> DEFINE tm == (t + d) % Span
           ct == (t + 1) % Span
<1> HIDE DEF h
<1>3. t + d \in 0 .. 2 * Span - 1 /\ t + 1 \in 0 .. 2 * Span - 1 /\ t \in 0 .. 2 * Span - 1
      /\ t + 0 = t
  BY <1>1
<1>4. /\ tm = IF t + d < Span THEN t + d ELSE t + d - Span
      /\ ct = IF t + 1 < Span THEN t + 1 ELSE t + 1 - Span
      /\ t % Span = t
  BY <1>1, <1>2, <1>3
<1> HIDE DEF tm, ct
<1>5. tm \in Nat /\ tm < Span /\ ct \in Nat /\ ct < Span /\ (tm = t => d = 0)
  BY <1>1, <1>4
<1>6. SharesWindow(tm, t, 1) => tm >= t
  <2> SUFFICES ASSUME SharesWindow(tm, t, 1), tm < t PROVE FALSE
    BY <1>1, <1>5
  <2>1. tm + h <= t
    BY <1>1, <1>4
  <2>2. ~SharesWindow(tm, t, 4)
    BY <1>1, <1>5, <2>1, WrappedIsLast DEF h
  <2>3. 1 \in 0 .. 5 /\ 4 \in 1 .. 5
    OBVIOUS
  <2> QED BY <1>1, <1>5, <2>2, <2>3, SharesUp
<1>7. d >= 1 => tm = (ct + (d - 1)) % Span
  <2> SUFFICES ASSUME d >= 1 PROVE tm = (ct + (d - 1)) % Span
    OBVIOUS
  <2> DEFINE a == ct + (d - 1)
  <2>1. a \in 0 .. 2 * Span - 1
    BY <1>1, <1>4
  <2>2. tm = IF a < Span THEN a ELSE a - Span
    BY <1>1, <1>4
  <2> HIDE DEF a
  <2>3. a % Span = IF a < Span THEN a ELSE a - Span
    BY <1>1, <2>1, ModOnce
  <2> QED BY <2>2, <2>3 DEF a
<1>8. tm \in Times /\ ct \in Times
  BY <1>1, <1>5 DEF Times
<1> QED BY <1>3, <1>4, <1>5, <1>6, <1>7, <1>8 DEF tm, ct

-----------------------------------------------------------------------------
(* Moving a slot.                                                          *)

\* f begins with first and goes on by step, up to n.
GoesOn(f, first, step, n) ==
  f[0] = first /\ \A i \in 1 .. n : f[i] = step[<<i, f[i - 1]>>]

\* There is such a function.
LEMMA Recursion ==
  ASSUME NEW V, NEW first \in V, NEW n \in Nat, NEW step \in [(1 .. n) \X V -> V]
  PROVE  \E f \in [0 .. n -> V] : GoesOn(f, first, step, n)
<1> DEFINE Good(k) == \E f \in [0 .. k -> V] : GoesOn(f, first, step, k)
           Bad == {k \in 0 .. n : ~Good(k)}
<1>1. SUFFICES ASSUME Bad # {} PROVE FALSE
  <2>1. n \in 0 .. n
    OBVIOUS
  <2> QED BY <2>1
<1>2. PICK k \in Bad : \A m \in Bad : k <= m
  <2>1. Bad \subseteq Nat
    OBVIOUS
  <2> HIDE DEF Bad
  <2> QED BY <1>1, <2>1, LeastOf
<1>3. CASE k = 0
  <2>1. [i \in 0 .. 0 |-> first] \in [0 .. 0 -> V]
    OBVIOUS
  <2>2. GoesOn([i \in 0 .. 0 |-> first], first, step, 0)
    BY DEF GoesOn
  <2> QED BY <1>2, <1>3, <2>1, <2>2
<1>4. CASE k # 0
  <2>1. k - 1 \in 0 .. n /\ ~(k <= k - 1) /\ k \in 1 .. n
    BY <1>4
  <2>2. Good(k - 1)
    <3>1. k - 1 \notin Bad
      BY <2>1, <1>2
    <3> QED BY <3>1, <2>1
  <2>3. PICK f \in [0 .. (k - 1) -> V] : GoesOn(f, first, step, k - 1)
    BY <2>2
  <2> DEFINE g == [i \in 0 .. k |-> IF i < k THEN f[i] ELSE step[<<k, f[k - 1]>>]]
  <2>4. f[k - 1] \in V /\ <<k, f[k - 1]>> \in (1 .. n) \X V
    BY <2>1
  <2>5. g \in [0 .. k -> V]
    <3>1. step[<<k, f[k - 1]>>] \in V
      BY <2>4
    <3>2. \A i \in 0 .. k : i < k => i \in 0 .. (k - 1)
      BY <2>1
    <3> QED BY <3>1, <3>2
  <2>6. GoesOn(g, first, step, k)
    <3>1. g[0] = first
      BY <2>1, <2>3 DEF GoesOn
    <3>2. ASSUME NEW i \in 1 .. k PROVE g[i] = step[<<i, g[i - 1]>>]
      <4>1. CASE i = k
        <5>1. k \in 0 .. k /\ k - 1 \in 0 .. k /\ k - 1 < k /\ ~(k < k)
          BY <2>1
        <5>2. g[k] = step[<<k, f[k - 1]>>] /\ g[k - 1] = f[k - 1]
          BY <5>1
        <5> QED BY <4>1, <5>2
      <4>2. CASE i # k
        <5>1. i \in 1 .. (k - 1) /\ i - 1 \in 0 .. k /\ i - 1 < k /\ i < k /\ i \in 0 .. k
          BY <4>2, <2>1
        <5>2. g[i] = f[i] /\ g[i - 1] = f[i - 1]
          BY <5>1
        <5> QED BY <5>1, <5>2, <2>3 DEF GoesOn
      <4> QED BY <4>1, <4>2
    <3> QED BY <3>1, <3>2 DEF GoesOn
  <2> HIDE DEF g
  <2> QED BY <1>2, <2>5, <2>6
<1> QED BY <1>3, <1>4

Wheels == [Slots -> Seq(Timers)]

\* A node is linked at the end of its slot.
LEMMA AddNodeIs ==
  ASSUME NEW w \in Wheels, NEW n \in Timers, NEW tm \in Nat, NEW now \in Nat
  PROVE  /\ AddNode(w, n, tm, now) \in Wheels
         /\ \A q \in Slots : AddNode(w, n, tm, now)[q] =
              IF q = SlotFor(tm, now) THEN Append(w[q], n) ELSE w[q]
<1>1. SlotFor(tm, now) \in Slots
  BY SlotForIs
<1> DEFINE s == SlotFor(tm, now)
<1>2. AddNode(w, n, tm, now) = [w EXCEPT ![s] = Append(w[s], n)]
  BY DEF AddNode
<1> HIDE DEF s
<1> QED BY <1>1, <1>2 DEF Wheels, s

\* What move_list has done after each node of the slot.
LEMMA MovedIs ==
  ASSUME NEW w \in Wheels, NEW s \in Slots, NEW now \in Nat, expire \in [Timers -> Times]
  PROVE  /\ Moved(w, s, now) \in [0 .. Len(w[s]) -> Wheels]
         /\ Moved(w, s, now)[0] = [w EXCEPT ![s] = <<>>]
         /\ \A i \in 1 .. Len(w[s]) :
              Moved(w, s, now)[i] =
                AddNode(Moved(w, s, now)[i - 1], w[s][i], expire[w[s][i]], now)
<1> DEFINE size == Len(w[s])
           first == [w EXCEPT ![s] = <<>>]
           Turn(f, i) == IF i = 0 THEN first
                         ELSE AddNode(f[i - 1], w[s][i], expire[w[s][i]], now)
           step == [p \in (1 .. size) \X Wheels |->
                      AddNode(p[2], w[s][p[1]], expire[w[s][p[1]]], now)]
<1>1. w[s] \in Seq(Timers) /\ size \in Nat
  BY DEF Wheels
<1>2. first \in Wheels
  BY DEF Wheels
<1>3. \A i \in 1 .. size : w[s][i] \in Timers /\ expire[w[s][i]] \in Nat
  BY <1>1 DEF Times
<1>4. step \in [(1 .. size) \X Wheels -> Wheels]
  <2>1. ASSUME NEW p \in (1 .. size) \X Wheels
        PROVE  AddNode(p[2], w[s][p[1]], expire[w[s][p[1]]], now) \in Wheels
    <3>1. p[1] \in 1 .. size /\ p[2] \in Wheels
      OBVIOUS
    <3> QED BY <1>3, <3>1, AddNodeIs
  <2> HIDE DEF size
  <2> QED BY <2>1
<1> HIDE DEF size, first
<1>5. PICK f \in [0 .. size -> Wheels] : GoesOn(f, first, step, size)
  <2> HIDE DEF step
  <2> QED BY <1>1, <1>2, <1>4, Recursion
<1>6. f = [i \in 0 .. size |-> Turn(f, i)]
  <2>1. ASSUME NEW i \in 0 .. size PROVE f[i] = Turn(f, i)
    <3>1. i # 0 => i \in 1 .. size /\ i - 1 \in 0 .. size
      BY <1>1
    <3>2. i # 0 => f[i] = step[<<i, f[i - 1]>>] /\ f[i - 1] \in Wheels
      BY <3>1, <1>5 DEF GoesOn
    <3>3. i # 0 => f[i] = AddNode(f[i - 1], w[s][i], expire[w[s][i]], now)
      BY <3>1, <3>2
    <3> QED BY <3>3, <1>5 DEF GoesOn
  <2> HIDE DEF Turn
  <2> QED BY <2>1
<1> DEFINE F == CHOOSE g : g = [i \in 0 .. size |-> Turn(g, i)]
<1>7. Moved(w, s, now) = F
  BY DEF Moved, size, first
<1>8. F = [i \in 0 .. size |-> Turn(F, i)]
  <2> HIDE DEF Turn
  <2> QED BY <1>6
<1> HIDE DEF F
<1>9. \A i \in 0 .. size : F[i] = f[i]
  <2> DEFINE Bad == {i \in 0 .. size : F[i] # f[i]}
  <2> SUFFICES ASSUME Bad # {} PROVE FALSE
    OBVIOUS
  <2>1. PICK k \in Bad : \A m \in Bad : k <= m
    <3>1. Bad \subseteq Nat
      BY <1>1
    <3> HIDE DEF Bad
    <3> QED BY <3>1, LeastOf
  <2>2. k # 0 => k - 1 \in 0 .. size /\ k - 1 \notin Bad
    <3>1. k # 0 => k - 1 \in 0 .. size /\ ~(k <= k - 1)
      BY <1>1
    <3> HIDE DEF Bad
    <3> QED BY <3>1, <2>1
  <2>3. k # 0 => F[k - 1] = f[k - 1]
    BY <2>2
  <2>4. Turn(F, k) = Turn(f, k)
    BY <2>3
  <2>5. F[k] = Turn(F, k) /\ f[k] = Turn(f, k)
    <3> HIDE DEF Turn
    <3> QED BY <1>6, <1>8
  <2> QED BY <2>4, <2>5
<1>10. F = f
  <2>1. F = [i \in 0 .. size |-> F[i]]
    BY <1>8
  <2> QED BY <2>1, <1>9
<1>11. \A i \in 1 .. size : i \in 0 .. size /\ i # 0
  OBVIOUS
<1>12. \A i \in 0 .. size : f[i] = Turn(f, i)
  <2> HIDE DEF Turn
  <2> QED BY <1>6
<1>13. 0 \in 0 .. size
  BY <1>1
<1>14. f[0] = first /\ \A i \in 1 .. size : f[i] = AddNode(f[i - 1], w[s][i], expire[w[s][i]], now)
  BY <1>11, <1>12, <1>13
<1> QED BY <1>5, <1>7, <1>10, <1>14 DEF first, size

\* What stays in slot q when slot s is emptied, and the places of what is added to it.
Kept(w, s, q) == IF q = s THEN <<>> ELSE w[q]
Added(v, w, s, q) == Len(Kept(w, s, q)) + 1 .. Len(v[q])

\* v is w after the first i nodes of slot s have been added again.
MovedUpTo(v, w, s, now, i) ==
  /\ v \in Wheels
  /\ \A q \in Slots : /\ Len(Kept(w, s, q)) <= Len(v[q])
                      /\ \A x \in 1 .. Len(Kept(w, s, q)) : v[q][x] = Kept(w, s, q)[x]
  /\ \A q \in Slots : \A x \in Added(v, w, s, q) :
       \E a \in 1 .. i : v[q][x] = w[s][a] /\ SlotFor(expire[w[s][a]], now) = q
  /\ \A a \in 1 .. i :
       \E x \in Added(v, w, s, SlotFor(expire[w[s][a]], now)) :
         v[SlotFor(expire[w[s][a]], now)][x] = w[s][a]
  /\ \A q \in Slots : \A x, y \in Added(v, w, s, q) :
       x < y => \E a, b \in 1 .. i : a < b /\ v[q][x] = w[s][a] /\ v[q][y] = w[s][b]

\* One node more.
LEMMA MoveOne ==
  ASSUME NEW w \in Wheels, NEW s \in Slots, NEW now \in Nat, expire \in [Timers -> Times],
         NEW i \in 1 .. Len(w[s]), NEW v \in Wheels, MovedUpTo(v, w, s, now, i - 1)
  PROVE  MovedUpTo(AddNode(v, w[s][i], expire[w[s][i]], now), w, s, now, i)
<1> DEFINE n == w[s][i]
           p == SlotFor(expire[n], now)
           u == AddNode(v, n, expire[n], now)
<1>1. /\ w[s] \in Seq(Timers) /\ n \in Timers /\ expire[n] \in Nat /\ i \in Nat /\ i > 0
      /\ \A a \in 1 .. i : w[s][a] \in Timers /\ expire[w[s][a]] \in Nat
  BY DEF Wheels, Times
<1>2. v \in Wheels
  OBVIOUS
<1>3. p \in Slots /\ u \in Wheels /\ \A q \in Slots : u[q] = IF q = p THEN Append(v[q], n) ELSE v[q]
  <2> HIDE DEF n
  <2>1. expire[n] \in Nat
    BY <1>1
  <2>2. p \in Slots
    BY <2>1, SlotForIs
  <2> DEFINE tm == expire[n]
  <2>4. tm \in Nat /\ n \in Timers
    BY <1>1, <2>1
  <2> HIDE DEF tm, p, u
  <2>3. AddNode(v, n, tm, now) \in Wheels
    BY <1>2, <2>4, AddNodeIs
  <2>5. \A q \in Slots : AddNode(v, n, tm, now)[q] =
          IF q = SlotFor(tm, now) THEN Append(v[q], n) ELSE v[q]
    BY <1>2, <2>4, AddNodeIs
  <2> QED BY <2>2, <2>3, <2>5 DEF tm, p, u
<1>4. ASSUME NEW q \in Slots
      PROVE  /\ v[q] \in Seq(Timers) /\ u[q] \in Seq(Timers) /\ Kept(w, s, q) \in Seq(Timers)
             /\ Len(v[q]) \in Nat /\ Len(Kept(w, s, q)) \in Nat
             /\ Len(u[q]) = IF q = p THEN Len(v[q]) + 1 ELSE Len(v[q])
             /\ \A x \in 1 .. Len(v[q]) : u[q][x] = v[q][x]
             /\ q = p => u[q][Len(v[q]) + 1] = n
             /\ Len(Kept(w, s, q)) <= Len(v[q])
  <2>1. v[q] \in Seq(Timers) /\ Kept(w, s, q) \in Seq(Timers)
    BY <1>2 DEF Wheels, Kept
  <2> HIDE DEF u, p, n
  <2>2. CASE q = p
    <3>1. u[q] = Append(v[q], n)
      BY <1>3, <2>2
    <3>2. Len(Kept(w, s, q)) <= Len(v[q])
      BY DEF MovedUpTo
    <3> QED BY <1>1, <2>1, <2>2, <3>1, <3>2
  <2>3. CASE q # p
    <3>1. u[q] = v[q]
      BY <1>3, <2>3
    <3>2. Len(Kept(w, s, q)) <= Len(v[q])
      BY DEF MovedUpTo
    <3> QED BY <2>1, <2>3, <3>1, <3>2
  <2> QED BY <2>2, <2>3
<1> HIDE DEF u
<1>5. \A a \in 1 .. i : a = i \/ a \in 1 .. i - 1
  BY <1>1
<1>6. \A a \in 1 .. i - 1 : a \in 1 .. i /\ a < i
  BY <1>1
<1>7. \A q \in Slots : /\ Len(Kept(w, s, q)) <= Len(u[q])
                       /\ \A x \in 1 .. Len(Kept(w, s, q)) : u[q][x] = Kept(w, s, q)[x]
  <2> SUFFICES ASSUME NEW q \in Slots
               PROVE  /\ Len(Kept(w, s, q)) <= Len(u[q])
                      /\ \A x \in 1 .. Len(Kept(w, s, q)) : u[q][x] = Kept(w, s, q)[x]
    OBVIOUS
  <2>1. \A x \in 1 .. Len(Kept(w, s, q)) : v[q][x] = Kept(w, s, q)[x] /\ x \in 1 .. Len(v[q])
    <3>1. \A x \in 1 .. Len(Kept(w, s, q)) : v[q][x] = Kept(w, s, q)[x]
      BY DEF MovedUpTo
    <3> QED BY <1>4, <3>1
  <2>2. Len(Kept(w, s, q)) <= Len(u[q])
    BY <1>4
  <2> QED BY <1>4, <2>1, <2>2
<1>8. ASSUME NEW q \in Slots, NEW x \in Added(u, w, s, q)
      PROVE  \/ x \in Added(v, w, s, q) /\ u[q][x] = v[q][x]
             \/ q = p /\ x = Len(v[q]) + 1 /\ u[q][x] = n
  <2>1. x \in Len(Kept(w, s, q)) + 1 .. Len(u[q])
    BY DEF Added
  <2>2. \/ x \in Len(Kept(w, s, q)) + 1 .. Len(v[q]) /\ x \in 1 .. Len(v[q])
        \/ q = p /\ x = Len(v[q]) + 1
    BY <1>4, <2>1
  <2> QED BY <1>4, <2>2 DEF Added
<1>9. ASSUME NEW q \in Slots, NEW x \in Added(v, w, s, q)
      PROVE  x \in Added(u, w, s, q) /\ u[q][x] = v[q][x] /\ x <= Len(v[q])
  <2>1. x \in Len(Kept(w, s, q)) + 1 .. Len(v[q])
    BY DEF Added
  <2>2. x \in Len(Kept(w, s, q)) + 1 .. Len(u[q]) /\ x \in 1 .. Len(v[q]) /\ x <= Len(v[q])
    BY <1>4, <2>1
  <2> QED BY <1>4, <2>2 DEF Added
<1>10. \A q \in Slots : \A x \in Added(u, w, s, q) :
         \E a \in 1 .. i : u[q][x] = w[s][a] /\ SlotFor(expire[w[s][a]], now) = q
  <2> SUFFICES ASSUME NEW q \in Slots, NEW x \in Added(u, w, s, q)
               PROVE  \E a \in 1 .. i : u[q][x] = w[s][a] /\ SlotFor(expire[w[s][a]], now) = q
    OBVIOUS
  <2>1. CASE x \in Added(v, w, s, q) /\ u[q][x] = v[q][x]
    <3>1. \E a \in 1 .. i - 1 : v[q][x] = w[s][a] /\ SlotFor(expire[w[s][a]], now) = q
      BY <2>1 DEF MovedUpTo
    <3> QED BY <1>6, <2>1, <3>1
  <2>2. CASE q = p /\ u[q][x] = n
    BY <1>1, <2>2
  <2> QED BY <1>8, <2>1, <2>2
<1>11. \A a \in 1 .. i :
         \E x \in Added(u, w, s, SlotFor(expire[w[s][a]], now)) :
           u[SlotFor(expire[w[s][a]], now)][x] = w[s][a]
  <2> SUFFICES ASSUME NEW a \in 1 .. i
               PROVE  \E x \in Added(u, w, s, SlotFor(expire[w[s][a]], now)) :
                        u[SlotFor(expire[w[s][a]], now)][x] = w[s][a]
    OBVIOUS
  <2>1. CASE a = i
    <3>1. Len(v[p]) + 1 \in Added(u, w, s, p)
      BY <1>3, <1>4 DEF Added
    <3> QED BY <1>3, <1>4, <2>1, <3>1
  <2>2. CASE a \in 1 .. i - 1
    <3> DEFINE q == SlotFor(expire[w[s][a]], now)
    <3>1. q \in Slots
      BY <1>1, SlotForIs
    <3>2. \E x \in Added(v, w, s, q) : v[q][x] = w[s][a]
      BY <2>2 DEF MovedUpTo
    <3> HIDE DEF q
    <3>3. \E x \in Added(u, w, s, q) : u[q][x] = w[s][a]
      BY <1>9, <3>1, <3>2
    <3> QED BY <3>3 DEF q
  <2> QED BY <1>5, <2>1, <2>2
<1>12. ASSUME NEW q \in Slots, NEW x \in Added(u, w, s, q), NEW y \in Added(u, w, s, q), x < y
       PROVE  \E a, b \in 1 .. i : a < b /\ u[q][x] = w[s][a] /\ u[q][y] = w[s][b]
  <2>1. CASE y \in Added(v, w, s, q) /\ u[q][y] = v[q][y]
    <3>1. x \in Added(v, w, s, q) /\ u[q][x] = v[q][x]
      <4>1. x \in Nat /\ y \in Nat /\ y <= Len(v[q]) /\ Len(v[q]) \in Nat
        BY <1>4, <1>9, <2>1 DEF Added
      <4>2. x # Len(v[q]) + 1
        BY <1>12, <4>1
      <4> QED BY <1>8, <4>2
    <3>2. \E a, b \in 1 .. i - 1 : a < b /\ v[q][x] = w[s][a] /\ v[q][y] = w[s][b]
      BY <1>12, <2>1, <3>1 DEF MovedUpTo
    <3> QED BY <1>6, <2>1, <3>1, <3>2
  <2>2. CASE q = p /\ y = Len(v[q]) + 1 /\ u[q][y] = n
    <3>1. x \in Added(v, w, s, q) /\ u[q][x] = v[q][x]
      <4>1. x # Len(v[q]) + 1
        BY <1>4, <1>12, <2>2 DEF Added
      <4> QED BY <1>8, <4>1
    <3>2. \E a \in 1 .. i - 1 : v[q][x] = w[s][a]
      BY <3>1 DEF MovedUpTo
    <3>3. i \in 1 .. i
      BY <1>1
    <3> QED BY <1>6, <2>2, <3>1, <3>2, <3>3
  <2> QED BY <1>8, <2>1, <2>2
<1>13. MovedUpTo(u, w, s, now, i)
  <2> HIDE DEF n, p
  <2> QED BY <1>3, <1>7, <1>10, <1>11, <1>12 DEF MovedUpTo
<1> QED BY <1>13 DEF u

\* All of them.
LEMMA MoveListIs ==
  ASSUME NEW w \in Wheels, NEW s \in Slots, NEW now \in Nat, expire \in [Timers -> Times]
  PROVE  MovedUpTo(MoveList(w, s, now), w, s, now, Len(w[s]))
<1> DEFINE size == Len(w[s])
           m == Moved(w, s, now)
           Bad == {i \in 0 .. size : ~MovedUpTo(m[i], w, s, now, i)}
<1>1. w[s] \in Seq(Timers) /\ size \in Nat
  BY DEF Wheels
<1>2. /\ m \in [0 .. size -> Wheels]
      /\ m[0] = [w EXCEPT ![s] = <<>>]
      /\ \A i \in 1 .. size : m[i] = AddNode(m[i - 1], w[s][i], expire[w[s][i]], now)
  BY MovedIs
<1>3. MovedUpTo(m[0], w, s, now, 0)
  <2> DEFINE v == [w EXCEPT ![s] = <<>>]
  <2>1. v \in Wheels /\ \A q \in Slots : v[q] = Kept(w, s, q)
    BY DEF Wheels, Kept
  <2>2. \A q \in Slots : Kept(w, s, q) \in Seq(Timers)
    BY DEF Wheels, Kept
  <2> HIDE DEF v
  <2>3. \A q \in Slots : Len(Kept(w, s, q)) \in Nat
    BY <2>2
  <2>4. \A q \in Slots : Added(v, w, s, q) = {}
    BY <2>1, <2>3 DEF Added
  <2>5. 1 .. 0 = {}
    OBVIOUS
  <2>6. MovedUpTo(v, w, s, now, 0)
    BY <2>1, <2>3, <2>4, <2>5 DEF MovedUpTo
  <2> QED BY <1>2, <2>6 DEF v
<1> HIDE DEF m
<1>4. Bad = {}
  <2> SUFFICES ASSUME Bad # {} PROVE FALSE
    OBVIOUS
  <2>1. PICK k \in Bad : \A j \in Bad : k <= j
    <3>1. Bad \subseteq Nat
      BY <1>1
    <3> HIDE DEF Bad
    <3> QED BY <3>1, LeastOf
  <2>2. k # 0
    BY <1>3
  <2>3. k \in 1 .. size /\ k - 1 \in 0 .. size /\ ~(k <= k - 1)
    BY <1>1, <2>2
  <2>4. k - 1 \notin Bad
    <3> HIDE DEF Bad
    <3> QED BY <2>1, <2>3
  <2>5. MovedUpTo(m[k - 1], w, s, now, k - 1)
    BY <2>3, <2>4
  <2>6. m[k - 1] \in Wheels
    BY <1>2, <2>3
  <2>7. MovedUpTo(m[k], w, s, now, k)
    BY <1>2, <2>3, <2>5, <2>6, MoveOne
  <2> QED BY <2>7
<1>5. size \in 0 .. size
  BY <1>1
<1> QED BY <1>4, <1>5 DEF MoveList, m

-----------------------------------------------------------------------------
(* The inductive invariant.  Its parts are stated of a wheel w, the list b  *)
(* whose callbacks are to run, a clock now, the times e of the nodes and    *)
(* the timers p that are pending.                                           *)

Pendings == Seq([timer : Timers, due : -1 .. Span])

InUse(p, n) == \E i \in DOMAIN p : p[i].timer = n

\* m was added before n
Before(p, m, n) == \E i, j \in DOMAIN p : i < j /\ p[i].timer = m /\ p[j].timer = n

\* a node is in use once
Distinct(p) == \A i, j \in DOMAIN p : p[i].timer = p[j].timer => i = j

\* no timer is overdue, and its node has the time at which it is due
Clock(now, e, p) ==
  \A i \in DOMAIN p : /\ p[i].due \in 0 .. (Span \div 2) - 1
                      /\ e[p[i].timer] = (now + p[i].due) % Span

\* a node in a slot is in use and in the slot that add_node would choose now
Located(w, now, e, p) ==
  \A s \in Slots : \A x \in DOMAIN w[s] :
    InUse(p, w[s][x]) /\ SlotFor(e[w[s][x]], now) = s

\* a node whose callback is to run is in use and due now
BatchDue(b, now, e, p) ==
  \A x \in DOMAIN b : InUse(p, b[x]) /\ e[b[x]] = now

\* a timer that is pending is somewhere
Among(q, n) == \E x \in DOMAIN q : q[x] = n
Somewhere(w, b, now, e, p) ==
  \A i \in DOMAIN p : Among(w[SlotFor(e[p[i].timer], now)], p[i].timer) \/ Among(b, p[i].timer)

\* nodes of one time lie in the order in which they were added
Ordered(w, e, p) ==
  \A s \in Slots : \A x, y \in DOMAIN w[s] :
    x < y /\ e[w[s][x]] = e[w[s][y]] => Before(p, w[s][x], w[s][y])

\* as do those whose callbacks are to run; what has come into their slot since was
\* added later
BatchOrdered(w, b, now, p) ==
  /\ \A x, y \in DOMAIN b : x < y => Before(p, b[x], b[y])
  /\ \A x \in DOMAIN b, y \in DOMAIN w[Due(now)] : Before(p, b[x], w[Due(now)][y])

Placed(w, b, now, e, p) ==
  /\ Located(w, now, e, p) /\ BatchDue(b, now, e, p) /\ Somewhere(w, b, now, e, p)
  /\ Ordered(w, e, p) /\ BatchOrdered(w, b, now, p)

Inv ==
  /\ TypeOK /\ Distinct(pending) /\ Clock(time, expire, pending)
  /\ Placed(wheel, batch, time, expire, pending)
  /\ batch # <<>> => pc \in {"first", "second"}

-----------------------------------------------------------------------------
(* What the steps do to it.                                                *)

\* Times are numbers, and the slots of a wheel are lists.
LEMMA Typed ==
  ASSUME NEW w \in Wheels, NEW e \in [Timers -> Times], NEW now \in Times
  PROVE  /\ \A n \in Timers : e[n] \in Times /\ e[n] \in Nat
         /\ now \in Nat
         /\ \A s \in Slots : w[s] \in Seq(Timers) /\ DOMAIN w[s] = 1 .. Len(w[s])
         /\ \A s \in Slots : \A x \in DOMAIN w[s] : w[s][x] \in Timers
         /\ Due(now) \in Slots
<1>1. Span \in Nat \ {0}
  BY HalfIsWide
<1>2. \A t \in Times : t \in Nat
  BY <1>1 DEF Times
<1>3. Due(now) \in Slots
  <2>1. 0 \in 0 .. 4
    OBVIOUS
  <2> QED BY <1>2, <2>1, DigitIs DEF Due
<1>4. \A s \in Slots : w[s] \in Seq(Timers)
  BY DEF Wheels
<1> QED BY <1>2, <1>3, <1>4

\* A list with one more at its end.
LEMMA AppendIs ==
  ASSUME NEW S, NEW q \in Seq(S), NEW r \in S
  PROVE  /\ Append(q, r) \in Seq(S)
         /\ Len(q) \in Nat /\ DOMAIN q = 1 .. Len(q) /\ DOMAIN Append(q, r) = 1 .. Len(q) + 1
         /\ \A i \in DOMAIN q : /\ Append(q, r)[i] = q[i]
                               /\ i \in DOMAIN Append(q, r) /\ i < Len(q) + 1
         /\ Append(q, r)[Len(q) + 1] = r /\ Len(q) + 1 \in DOMAIN Append(q, r)
         /\ \A i \in DOMAIN Append(q, r) : i \in DOMAIN q \/ i = Len(q) + 1
         /\ \A i, j \in DOMAIN Append(q, r) : i < j => i \in DOMAIN q
OBVIOUS

\* What is pending is a timer.
LEMMA PendingIs ==
  ASSUME NEW p \in Pendings
  PROVE  /\ Len(p) \in Nat /\ DOMAIN p = 1 .. Len(p)
         /\ \A i \in DOMAIN p : /\ p[i] \in [timer : Timers, due : -1 .. Span]
                               /\ p[i].timer \in Timers /\ p[i].due \in -1 .. Span
<1> DEFINE T == [timer : Timers, due : -1 .. Span]
<1>1. p \in Seq(T)
  BY DEF Pendings
<1>2. \A r \in T : r.timer \in Timers /\ r.due \in -1 .. Span
  OBVIOUS
<1> HIDE DEF T
<1>3. Len(p) \in Nat /\ DOMAIN p = 1 .. Len(p) /\ \A i \in DOMAIN p : p[i] \in T
  BY <1>1
<1> QED BY <1>2, <1>3 DEF T

\* A node is not before itself.
LEMMA BeforeDiffers ==
  ASSUME NEW p \in Pendings, Distinct(p), NEW m, NEW n, Before(p, m, n)
  PROVE  m # n
BY DEF Before, Distinct, Pendings

\* A timer is added.
LEMMA Adding ==
  ASSUME NEW w \in Wheels, NEW b \in Seq(Timers), NEW now \in Times,
         NEW e \in [Timers -> Times], NEW p \in Pendings, NEW n \in Timers,
         NEW tm \in Times, NEW d \in 0 .. Span, ~InUse(p, n), Placed(w, b, now, e, p)
  PROVE  Placed(AddNode(w, n, tm, now), b, now, [e EXCEPT ![n] = tm],
                Append(p, [timer |-> n, due |-> d]))
<1> DEFINE s0 == SlotFor(tm, now)
           u == AddNode(w, n, tm, now)
           f == [e EXCEPT ![n] = tm]
           r == [timer |-> n, due |-> d]
           q == Append(p, r)
<1>1. /\ tm \in Nat /\ now \in Nat /\ Due(now) \in Slots
      /\ \A s \in Slots : w[s] \in Seq(Timers) /\ DOMAIN w[s] = 1 .. Len(w[s])
      /\ \A s \in Slots : \A x \in DOMAIN w[s] : w[s][x] \in Timers
      /\ Span \in Nat
  <2>1. Span \in Nat
    BY HalfIsWide
  <2> QED BY <2>1, Typed DEF Times
<1>2. s0 \in Slots /\ \A s \in Slots : u[s] = IF s = s0 THEN Append(w[s], n) ELSE w[s]
  BY <1>1, AddNodeIs, SlotForIs
<1>3. /\ f[n] = tm /\ \A m \in Timers : m # n => f[m] = e[m]
  OBVIOUS
<1>4. /\ DOMAIN p = 1 .. Len(p) /\ Len(p) \in Nat /\ DOMAIN q = 1 .. Len(p) + 1
      /\ \A i \in DOMAIN p : q[i] = p[i] /\ i \in DOMAIN q /\ i < Len(p) + 1
      /\ q[Len(p) + 1].timer = n /\ Len(p) + 1 \in DOMAIN q
      /\ \A i \in DOMAIN p : p[i].timer \in Timers
      /\ \A i \in DOMAIN q : i \in DOMAIN p \/ i = Len(p) + 1
  <2>1. p \in Seq([timer : Timers, due : -1 .. Span]) /\ r \in [timer : Timers, due : -1 .. Span]
    BY <1>1 DEF Pendings
  <2>2. r.timer = n
    OBVIOUS
  <2> HIDE DEF r
  <2>3. p \in Seq([timer : Timers, due : -1 .. Span]) =>
          /\ Len(p) \in Nat /\ DOMAIN p = 1 .. Len(p) /\ DOMAIN q = 1 .. Len(p) + 1
          /\ \A i \in DOMAIN p : q[i] = p[i] /\ i \in DOMAIN q /\ i < Len(p) + 1
          /\ q[Len(p) + 1] = r /\ Len(p) + 1 \in DOMAIN q
          /\ \A i \in DOMAIN q : i \in DOMAIN p \/ i = Len(p) + 1
    BY <2>1, AppendIs
  <2>4. \A i \in DOMAIN p : p[i].timer \in Timers
    BY PendingIs
  <2> HIDE DEF q
  <2> QED BY <2>1, <2>2, <2>3, <2>4
<1>5. ASSUME NEW s \in Slots
      PROVE  /\ \A x \in DOMAIN w[s] : x \in DOMAIN u[s] /\ u[s][x] = w[s][x]
             /\ \A x \in DOMAIN u[s] : x \in DOMAIN w[s] \/ (s = s0 /\ u[s][x] = n)
             /\ \A x, y \in DOMAIN u[s] : x < y => x \in DOMAIN w[s]
  <2>1. w[s] \in Seq(Timers)
    BY <1>1
  <2>2. CASE s = s0
    <3>1. u[s] = Append(w[s], n)
      BY <1>2, <2>2
    <3> HIDE DEF u, s0
    <3>2. /\ \A i \in DOMAIN w[s] : u[s][i] = w[s][i] /\ i \in DOMAIN u[s]
          /\ u[s][Len(w[s]) + 1] = n
          /\ \A i \in DOMAIN u[s] : i \in DOMAIN w[s] \/ i = Len(w[s]) + 1
          /\ \A i, j \in DOMAIN u[s] : i < j => i \in DOMAIN w[s]
      BY <2>1, <3>1, AppendIs
    <3> QED BY <2>2, <3>2
  <2>3. CASE s # s0
    <3>1. u[s] = w[s]
      BY <1>2, <2>3
    <3> HIDE DEF u, s0
    <3> QED BY <3>1
  <2> QED BY <2>2, <2>3
<1>6. \A m : InUse(p, m) => m # n /\ InUse(q, m)
  BY <1>4 DEF InUse
<1>7. InUse(q, n)
  BY <1>4 DEF InUse
<1>8. \A l, m : Before(p, l, m) => Before(q, l, m)
  BY <1>4 DEF Before
<1>9. \A m : InUse(p, m) => Before(q, m, n)
  BY <1>4 DEF InUse, Before
<1> HIDE DEF s0, u, f, r, q
<1>10. \A s \in Slots : \A x \in DOMAIN w[s] :
         InUse(p, w[s][x]) /\ SlotFor(e[w[s][x]], now) = s /\ f[w[s][x]] = e[w[s][x]]
  BY <1>1, <1>3, <1>6 DEF Placed, Located
<1>11. Located(u, now, f, q)
  <2> SUFFICES ASSUME NEW s \in Slots, NEW x \in DOMAIN u[s]
               PROVE  InUse(q, u[s][x]) /\ SlotFor(f[u[s][x]], now) = s
    BY DEF Located
  <2>1. CASE x \in DOMAIN w[s]
    BY <1>5, <1>6, <1>10, <2>1
  <2>2. CASE s = s0 /\ u[s][x] = n
    BY <1>3, <1>7, <2>2 DEF s0
  <2> QED BY <1>5, <2>1, <2>2
<1>12. \A x \in DOMAIN b : b[x] \in Timers /\ InUse(p, b[x]) /\ e[b[x]] = now /\ f[b[x]] = e[b[x]]
  <2>1. \A x \in DOMAIN b : b[x] \in Timers /\ InUse(p, b[x]) /\ e[b[x]] = now
    BY DEF Placed, BatchDue
  <2> QED BY <1>3, <1>6, <2>1
<1>13. BatchDue(b, now, f, q)
  BY <1>6, <1>12 DEF BatchDue
<1>14. Somewhere(u, b, now, f, q)
  <2> SUFFICES ASSUME NEW i \in DOMAIN q
               PROVE  Among(u[SlotFor(f[q[i].timer], now)], q[i].timer) \/ Among(b, q[i].timer)
    BY DEF Somewhere
  <2>1. CASE i \in DOMAIN p
    <3> DEFINE m == p[i].timer
    <3>1. q[i].timer = m /\ m \in Timers /\ m # n /\ f[m] = e[m]
      BY <1>3, <1>4, <1>6, <2>1 DEF InUse
    <3>2. e[m] \in Nat
      BY <3>1, Typed
    <3>3. SlotFor(e[m], now) \in Slots
      BY <1>1, <3>2, SlotForIs
    <3>4. Among(w[SlotFor(e[m], now)], m) \/ Among(b, m)
      BY <2>1 DEF Placed, Somewhere
    <3> HIDE DEF m
    <3>5. Among(w[SlotFor(e[m], now)], m) => Among(u[SlotFor(e[m], now)], m)
      BY <1>5, <3>3 DEF Among
    <3> QED BY <3>1, <3>4, <3>5
  <2>2. CASE i = Len(p) + 1
    <3>1. q[i].timer = n /\ SlotFor(f[n], now) = s0
      BY <1>3, <1>4, <2>2 DEF s0
    <3>2. u[s0] = Append(w[s0], n) /\ w[s0] \in Seq(Timers)
      BY <1>1, <1>2
    <3>3. Len(w[s0]) + 1 \in DOMAIN Append(w[s0], n) /\ Append(w[s0], n)[Len(w[s0]) + 1] = n
      BY <3>2
    <3>4. Among(u[s0], n)
      BY <3>2, <3>3 DEF Among
    <3> QED BY <3>1, <3>4
  <2> QED BY <1>4, <2>1, <2>2
<1>15. Ordered(u, f, q)
  <2> SUFFICES ASSUME NEW s \in Slots, NEW x \in DOMAIN u[s], NEW y \in DOMAIN u[s],
                      x < y, f[u[s][x]] = f[u[s][y]]
               PROVE  Before(q, u[s][x], u[s][y])
    BY DEF Ordered
  <2>1. x \in DOMAIN w[s] /\ u[s][x] = w[s][x] /\ InUse(p, w[s][x])
    BY <1>5, <1>10
  <2>2. CASE y \in DOMAIN w[s]
    <3>1. u[s][y] = w[s][y] /\ e[w[s][x]] = e[w[s][y]]
      BY <1>5, <1>10, <2>1, <2>2
    <3>2. Before(p, w[s][x], w[s][y])
      BY <2>1, <2>2, <3>1 DEF Placed, Ordered
    <3> QED BY <1>8, <2>1, <3>1, <3>2
  <2>3. CASE u[s][y] = n
    BY <1>9, <2>1, <2>3
  <2> QED BY <1>5, <2>2, <2>3
<1>16. BatchOrdered(u, b, now, q)
  <2>1. \A x, y \in DOMAIN b : x < y => Before(q, b[x], b[y])
    BY <1>8 DEF Placed, BatchOrdered
  <2>2. ASSUME NEW x \in DOMAIN b, NEW y \in DOMAIN u[Due(now)]
        PROVE  Before(q, b[x], u[Due(now)][y])
    <3>1. CASE y \in DOMAIN w[Due(now)]
      <4>1. Before(p, b[x], w[Due(now)][y])
        BY <3>1 DEF Placed, BatchOrdered
      <4> QED BY <1>1, <1>5, <1>8, <3>1, <4>1
    <3>2. CASE u[Due(now)][y] = n
      BY <1>9, <1>12, <3>2
    <3> QED BY <1>1, <1>5, <3>1, <3>2
  <2> QED BY <2>1, <2>2 DEF BatchOrdered
<1> QED BY <1>11, <1>13, <1>14, <1>15, <1>16 DEF Placed, u, f, q, r

\* The slot that is due is emptied into the list whose callbacks are to run.
LEMMA Taking ==
  ASSUME NEW w \in Wheels, NEW now \in Times, NEW e \in [Timers -> Times],
         NEW p \in Pendings, Placed(w, <<>>, now, e, p)
  PROVE  /\ [w EXCEPT ![Due(now)] = <<>>] \in Wheels /\ w[Due(now)] \in Seq(Timers)
         /\ Placed([w EXCEPT ![Due(now)] = <<>>], w[Due(now)], now, e, p)
<1> DEFINE s0 == Due(now)
           u == [w EXCEPT ![s0] = <<>>]
           b == w[s0]
<1>1. /\ now \in Nat /\ s0 \in Slots
      /\ \A s \in Slots : w[s] \in Seq(Timers) /\ DOMAIN w[s] = 1 .. Len(w[s])
      /\ \A s \in Slots : \A x \in DOMAIN w[s] : w[s][x] \in Timers
      /\ \A n \in Timers : e[n] \in Nat
  BY Typed
<1>2. u \in Wheels
  <2> HIDE DEF s0
  <2> QED BY <1>1 DEF Wheels
<1>3. \A s \in Slots : u[s] = IF s = s0 THEN <<>> ELSE w[s]
  BY DEF Wheels
<1>4. \A x : x \notin DOMAIN <<>>
  OBVIOUS
<1>5. \A s \in Slots : \A x \in DOMAIN u[s] : s # s0 /\ u[s] = w[s] /\ x \in DOMAIN w[s]
  <2> HIDE DEF u, s0
  <2> QED BY <1>3, <1>4
<1> HIDE DEF u
<1>6. Located(u, now, e, p)
  BY <1>5 DEF Placed, Located
<1>7. BatchDue(b, now, e, p)
  <2> SUFFICES ASSUME NEW x \in DOMAIN w[s0] PROVE InUse(p, w[s0][x]) /\ e[w[s0][x]] = now
    BY DEF BatchDue
  <2> DEFINE n == w[s0][x]
  <2>1. InUse(p, n) /\ SlotFor(e[n], now) = s0 /\ e[n] \in Nat
    BY <1>1 DEF Placed, Located
  <2> HIDE DEF n
  <2>2. e[n] = now
    BY <1>1, <2>1, DueSlot
  <2> QED BY <2>1, <2>2 DEF n
<1>8. Somewhere(u, b, now, e, p)
  <2> SUFFICES ASSUME NEW i \in DOMAIN p
               PROVE  Among(u[SlotFor(e[p[i].timer], now)], p[i].timer) \/ Among(b, p[i].timer)
    BY DEF Somewhere
  <2> DEFINE m == p[i].timer
             s == SlotFor(e[m], now)
  <2>1. m \in Timers
    BY PendingIs
  <2>2. s \in Slots
    BY <1>1, <2>1, SlotForIs
  <2>3. Among(w[s], m)
    BY <1>4 DEF Placed, Somewhere, Among
  <2> HIDE DEF m, s, s0
  <2>4. s = s0 => Among(b, m)
    BY <2>3
  <2>5. s # s0 => Among(u[s], m)
    BY <1>3, <2>2, <2>3
  <2> QED BY <2>4, <2>5 DEF m, s
<1>9. Ordered(u, e, p)
  BY <1>5 DEF Placed, Ordered
<1>10. BatchOrdered(u, b, now, p)
  <2>1. ASSUME NEW x \in DOMAIN w[s0], NEW y \in DOMAIN w[s0], x < y
        PROVE  Before(p, w[s0][x], w[s0][y])
    <3>1. e[w[s0][x]] = now /\ e[w[s0][y]] = now
      BY <1>7 DEF BatchDue
    <3> QED BY <1>1, <2>1, <3>1 DEF Placed, Ordered
  <2>2. \A y : y \notin DOMAIN u[s0]
    BY <1>1, <1>5
  <2> QED BY <2>1, <2>2 DEF BatchOrdered
<1> QED BY <1>1, <1>2, <1>6, <1>7, <1>8, <1>9, <1>10 DEF Placed, u

\* The places do not depend on the ticks to go.
LEMMA SameTimers ==
  ASSUME NEW p, NEW q, DOMAIN p = DOMAIN q, \A i \in DOMAIN p : p[i].timer = q[i].timer,
         NEW w, NEW b, NEW now, NEW e, Placed(w, b, now, e, p)
  PROVE  Placed(w, b, now, e, q)
<1>1. \A n : InUse(p, n) => InUse(q, n)
  BY DEF InUse
<1>2. \A m, n : Before(p, m, n) => Before(q, m, n)
  BY DEF Before
<1>3. Located(w, now, e, q)
  BY <1>1 DEF Placed, Located
<1>4. BatchDue(b, now, e, q)
  BY <1>1 DEF Placed, BatchDue
<1>5. Somewhere(w, b, now, e, q)
  BY DEF Placed, Somewhere
<1>6. Ordered(w, e, q)
  BY <1>2 DEF Placed, Ordered
<1>7. BatchOrdered(w, b, now, q)
  BY <1>2 DEF Placed, BatchOrdered
<1> QED BY <1>3, <1>4, <1>5, <1>6, <1>7 DEF Placed

\* The clock goes on by one when no timer is due.
LEMMA Ticking ==
  ASSUME NEW w \in Wheels, NEW now \in Times, expire \in [Timers -> Times],
         NEW p \in Pendings, Clock(now, expire, p), \A i \in DOMAIN p : p[i].due >= 1,
         Placed(w, <<>>, now, expire, p)
  PROVE  /\ Shifted(w, (now + 1) % Span) \in Wheels
         /\ Placed(Shifted(w, (now + 1) % Span), <<>>, (now + 1) % Span, expire, p)
<1> DEFINE ct == (now + 1) % Span
           v == Shifted(w, ct)
<1>1. /\ now \in Nat
      /\ \A q \in Slots : w[q] \in Seq(Timers) /\ DOMAIN w[q] = 1 .. Len(w[q]) /\ Len(w[q]) \in Nat
      /\ \A q \in Slots : \A x \in DOMAIN w[q] : w[q][x] \in Timers
      /\ \A n \in Timers : expire[n] \in Nat
  BY Typed
<1>2. ct \in Times /\ ct \in Nat
  <2>1. 0 \in 0 .. (Span \div 2) - 1
    <3>1. Window(4) \in Nat \ {0} /\ Span \div 2 \in Nat /\ Window(4) <= Span \div 2
      BY HalfIsWide
    <3> QED BY <3>1
  <2>2. ct \in Times
    BY <2>1, DueTime
  <2> QED BY <2>2, HalfIsWide DEF Times
<1>3. ASSUME NEW n, InUse(p, n)
      PROVE  /\ n \in Timers
             /\ \/ SlotFor(expire[n], ct) = SlotFor(expire[n], now)
                \/ SlotFor(expire[n], now) \in SlotToMove(ct)
  <2>1. PICK i \in DOMAIN p : p[i].timer = n
    BY <1>3 DEF InUse
  <2> DEFINE d == p[i].due
             h == Span \div 2
  <2>2. n \in Timers /\ d \in 0 .. h - 1 /\ d >= 1 /\ expire[n] = (now + d) % Span
    BY <2>1, PendingIs DEF Clock
  <2>3. h \in Nat
    BY HalfIsWide
  <2> HIDE DEF d, h
  <2>4. d \in 1 .. h - 1
    BY <2>2, <2>3
  <2>5. SlotFor((now + d) % Span, ct) = SlotFor((now + d) % Span, now)
        \/ SlotFor((now + d) % Span, now) \in SlotToMove(ct)
    BY <2>4, TickSlots DEF h
  <2> QED BY <2>2, <2>5
<1> HIDE DEF ct
<1>4. /\ \A q \in Slots : \A x \in DOMAIN w[q] :
           InUse(p, w[q][x]) /\ SlotFor(expire[w[q][x]], now) = q
      /\ \A i \in DOMAIN p : Among(w[SlotFor(expire[p[i].timer], now)], p[i].timer)
      /\ \A q \in Slots : \A x, y \in DOMAIN w[q] :
           x < y /\ expire[w[q][x]] = expire[w[q][y]] => Before(p, w[q][x], w[q][y])
  BY DEF Placed, Located, Somewhere, Ordered, Among
<1>5. ASSUME NEW u, Located(u, ct, expire, p), Somewhere(u, <<>>, ct, expire, p),
             Ordered(u, expire, p)
      PROVE  Placed(u, <<>>, ct, expire, p)
  <2>1. \A x : x \notin DOMAIN <<>>
    OBVIOUS
  <2> QED BY <1>5, <2>1 DEF Placed, BatchDue, BatchOrdered
<1>6. \A i \in DOMAIN p : InUse(p, p[i].timer)
  BY DEF InUse
<1>7. CASE SlotToMove(ct) = {}
  <2>1. v = w
    BY <1>7 DEF Shifted
  <2>2. Located(w, ct, expire, p)
    BY <1>3, <1>4, <1>7 DEF Located
  <2>3. Somewhere(w, <<>>, ct, expire, p)
    BY <1>3, <1>4, <1>6, <1>7 DEF Somewhere
  <2>4. Ordered(w, expire, p)
    BY <1>4 DEF Ordered
  <2>5. Placed(w, <<>>, ct, expire, p)
    BY <1>5, <2>2, <2>3, <2>4
  <2> QED BY <2>1, <2>5 DEF ct
<1>8. CASE SlotToMove(ct) # {}
  <2> DEFINE s == CHOOSE r \in SlotToMove(ct) : TRUE
  <2>1. s \in SlotToMove(ct)
    BY <1>8
  <2>2. v = MoveList(w, s, ct)
    BY <1>8 DEF Shifted
  <2> HIDE DEF s, v
  <2>3. s \in Slots /\ \A r \in SlotToMove(ct) : r = s
    BY <1>2, <2>1, OneSlotMoves, SlotToMoveIs
  <2>4. MovedUpTo(v, w, s, ct, Len(w[s]))
    BY <1>2, <2>2, <2>3, MoveListIs
  <2>5. \A q \in Slots : \A x \in DOMAIN w[q] : q # s => SlotFor(expire[w[q][x]], ct) = q
    BY <1>3, <1>4, <2>3
  <2>6. v \in Wheels
    BY <2>4 DEF MovedUpTo
  <2>7. ASSUME NEW q \in Slots, NEW x \in DOMAIN v[q]
        PROVE  \/ q # s /\ x \in DOMAIN w[q] /\ v[q][x] = w[q][x] /\ x \notin Added(v, w, s, q)
               \/ /\ x \in Added(v, w, s, q)
                  /\ \E a \in DOMAIN w[s] : v[q][x] = w[s][a] /\ SlotFor(expire[w[s][a]], ct) = q
    <3> DEFINE k == Kept(w, s, q)
    <3>1. k \in Seq(Timers) /\ v[q] \in Seq(Timers) /\ (k = IF q = s THEN <<>> ELSE w[q])
      BY <1>1, <2>6 DEF Kept, Wheels
    <3>2. Len(k) <= Len(v[q]) /\ \A j \in 1 .. Len(k) : v[q][j] = k[j]
      BY <2>4 DEF MovedUpTo
    <3>3. x \in Added(v, w, s, q) <=> x \in Len(k) + 1 .. Len(v[q])
      BY DEF Added
    <3> HIDE DEF k
    <3>4. x \in 1 .. Len(v[q]) /\ Len(k) \in Nat /\ Len(v[q]) \in Nat
      BY <3>1
    <3>5. CASE x \in Added(v, w, s, q)
      BY <1>1, <2>3, <2>4, <3>5 DEF MovedUpTo
    <3>6. CASE x \notin Added(v, w, s, q)
      <4>1. x \in 1 .. Len(k) /\ v[q][x] = k[x]
        BY <3>2, <3>3, <3>4, <3>6
      <4>2. q # s
        <5>1. Len(<<>>) = 0 /\ 1 .. 0 = {}
          OBVIOUS
        <5> QED BY <3>1, <4>1, <5>1
      <4> QED BY <1>1, <3>1, <3>6, <4>1, <4>2
    <3> QED BY <3>5, <3>6
  <2>8. Located(v, ct, expire, p)
    <3> SUFFICES ASSUME NEW q \in Slots, NEW x \in DOMAIN v[q]
                 PROVE  InUse(p, v[q][x]) /\ SlotFor(expire[v[q][x]], ct) = q
      BY DEF Located
    <3> QED BY <1>4, <2>3, <2>5, <2>7
  <2>9. Somewhere(v, <<>>, ct, expire, p)
    <3> SUFFICES ASSUME NEW i \in DOMAIN p
                 PROVE  Among(v[SlotFor(expire[p[i].timer], ct)], p[i].timer)
      BY DEF Somewhere
    <3> DEFINE n == p[i].timer
               q == SlotFor(expire[n], now)
    <3>1. n \in Timers
      BY PendingIs
    <3>2. q \in Slots
      BY <1>1, <3>1, SlotForIs
    <3>3. PICK x \in DOMAIN w[q] : w[q][x] = n
      BY <1>4 DEF Among
    <3> HIDE DEF n, q
    <3>4. CASE q = s
      <4>1. x \in 1 .. Len(w[s])
        BY <1>1, <2>3, <3>4
      <4> DEFINE r == SlotFor(expire[n], ct)
      <4>2. r \in Slots
        BY <1>1, <1>2, <3>1, SlotForIs
      <4>3. \E y \in Added(v, w, s, r) : v[r][y] = n
        BY <2>4, <3>3, <3>4, <4>1 DEF MovedUpTo
      <4> HIDE DEF r
      <4>4. Added(v, w, s, r) \subseteq DOMAIN v[r]
        <5>1. v[r] \in Seq(Timers) /\ Kept(w, s, r) \in Seq(Timers)
          BY <1>1, <2>6, <4>2 DEF Kept, Wheels
        <5> QED BY <5>1 DEF Added
      <4> QED BY <4>3, <4>4 DEF Among, n, r
    <3>5. CASE q # s
      <4>1. SlotFor(expire[n], ct) = q
        BY <2>5, <3>2, <3>3, <3>5
      <4>2. Kept(w, s, q) = w[q]
        BY <3>5 DEF Kept
      <4>3. Len(w[q]) <= Len(v[q]) /\ \A j \in 1 .. Len(w[q]) : v[q][j] = w[q][j]
        BY <2>4, <3>2, <4>2 DEF MovedUpTo
      <4>4. w[q] \in Seq(Timers) /\ v[q] \in Seq(Timers)
        BY <1>1, <2>6, <3>2 DEF Wheels
      <4>5. x \in DOMAIN v[q] /\ v[q][x] = n
        BY <3>3, <4>3, <4>4
      <4> QED BY <4>1, <4>5 DEF Among, n
    <3> QED BY <3>4, <3>5
  <2>10. Ordered(v, expire, p)
    <3> SUFFICES ASSUME NEW q \in Slots, NEW x \in DOMAIN v[q], NEW y \in DOMAIN v[q],
                        x < y, expire[v[q][x]] = expire[v[q][y]]
                 PROVE  Before(p, v[q][x], v[q][y])
      BY DEF Ordered
    <3>1. CASE x \in Added(v, w, s, q) /\ y \in Added(v, w, s, q)
      <4>1. PICK a \in 1 .. Len(w[s]), b \in 1 .. Len(w[s]) :
              a < b /\ v[q][x] = w[s][a] /\ v[q][y] = w[s][b]
        BY <2>4, <3>1 DEF MovedUpTo
      <4> QED BY <1>1, <1>4, <2>3, <4>1
    <3>2. CASE x \notin Added(v, w, s, q) /\ y \notin Added(v, w, s, q)
      BY <1>4, <2>7, <3>2
    <3>3. CASE x \notin Added(v, w, s, q) /\ y \in Added(v, w, s, q)
      <4>1. q # s /\ x \in DOMAIN w[q] /\ v[q][x] = w[q][x]
        BY <2>7, <3>3
      <4>2. PICK a \in DOMAIN w[s] : v[q][y] = w[s][a]
        BY <2>7, <3>3
      <4>3. SlotFor(expire[w[q][x]], now) = q /\ SlotFor(expire[w[s][a]], now) = s
        BY <1>4, <2>3, <4>1, <4>2
      <4> QED BY <4>1, <4>2, <4>3
    <3>4. ~(x \in Added(v, w, s, q) /\ y \notin Added(v, w, s, q))
      <4>1. v[q] \in Seq(Timers) /\ Len(Kept(w, s, q)) \in Nat
        BY <1>1, <2>6 DEF Kept, Wheels
      <4>2. x \in 1 .. Len(v[q]) /\ y \in 1 .. Len(v[q]) /\ Len(v[q]) \in Nat
        BY <4>1
      <4> QED BY <4>1, <4>2 DEF Added
    <3> QED BY <3>1, <3>2, <3>3, <3>4
  <2>11. Placed(v, <<>>, ct, expire, p)
    BY <1>5, <2>8, <2>9, <2>10
  <2> QED BY <2>6, <2>11 DEF ct, v
<1> QED BY <1>7, <1>8

\* What is left when one of the timers is taken away.
LEMMA RemoveAtIs ==
  ASSUME NEW p \in Pendings, NEW i \in DOMAIN p
  PROVE  /\ RemoveAt(p, i) \in Pendings
         /\ DOMAIN RemoveAt(p, i) = 1 .. Len(p) - 1
         /\ \A j \in 1 .. Len(p) - 1 : RemoveAt(p, i)[j] = IF j < i THEN p[j] ELSE p[j + 1]
<1> DEFINE T == [timer : Timers, due : -1 .. Span]
           a == SubSeq(p, 1, i - 1)
           b == SubSeq(p, i + 1, Len(p))
<1>1. p \in Seq(T) /\ Pendings = Seq(T) /\ RemoveAt(p, i) = a \o b
  BY DEF Pendings, RemoveAt
<1> HIDE DEF T
<1>2. Len(p) \in Nat /\ i \in 1 .. Len(p)
  BY <1>1
<1>3. a \in Seq(T) /\ Len(a) = i - 1 /\ \A j \in 1 .. i - 1 : a[j] = p[j]
  BY <1>1, <1>2
<1>4. b \in Seq(T) /\ Len(b) = Len(p) - i /\ \A j \in 1 .. Len(p) - i : b[j] = p[i + j]
  BY <1>1, <1>2
<1> HIDE DEF a, b
<1> DEFINE c == a \o b
<1>5. /\ c \in Seq(T) /\ Len(c) = Len(a) + Len(b)
      /\ \A j \in 1 .. Len(a) + Len(b) : c[j] = IF j <= Len(a) THEN a[j] ELSE b[j - Len(a)]
  BY <1>3, <1>4
<1> HIDE DEF c
<1>6. Len(c) = Len(p) - 1 /\ DOMAIN c = 1 .. Len(p) - 1
  BY <1>2, <1>3, <1>4, <1>5
<1>7. ASSUME NEW j \in 1 .. Len(p) - 1 PROVE c[j] = IF j < i THEN p[j] ELSE p[j + 1]
  <2>1. CASE j < i
    <3>1. j \in 1 .. i - 1 /\ j <= Len(a) /\ j \in 1 .. Len(a) + Len(b)
      BY <1>2, <1>3, <1>4, <2>1
    <3> QED BY <1>3, <1>5, <2>1, <3>1
  <2>2. CASE ~(j < i)
    <3>1. /\ ~(j <= Len(a)) /\ j \in 1 .. Len(a) + Len(b) /\ j - Len(a) \in 1 .. Len(p) - i
          /\ i + (j - Len(a)) = j + 1
      BY <1>2, <1>3, <1>4, <2>2
    <3>2. c[j] = b[j - Len(a)]
      BY <1>5, <3>1
    <3>3. b[j - Len(a)] = p[i + (j - Len(a))]
      BY <1>4, <3>1
    <3> QED BY <2>2, <3>1, <3>2, <3>3
  <2> QED BY <2>1, <2>2
<1> QED BY <1>1, <1>5, <1>6, <1>7 DEF c

\* The head and the tail of a list that is not empty.
LEMMA HeadTailIs ==
  ASSUME NEW S, NEW b \in Seq(S), b # <<>>
  PROVE  /\ Len(b) \in Nat /\ Len(b) > 0 /\ DOMAIN b = 1 .. Len(b) /\ 1 \in DOMAIN b
         /\ b[1] = Head(b) /\ \A x \in DOMAIN b : b[x] \in S
         /\ Tail(b) \in Seq(S) /\ Len(Tail(b)) = Len(b) - 1
         /\ DOMAIN Tail(b) = 1 .. Len(b) - 1 /\ \A x \in 1 .. Len(b) - 1 : Tail(b)[x] = b[x + 1]
<1>1. Len(b) \in Nat /\ DOMAIN b = 1 .. Len(b) /\ \A x \in DOMAIN b : b[x] \in S
  OBVIOUS
<1>2. Len(b) # 0
  OBVIOUS
<1>3. b[1] = Head(b)
  OBVIOUS
<1>4. /\ Tail(b) \in Seq(S) /\ Len(Tail(b)) = Len(b) - 1
      /\ \A x \in 1 .. Len(b) - 1 : Tail(b)[x] = b[x + 1]
  BY <1>1, <1>2
<1>5. DOMAIN Tail(b) = 1 .. Len(Tail(b))
  BY <1>4
<1> QED BY <1>1, <1>2, <1>3, <1>4, <1>5

\* The first node of the list is that of the oldest timer that is due.
LEMMA OldestFires ==
  ASSUME NEW w \in Wheels, NEW b \in Seq(Timers), b # <<>>, NEW now \in Times,
         NEW e \in [Timers -> Times], NEW p \in Pendings, Distinct(p), Clock(now, e, p),
         Placed(w, b, now, e, p)
  PROVE  \E i \in DOMAIN p : /\ p[i].timer = Head(b) /\ p[i].due = 0
                             /\ \A j \in 1 .. i - 1 : p[j].due > 0
<1>1. 1 \in DOMAIN b /\ b[1] = Head(b) /\ DOMAIN b = 1 .. Len(b) /\ Len(b) \in Nat
  BY HeadTailIs
<1>2. InUse(p, Head(b)) /\ e[Head(b)] = now
  BY <1>1 DEF Placed, BatchDue
<1>3. PICK i \in DOMAIN p : p[i].timer = Head(b)
  BY <1>2 DEF InUse
<1>4. DOMAIN p = 1 .. Len(p) /\ Len(p) \in Nat /\ \A j \in DOMAIN p : p[j].timer \in Timers
  BY PendingIs
<1>5. /\ \A j \in DOMAIN p : p[j].due \in 0 .. (Span \div 2) - 1
      /\ \A j \in DOMAIN p : e[p[j].timer] = (now + p[j].due) % Span
  BY DEF Clock
<1>6. p[i].due = 0
  BY <1>2, <1>3, <1>5, DueTime
<1>7. ASSUME NEW j \in 1 .. i - 1 PROVE p[j].due > 0
  <2>1. j \in DOMAIN p /\ j < i /\ i \in Nat /\ j \in Nat
    BY <1>4
  <2>2. p[j].due \in 0 .. (Span \div 2) - 1
    BY <1>5, <2>1
  <2> DEFINE m == p[j].timer
  <2>3. SUFFICES ASSUME p[j].due = 0 PROVE FALSE
    <3> DEFINE d == p[j].due
    <3>1. d \in 0 .. (Span \div 2) - 1
      BY <2>2
    <3> HIDE DEF d
    <3>2. d # 0 => d > 0
      BY <3>1
    <3> QED BY <3>2 DEF d
  <2>4. 0 \in 0 .. (Span \div 2) - 1
    BY <2>2, <2>3
  <2>5. e[m] = now /\ m \in Timers
    BY <1>4, <1>5, <2>1, <2>3, <2>4, DueTime
  <2>6. m # Head(b)
    BY <1>3, <2>1 DEF Distinct
  <2>7. now \in Nat /\ Due(now) \in Slots
    BY Typed
  <2>8. Among(w[SlotFor(e[m], now)], m) \/ Among(b, m)
    BY <2>1 DEF Placed, Somewhere
  <2>9. SlotFor(e[m], now) = Due(now)
    BY <2>5, <2>7, DueSlot
  <2>10. Before(p, Head(b), m)
    <3>1. CASE Among(w[Due(now)], m)
      BY <1>1, <3>1 DEF Placed, BatchOrdered, Among
    <3>2. CASE Among(b, m)
      <4>1. PICK x \in DOMAIN b : b[x] = m
        BY <3>2 DEF Among
      <4>2. x # 1
        BY <1>1, <2>6, <4>1
      <4>3. 1 < x
        BY <1>1, <4>2
      <4> QED BY <1>1, <4>1, <4>3 DEF Placed, BatchOrdered
    <3> QED BY <2>8, <2>9, <3>1, <3>2
  <2>11. PICK k, l \in DOMAIN p : k < l /\ p[k].timer = Head(b) /\ p[l].timer = m
    BY <2>10 DEF Before
  <2>12. k = i /\ l = j
    BY <1>3, <2>1, <2>11 DEF Distinct
  <2> QED BY <2>1, <2>11, <2>12
<1> QED BY <1>3, <1>6, <1>7

\* A callback runs and its node is free again.
LEMMA Firing ==
  ASSUME NEW w \in Wheels, NEW b \in Seq(Timers), b # <<>>, NEW now \in Times,
         NEW e \in [Timers -> Times], NEW p \in Pendings, Distinct(p),
         Placed(w, b, now, e, p), NEW i \in DOMAIN p, p[i].timer = Head(b)
  PROVE  /\ Placed(w, Tail(b), now, [e EXCEPT ![Head(b)] = 0], RemoveAt(p, i))
         /\ Distinct(RemoveAt(p, i))
         /\ \A j \in DOMAIN RemoveAt(p, i) :
              /\ RemoveAt(p, i)[j].timer # Head(b)
              /\ \E k \in DOMAIN p : RemoveAt(p, i)[j] = p[k]
<1> DEFINE h == Head(b)
           f == [e EXCEPT ![h] = 0]
           q == RemoveAt(p, i)
           c == Tail(b)
<1>1. /\ 1 \in DOMAIN b /\ b[1] = h /\ c \in Seq(Timers) /\ h \in Timers
      /\ \A x \in DOMAIN c : x + 1 \in DOMAIN b /\ c[x] = b[x + 1] /\ 1 < x + 1 /\ x \in Nat
      /\ \A x \in DOMAIN b : x = 1 \/ (x - 1 \in DOMAIN c /\ c[x - 1] = b[x])
      /\ \A x \in DOMAIN b : b[x] \in Timers
  <2>1. /\ c \in Seq(Timers) /\ Len(c) = Len(b) - 1 /\ Len(b) \in Nat /\ Len(b) > 0
        /\ \A x \in 1 .. Len(b) - 1 : c[x] = b[x + 1]
        /\ b[1] = h /\ DOMAIN b = 1 .. Len(b) /\ DOMAIN c = 1 .. Len(b) - 1
        /\ \A x \in DOMAIN b : b[x] \in Timers
    BY HeadTailIs
  <2> HIDE DEF c, h
  <2>2. 1 \in DOMAIN b /\ h \in Timers
    BY <2>1
  <2>3. \A x \in DOMAIN c : x + 1 \in DOMAIN b /\ c[x] = b[x + 1] /\ 1 < x + 1 /\ x \in Nat
    BY <2>1
  <2>4. ASSUME NEW x \in DOMAIN b PROVE x = 1 \/ (x - 1 \in DOMAIN c /\ c[x - 1] = b[x])
    <3>1. x # 1 => x - 1 \in 1 .. Len(c) /\ (x - 1) + 1 = x
      BY <2>1
    <3> QED BY <2>1, <3>1
  <2> QED BY <2>1, <2>2, <2>3, <2>4
<1>2. /\ now \in Nat /\ Due(now) \in Slots
      /\ \A s \in Slots : \A x \in DOMAIN w[s] : w[s][x] \in Timers
  BY Typed
<1>3. \A n \in Timers : n # h => f[n] = e[n]
  OBVIOUS
<1>4. /\ DOMAIN p = 1 .. Len(p) /\ Len(p) \in Nat
      /\ \A j \in DOMAIN p : p[j].timer \in Timers
  BY PendingIs
<1>5. /\ DOMAIN q = 1 .. Len(p) - 1
      /\ \A j \in 1 .. Len(p) - 1 : q[j] = IF j < i THEN p[j] ELSE p[j + 1]
  BY RemoveAtIs
<1> HIDE DEF f, q, c
<1> DEFINE Old(j) == IF j < i THEN j ELSE j + 1
           New(k) == IF k < i THEN k ELSE k - 1
<1>6. \A j \in DOMAIN q : Old(j) \in DOMAIN p /\ Old(j) # i /\ q[j] = p[Old(j)]
  BY <1>4, <1>5
<1>7. \A j, k \in DOMAIN q : Old(j) = Old(k) => j = k
  BY <1>4, <1>5
<1>8. ASSUME NEW k \in DOMAIN p, k # i PROVE New(k) \in DOMAIN q /\ q[New(k)] = p[k]
  <2>1. CASE k < i
    BY <1>4, <1>5, <2>1
  <2>2. CASE k > i
    <3>1. k - 1 \in DOMAIN q /\ ~(k - 1 < i) /\ ~(k < i) /\ (k - 1) + 1 = k
      BY <1>4, <1>5, <2>2
    <3> QED BY <1>5, <3>1
  <2>3. k < i \/ k > i
    BY <1>4, <1>8
  <2> QED BY <2>1, <2>2, <2>3
<1>9. \A k, l \in DOMAIN p : k # i /\ l # i /\ k < l => New(k) < New(l)
  BY <1>4
<1> HIDE DEF Old, New
<1>10. \A k \in DOMAIN p : p[k].timer = h <=> k = i
  BY DEF Distinct
<1>11. ASSUME NEW n, InUse(p, n), n # h PROVE InUse(q, n)
  BY <1>8, <1>10, <1>11 DEF InUse
<1>12. ASSUME NEW m, NEW n, Before(p, m, n), m # h, n # h PROVE Before(q, m, n)
  <2>1. PICK k, l \in DOMAIN p : k < l /\ p[k].timer = m /\ p[l].timer = n
    BY <1>12 DEF Before
  <2>2. k # i /\ l # i
    BY <1>10, <1>12, <2>1
  <2> QED BY <1>8, <1>9, <2>1, <2>2 DEF Before
<1>13. \A n : ~Before(p, n, n)
  BY BeforeDiffers
<1>14. \A s \in Slots : \A x \in DOMAIN w[s] : InUse(p, w[s][x]) /\ SlotFor(e[w[s][x]], now) = s
  BY DEF Placed, Located
<1>15. ASSUME NEW s \in Slots, NEW x \in DOMAIN w[s] PROVE w[s][x] # h
  <2> SUFFICES ASSUME w[s][x] = h PROVE FALSE
    OBVIOUS
  <2>1. e[h] = now
    BY <1>1 DEF Placed, BatchDue
  <2>2. s = Due(now)
    BY <1>2, <1>14, <2>1, DueSlot
  <2>3. Before(p, h, h)
    BY <1>1, <2>2 DEF Placed, BatchOrdered
  <2> QED BY <1>13, <2>3
<1>16. ASSUME NEW x \in DOMAIN c PROVE c[x] # h
  <2>1. Before(p, h, c[x])
    BY <1>1 DEF Placed, BatchOrdered
  <2> QED BY <1>13, <2>1
<1>17. Located(w, now, f, q)
  <2> SUFFICES ASSUME NEW s \in Slots, NEW x \in DOMAIN w[s]
               PROVE  InUse(q, w[s][x]) /\ SlotFor(f[w[s][x]], now) = s
    BY DEF Located
  <2>1. w[s][x] \in Timers /\ w[s][x] # h /\ InUse(p, w[s][x]) /\ SlotFor(e[w[s][x]], now) = s
    BY <1>2, <1>14, <1>15
  <2> QED BY <1>3, <1>11, <2>1
<1>18. BatchDue(c, now, f, q)
  <2> SUFFICES ASSUME NEW x \in DOMAIN c PROVE InUse(q, c[x]) /\ f[c[x]] = now
    BY DEF BatchDue
  <2>1. c[x] \in Timers /\ c[x] # h /\ InUse(p, c[x]) /\ e[c[x]] = now
    BY <1>1, <1>16 DEF Placed, BatchDue
  <2> QED BY <1>3, <1>11, <2>1
<1>19. Somewhere(w, c, now, f, q)
  <2> SUFFICES ASSUME NEW j \in DOMAIN q
               PROVE  Among(w[SlotFor(f[q[j].timer], now)], q[j].timer) \/ Among(c, q[j].timer)
    BY DEF Somewhere
  <2> DEFINE n == q[j].timer
  <2>1. n = p[Old(j)].timer /\ Old(j) \in DOMAIN p /\ Old(j) # i
    BY <1>6
  <2>2. n \in Timers /\ n # h
    BY <1>4, <1>10, <2>1
  <2>3. Among(w[SlotFor(e[n], now)], n) \/ Among(b, n)
    BY <2>1 DEF Placed, Somewhere
  <2> HIDE DEF n
  <2>4. f[n] = e[n]
    BY <1>3, <2>2
  <2>5. Among(b, n) => Among(c, n)
    BY <1>1, <2>2 DEF Among
  <2> QED BY <2>3, <2>4, <2>5 DEF n
<1>20. Ordered(w, f, q)
  <2> SUFFICES ASSUME NEW s \in Slots, NEW x \in DOMAIN w[s], NEW y \in DOMAIN w[s],
                      x < y, f[w[s][x]] = f[w[s][y]]
               PROVE  Before(q, w[s][x], w[s][y])
    BY DEF Ordered
  <2>1. /\ w[s][x] \in Timers /\ w[s][x] # h /\ w[s][y] \in Timers /\ w[s][y] # h
    BY <1>2, <1>15
  <2>2. e[w[s][x]] = e[w[s][y]]
    BY <1>3, <2>1
  <2>3. Before(p, w[s][x], w[s][y])
    BY <2>2 DEF Placed, Ordered
  <2> QED BY <1>12, <2>1, <2>3
<1>21. BatchOrdered(w, c, now, q)
  <2>1. ASSUME NEW x \in DOMAIN c, NEW y \in DOMAIN c, x < y PROVE Before(q, c[x], c[y])
    <3>1. x + 1 < y + 1
      BY <1>1, <2>1
    <3>2. Before(p, b[x + 1], b[y + 1])
      BY <1>1, <3>1 DEF Placed, BatchOrdered
    <3> QED BY <1>1, <1>12, <1>16, <3>2
  <2>2. ASSUME NEW x \in DOMAIN c, NEW y \in DOMAIN w[Due(now)]
        PROVE  Before(q, c[x], w[Due(now)][y])
    <3>1. Before(p, b[x + 1], w[Due(now)][y])
      BY <1>1 DEF Placed, BatchOrdered
    <3> QED BY <1>1, <1>2, <1>12, <1>15, <1>16, <3>1
  <2> QED BY <2>1, <2>2 DEF BatchOrdered
<1>22. Distinct(q)
  <2> SUFFICES ASSUME NEW j \in DOMAIN q, NEW k \in DOMAIN q, q[j].timer = q[k].timer
               PROVE  j = k
    BY DEF Distinct
  <2> QED BY <1>6, <1>7 DEF Distinct
<1>23. \A j \in DOMAIN q : q[j].timer # h /\ \E k \in DOMAIN p : q[j] = p[k]
  BY <1>6, <1>10
<1>24. Placed(w, c, now, f, q)
  BY <1>17, <1>18, <1>19, <1>20, <1>21 DEF Placed
<1> QED BY <1>22, <1>23, <1>24 DEF f, q, c

\* Init establishes the invariant.
LEMMA InitInv == Init => Inv
<1> SUFFICES ASSUME Init PROVE Inv
  OBVIOUS
<1>1. 0 \in Times /\ Span \in Nat
  <2>1. Span \in Nat \ {0}
    BY HalfIsWide
  <2> QED BY <2>1 DEF Times
<1>2. \A x : x \notin DOMAIN <<>>
  OBVIOUS
<1>3. TypeOK
  <2>1. <<>> \in Seq(Timers) /\ <<>> \in Seq([timer : Timers, due : -1 .. Span])
    OBVIOUS
  <2>2. wheel \in [Slots -> Seq(Timers)] /\ batch \in Seq(Timers)
    BY <2>1 DEF Init
  <2>3. time \in 0 .. Span - 1 /\ expire \in [Timers -> 0 .. Span - 1]
    BY <1>1 DEF Init, Times
  <2>4. pc \in {"sleep", "first", "second", "closed"} /\ _close \in BOOLEAN
    BY DEF Init
  <2>5. pending \in Seq([timer : Timers, due : -1 .. Span])
    BY <2>1 DEF Init
  <2> QED BY <2>2, <2>3, <2>4, <2>5 DEF TypeOK
<1>4. \A s \in Slots : \A x : x \notin DOMAIN wheel[s]
  BY <1>2 DEF Init
<1>5. pending = <<>> /\ batch = <<>>
  BY DEF Init
<1>6. Distinct(pending) /\ Clock(time, expire, pending)
  BY <1>2, <1>5 DEF Distinct, Clock
<1>7. Due(time) \in Slots
  <2>1. 0 \in 0 .. 4 /\ time \in Nat
    BY DEF Init
  <2> QED BY <2>1, DigitIs DEF Due
<1>8. Placed(wheel, batch, time, expire, pending)
  BY <1>2, <1>4, <1>5 DEF Placed, Located, BatchDue, Somewhere, Ordered, BatchOrdered
<1> QED BY <1>3, <1>5, <1>6, <1>8 DEF Inv

\* The types, by the names used here.
LEMMA TypesAre ==
  ASSUME TypeOK
  PROVE  /\ wheel \in Wheels /\ batch \in Seq(Timers) /\ time \in Times
         /\ expire \in [Timers -> Times] /\ pending \in Pendings
BY DEF TypeOK, Wheels, Times, Pendings

\* AddTimer keeps the invariant.
LEMMA AddTimerInv ==
  ASSUME Inv, NEW n \in Timers, NEW d \in Delays, AddTimer(n, d)
  PROVE  Inv'
<1> DEFINE tm == (time + d) % Span
           r == [timer |-> n, due |-> d]
<1>1. /\ wheel \in Wheels /\ batch \in Seq(Timers) /\ time \in Times
      /\ expire \in [Timers -> Times] /\ pending \in Pendings
  BY TypesAre DEF Inv
<1>2. /\ expire' = [expire EXCEPT ![n] = tm] /\ wheel' = AddNode(wheel, n, tm, time)
      /\ pending' = Append(pending, r) /\ time' = time /\ pc' = pc /\ batch' = batch
      /\ _close' = _close /\ ~InUse(pending, n)
  BY DEF AddTimer, Asked, InUse
<1>3. Span \in Nat \ {0} /\ Span \div 2 \in Nat /\ 2 * (Span \div 2) <= Span
  BY HalfIsWide
<1>4. d \in 0 .. (Span \div 2) - 1
  BY WheelAssumption
<1>5. d \in 0 .. Span
  <2> DEFINE h == Span \div 2
  <2>1. h \in Nat /\ 2 * h <= Span /\ d \in 0 .. h - 1 /\ Span \in Nat
    BY <1>3, <1>4
  <2> HIDE DEF h
  <2> QED BY <2>1
<1>6. tm \in Times
  BY <1>1, <1>4, DueTime
<1>7. time \in Nat /\ tm \in Nat
  BY <1>1, <1>3, <1>6 DEF Times
<1>8. r \in [timer : Timers, due : -1 .. Span] /\ r.timer = n /\ r.due = d
  <2>1. d \in -1 .. Span
    BY <1>3, <1>5
  <2> QED BY <2>1
<1> HIDE DEF tm, r
<1>9. wheel' \in Wheels
  BY <1>1, <1>2, <1>7, AddNodeIs
<1>10. expire' \in [Timers -> Times] /\ expire'[n] = tm /\ \A m \in Timers : m # n => expire'[m] = expire[m]
  BY <1>1, <1>2, <1>6
<1>11. /\ pending' \in Pendings /\ Len(pending) \in Nat /\ DOMAIN pending = 1 .. Len(pending)
       /\ \A i \in DOMAIN pending : pending'[i] = pending[i]
       /\ pending'[Len(pending) + 1] = r
       /\ \A i \in DOMAIN pending' : i \in DOMAIN pending \/ i = Len(pending) + 1
  BY <1>1, <1>2, <1>8, AppendIs DEF Pendings
<1>12. TypeOK'
  BY <1>1, <1>2, <1>9, <1>10, <1>11 DEF Inv, TypeOK, Wheels, Times, Pendings
<1>13. \A i \in DOMAIN pending : pending[i].timer \in Timers /\ pending[i].timer # n
  BY <1>1, <1>2, PendingIs DEF InUse
<1>14. Distinct(pending')
  BY <1>8, <1>11, <1>13 DEF Inv, Distinct
<1>15. Clock(time', expire', pending')
  <2> SUFFICES ASSUME NEW i \in DOMAIN pending'
               PROVE  /\ pending'[i].due \in 0 .. (Span \div 2) - 1
                      /\ expire'[pending'[i].timer] = (time + pending'[i].due) % Span
    BY <1>2 DEF Clock
  <2>1. CASE i \in DOMAIN pending
    BY <1>10, <1>11, <1>13, <2>1 DEF Inv, Clock
  <2>2. CASE i = Len(pending) + 1
    BY <1>4, <1>8, <1>10, <1>11, <2>2 DEF tm
  <2> QED BY <1>11, <2>1, <2>2
<1>16. Placed(wheel', batch', time', expire', pending')
  <2>1. Placed(wheel, batch, time, expire, pending)
    BY DEF Inv
  <2>2. Placed(AddNode(wheel, n, tm, time), batch, time, [expire EXCEPT ![n] = tm],
               Append(pending, r))
    BY <1>1, <1>2, <1>5, <1>6, <2>1, Adding DEF r
  <2> QED BY <1>2, <2>2
<1> QED BY <1>2, <1>12, <1>14, <1>15, <1>16 DEF Inv

\* What is left of the list of the slot that is due (ExecuteFirst and ExecuteSecond).
LEMMA ExecuteInv ==
  ASSUME Inv, batch = <<>>,
         batch' = wheel[Due(time)], wheel' = [wheel EXCEPT ![Due(time)] = <<>>],
         pc' \in {"sleep", "first", "second", "closed"},
         batch' # <<>> => pc' \in {"first", "second"},
         UNCHANGED <<time, expire, _close, pending>>
  PROVE  Inv'
<1>1. /\ wheel \in Wheels /\ batch \in Seq(Timers) /\ time \in Times
      /\ expire \in [Timers -> Times] /\ pending \in Pendings
  BY TypesAre DEF Inv
<1>2. Placed(wheel, <<>>, time, expire, pending)
  BY DEF Inv
<1>3. wheel' \in Wheels /\ batch' \in Seq(Timers) /\ Placed(wheel', batch', time, expire, pending)
  BY <1>1, <1>2, Taking
<1>4. TypeOK'
  BY <1>3 DEF Inv, TypeOK, Wheels
<1>5. Distinct(pending') /\ Clock(time', expire', pending')
  BY DEF Inv
<1> QED BY <1>3, <1>4, <1>5 DEF Inv

\* When the slot of the present tick is empty, no timer is due.
LEMMA NoneDue ==
  ASSUME Inv, batch = <<>>, wheel[Due(time)] = <<>>
  PROVE  \A i \in DOMAIN pending : /\ pending[i].due >= 1 /\ pending[i].due \in Nat
                                   /\ pending[i].due <= (Span \div 2) - 1
<1> SUFFICES ASSUME NEW i \in DOMAIN pending
             PROVE  /\ pending[i].due >= 1 /\ pending[i].due \in Nat
                    /\ pending[i].due <= (Span \div 2) - 1
  OBVIOUS
<1> DEFINE d == pending[i].due
           n == pending[i].timer
           h == Span \div 2
<1>1. d \in 0 .. h - 1 /\ expire[n] = (time + d) % Span
  BY DEF Inv, Clock
<1>2. time \in Times /\ time \in Nat
  BY TypesAre, Typed DEF Inv
<1>3. d # 0
  <2> SUFFICES ASSUME d = 0 PROVE FALSE
    OBVIOUS
  <2>1. expire[n] = time
    BY <1>1, <1>2, DueTime
  <2>2. SlotFor(expire[n], time) = Due(time)
    BY <1>2, <2>1, DueSlot
  <2>3. Among(<<>>, n)
    BY <2>2 DEF Inv, Placed, Somewhere
  <2> QED BY <2>3 DEF Among
<1>4. h \in Nat
  BY HalfIsWide
<1> HIDE DEF d, h
<1>5. d >= 1 /\ d \in Nat /\ d <= h - 1
  BY <1>1, <1>3, <1>4
<1> QED BY <1>5 DEF d, h

\* ShiftAndExecute takes a tick from every timer.
LEMMA ShiftTicks ==
  ASSUME Inv, ShiftAndExecute
  PROVE  /\ batch = <<>> /\ pending' \in Pendings /\ DOMAIN pending' = DOMAIN pending
         /\ \A i \in DOMAIN pending : /\ pending[i].due \in 1 .. (Span \div 2) - 1
                                      /\ pending'[i] = [pending[i] EXCEPT !.due = @ - 1]
                                      /\ pending'[i].timer = pending[i].timer
                                      /\ pending'[i].due = pending[i].due - 1
<1> DEFINE T == [timer : Timers, due : -1 .. Span]
           h == Span \div 2
<1>1. batch = <<>>
  BY DEF Inv, ShiftAndExecute, InFirst
<1>2. h \in Nat /\ Span \in Nat /\ 2 * h <= Span
  BY HalfIsWide
<1>3. ASSUME NEW i \in DOMAIN pending
      PROVE  pending[i].due \in 1 .. h - 1 /\ pending[i].due \in Nat
  <2>1. pending[i].due >= 1 /\ pending[i].due \in Nat /\ pending[i].due <= h - 1
    BY <1>1, NoneDue DEF ShiftAndExecute
  <2> DEFINE d == pending[i].due
  <2> HIDE DEF d, h
  <2> QED BY <1>2, <2>1 DEF d
<1>4. pending \in Pendings
  BY TypesAre DEF Inv
<1>5. /\ pending' = [i \in DOMAIN pending |->
                       [pending[i] EXCEPT !.due = IF @ = -1 THEN @ ELSE @ - 1]]
  BY DEF ShiftAndExecute, Overdue
<1>6. DOMAIN pending' = DOMAIN pending
  BY <1>5
<1>7. ASSUME NEW i \in DOMAIN pending
      PROVE  /\ pending'[i] = [pending[i] EXCEPT !.due = @ - 1]
             /\ pending'[i].timer = pending[i].timer
             /\ pending'[i].due = pending[i].due - 1
             /\ pending'[i] \in T
  <2> DEFINE r == pending[i]
  <2>1. r \in T
    BY <1>4, PendingIs
  <2>2. r.due # -1 /\ r.due - 1 \in -1 .. Span
    <3> DEFINE d == r.due
    <3>1. d \in 1 .. h - 1
      BY <1>3
    <3> HIDE DEF d, h
    <3>2. d # -1 /\ d - 1 \in -1 .. Span
      BY <1>2, <3>1
    <3> QED BY <3>2 DEF d
  <2>3. pending'[i] = [r EXCEPT !.due = IF r.due = -1 THEN r.due ELSE r.due - 1]
    BY <1>5
  <2> HIDE DEF r
  <2>4. pending'[i] = [r EXCEPT !.due = r.due - 1]
    BY <2>2, <2>3
  <2>5. /\ pending'[i].timer = r.timer /\ pending'[i].due = r.due - 1 /\ pending'[i] \in T
    BY <2>1, <2>2, <2>4
  <2> QED BY <2>4, <2>5 DEF r
<1>8. pending' \in Pendings
  <2>1. DOMAIN pending = 1 .. Len(pending) /\ Len(pending) \in Nat
    BY <1>4, PendingIs
  <2>2. \A i \in 1 .. Len(pending) : pending'[i] \in T
    BY <1>7, <2>1
  <2>3. pending' = [i \in 1 .. Len(pending) |-> pending'[i]]
    BY <1>5, <2>1
  <2> HIDE DEF T
  <2>4. pending' \in Seq(T)
    BY <2>1, <2>2, <2>3
  <2> QED BY <2>4 DEF Pendings, T
<1> QED BY <1>1, <1>3, <1>6, <1>7, <1>8

\* ShiftAndExecute keeps the invariant.
LEMMA ShiftInv ==
  ASSUME Inv, ShiftAndExecute
  PROVE  Inv'
<1> DEFINE ct == (time + 1) % Span
           w == Shifted(wheel, ct)
<1>1. /\ wheel \in Wheels /\ batch \in Seq(Timers) /\ time \in Times
      /\ expire \in [Timers -> Times] /\ pending \in Pendings
  BY TypesAre DEF Inv
<1>2. /\ batch = <<>> /\ pending' \in Pendings /\ DOMAIN pending' = DOMAIN pending
      /\ \A i \in DOMAIN pending : /\ pending[i].due \in 1 .. (Span \div 2) - 1
                                   /\ pending'[i].timer = pending[i].timer
                                   /\ pending'[i].due = pending[i].due - 1
  BY ShiftTicks
<1>3. /\ time' = ct /\ batch' = w[Due(ct)] /\ wheel' = [w EXCEPT ![Due(ct)] = <<>>]
      /\ pc' = (IF w[Due(ct)] = <<>> THEN "sleep" ELSE "second")
      /\ expire' = expire /\ _close' = _close
  BY DEF ShiftAndExecute
<1>4. \A i \in DOMAIN pending : pending[i].due >= 1
  BY <1>1, <1>2, NoneDue DEF ShiftAndExecute
<1>5. w \in Wheels /\ Placed(w, <<>>, ct, expire, pending)
  BY <1>1, <1>2, <1>4, Ticking DEF Inv
<1>6. ct \in Times
  <2> DEFINE h == Span \div 2
  <2>1. Window(4) \in Nat \ {0} /\ h \in Nat /\ Window(4) <= h
    BY HalfIsWide
  <2> HIDE DEF h
  <2>2. 0 \in 0 .. h - 1
    BY <2>1
  <2> QED BY <1>1, <2>2, DueTime DEF h
<1> HIDE DEF ct, w
<1>7. wheel' \in Wheels /\ batch' \in Seq(Timers) /\ Placed(wheel', batch', ct, expire, pending)
  BY <1>1, <1>3, <1>5, <1>6, Taking
<1>8. Placed(wheel', batch', time', expire', pending')
  BY <1>2, <1>3, <1>7, SameTimers
<1>9. Distinct(pending')
  BY <1>2 DEF Inv, Distinct
<1>10. Clock(time', expire', pending')
  <2> SUFFICES ASSUME NEW i \in DOMAIN pending
               PROVE  /\ pending[i].due - 1 \in 0 .. (Span \div 2) - 1
                      /\ expire[pending[i].timer] = (ct + (pending[i].due - 1)) % Span
    BY <1>2, <1>3 DEF Clock
  <2> DEFINE d == pending[i].due
             h == Span \div 2
  <2>1. d \in 1 .. h - 1 /\ expire[pending[i].timer] = (time + d) % Span
    BY <1>2 DEF Inv, Clock
  <2>2. h \in Nat
    BY HalfIsWide
  <2> HIDE DEF d, h
  <2>3. d \in 0 .. h - 1 /\ d >= 1 /\ d - 1 \in 0 .. h - 1
    BY <2>1, <2>2
  <2>4. (time + d) % Span = (ct + (d - 1)) % Span
    BY <1>1, <2>3, DueTime DEF ct, h
  <2> QED BY <2>1, <2>3, <2>4 DEF d, h
<1>11. TypeOK'
  BY <1>2, <1>3, <1>6, <1>7 DEF Inv, TypeOK, Wheels, Times, Pendings
<1>12. batch' # <<>> => pc' \in {"first", "second"}
  BY <1>3
<1> QED BY <1>8, <1>9, <1>10, <1>11, <1>12 DEF Inv

\* A callback runs: the oldest of the timers that are due is not pending any more.
LEMMA CallbackFires ==
  ASSUME Inv, Callback
  PROVE  \E i \in DOMAIN pending :
           /\ pending[i].timer = Head(batch) /\ pending[i].due = 0
           /\ \A j \in 1 .. i - 1 : pending[j].due > 0
           /\ pending' = RemoveAt(pending, i)
<1>1. /\ wheel \in Wheels /\ batch \in Seq(Timers) /\ time \in Times
      /\ expire \in [Timers -> Times] /\ pending \in Pendings
  BY TypesAre DEF Inv
<1>2. PICK i \in DOMAIN pending : /\ pending[i].timer = Head(batch) /\ pending[i].due = 0
                                  /\ \A j \in 1 .. i - 1 : pending[j].due > 0
  BY <1>1, OldestFires DEF Inv, Callback
<1> DEFINE h == Head(batch)
           I == {j \in 1 .. Len(pending) : pending[j].timer = h}
<1>3. Len(pending) \in Nat /\ DOMAIN pending = 1 .. Len(pending)
  BY <1>1, PendingIs
<1>4. I = {i}
  BY <1>2, <1>3 DEF Inv, Distinct
<1>5. Min(I) = i
  <2>1. \A x \in I : x = i
    BY <1>4
  <2> QED BY <1>3, <1>4 DEF Min
<1>6. pending' = IF \E j \in 1 .. Len(pending) : pending[j].timer = h
                   THEN RemoveAt(pending, IF I # {} THEN Min(I) ELSE 0) ELSE pending
  BY DEF Callback, RemoveFirstMatch, SelectInSeq
<1>7. \E j \in 1 .. Len(pending) : pending[j].timer = h
  BY <1>2, <1>3
<1>8. I # {}
  BY <1>4
<1> HIDE DEF I, h
<1>9. pending' = RemoveAt(pending, i)
  BY <1>5, <1>6, <1>7, <1>8
<1> QED BY <1>2, <1>9

\* Callback keeps the invariant.
LEMMA CallbackInv ==
  ASSUME Inv, Callback
  PROVE  Inv'
<1> DEFINE h == Head(batch)
<1>1. /\ wheel \in Wheels /\ batch \in Seq(Timers) /\ time \in Times
      /\ expire \in [Timers -> Times] /\ pending \in Pendings
  BY TypesAre DEF Inv
<1>2. PICK i \in DOMAIN pending : /\ pending[i].timer = h
                                  /\ pending' = RemoveAt(pending, i)
  BY CallbackFires
<1>3. /\ batch # <<>> /\ batch' = Tail(batch) /\ expire' = [expire EXCEPT ![h] = 0]
      /\ time' = time /\ wheel' = wheel /\ pc' = pc /\ _close' = _close
  BY DEF Callback
<1>4. h \in Timers /\ Tail(batch) \in Seq(Timers)
  BY <1>1, <1>3, HeadTailIs
<1>5. 0 \in Times
  BY HalfIsWide DEF Times
<1>6. /\ Placed(wheel, Tail(batch), time, [expire EXCEPT ![h] = 0], RemoveAt(pending, i))
      /\ Distinct(RemoveAt(pending, i))
      /\ \A j \in DOMAIN RemoveAt(pending, i) :
           /\ RemoveAt(pending, i)[j].timer # h
           /\ \E k \in DOMAIN pending : RemoveAt(pending, i)[j] = pending[k]
  <2>1. Placed(wheel, batch, time, expire, pending) /\ Distinct(pending)
    BY DEF Inv
  <2>2. Placed(wheel, Tail(batch), time, [expire EXCEPT ![Head(batch)] = 0], RemoveAt(pending, i))
    BY <1>1, <1>2, <1>3, <2>1, Firing
  <2>3. Distinct(RemoveAt(pending, i))
    BY <1>1, <1>2, <1>3, <2>1, Firing
  <2>4. \A j \in DOMAIN RemoveAt(pending, i) :
          /\ RemoveAt(pending, i)[j].timer # Head(batch)
          /\ \E k \in DOMAIN pending : RemoveAt(pending, i)[j] = pending[k]
    BY <1>1, <1>2, <1>3, <2>1, Firing
  <2> QED BY <2>2, <2>3, <2>4
<1>7. pending' \in Pendings
  BY <1>1, <1>2, RemoveAtIs
<1> HIDE DEF h
<1>8. expire' \in [Timers -> Times] /\ \A n \in Timers : n # h => expire'[n] = expire[n]
  BY <1>1, <1>3, <1>4, <1>5
<1>9. Clock(time', expire', pending')
  <2> SUFFICES ASSUME NEW j \in DOMAIN pending'
               PROVE  /\ pending'[j].due \in 0 .. (Span \div 2) - 1
                      /\ expire'[pending'[j].timer] = (time + pending'[j].due) % Span
    BY <1>3 DEF Clock
  <2>1. PICK k \in DOMAIN pending : pending'[j] = pending[k]
    BY <1>2, <1>6
  <2>2. pending'[j].timer # h /\ pending[k].timer \in Timers
    BY <1>1, <1>2, <1>6, PendingIs
  <2> QED BY <1>8, <2>1, <2>2 DEF Inv, Clock
<1>10. TypeOK'
  BY <1>3, <1>4, <1>7, <1>8 DEF Inv, TypeOK, Pendings, Times
<1>11. Placed(wheel', batch', time', expire', pending') /\ Distinct(pending')
  BY <1>2, <1>3, <1>6
<1>12. batch' # <<>> => pc' \in {"first", "second"}
  BY <1>3 DEF Inv
<1> QED BY <1>9, <1>10, <1>11, <1>12 DEF Inv

\* Every step keeps the invariant.
LEMMA StepInv == Inv /\ [Next]_vars => Inv'
<1> SUFFICES ASSUME Inv, [Next]_vars PROVE Inv'
  OBVIOUS
<1>1. CASE \E n \in Timers, d \in Delays : AddTimer(n, d)
  BY <1>1, AddTimerInv
<1>2. CASE ExecuteFirst
  <2>1. batch = <<>>
    BY <1>2 DEF Inv, ExecuteFirst, InFirst
  <2> QED BY <1>2, <2>1, ExecuteInv DEF ExecuteFirst
<1>3. CASE ShiftAndExecute
  BY <1>3, ShiftInv
<1>4. CASE ExecuteSecond
  BY <1>4, ExecuteInv DEF ExecuteSecond
<1>5. CASE Callback
  BY <1>5, CallbackInv
<1>6. CASE Leave
  BY <1>6 DEF Inv, TypeOK, Leave
<1>7. CASE Close
  BY <1>7 DEF Inv, TypeOK, Close
<1>8. CASE UNCHANGED vars
  BY <1>8 DEF Inv, TypeOK, vars
<1> QED BY <1>1, <1>2, <1>3, <1>4, <1>5, <1>6, <1>7, <1>8 DEF Next, TimerThread

\* Every state of the wheel has the invariant.
THEOREM Invariance == Spec => []Inv
<1> QED BY InitInv, StepInv, PTL DEF Spec

\* The variables have their types; in particular no timer is ever overdue.
THEOREM TypeCorrect == Spec => []TypeOK
<1>1. Inv => TypeOK
  BY DEF Inv
<1> QED BY <1>1, Invariance, PTL

-----------------------------------------------------------------------------
(* What follows for the slots.                                             *)

\* the places of a timer in the slots, and in the list whose callbacks run
InSlots(n) == UNION {{<<s, i>> : i \in Occurs(n, wheel[s])} : s \in Slots}
InBatch(n) == {<<"batch", i>> : i \in Occurs(n, batch)}

\* There are no other places.
LEMMA PlacesAre ==
  ASSUME NEW n
  PROVE  Places(n) = InBatch(n) \cup InSlots(n)
<1> QED BY Zenon DEF Places, InSlots, InBatch

\* Each timer that is pending is in one place, the others in none.
LEMMA InvOnePlace == Inv => OnePlace
<1> SUFFICES ASSUME Inv, NEW n \in Timers
             PROVE  IF Asked(n) THEN \E p \in Places(n) : Places(n) = {p} ELSE Places(n) = {}
  BY DEF OnePlace
<1> DEFINE slots == InSlots(n)
           list == InBatch(n)
<1>12. Places(n) = list \cup slots
  BY PlacesAre
<1>1. /\ wheel \in Wheels /\ batch \in Seq(Timers) /\ time \in Times
      /\ expire \in [Timers -> Times] /\ pending \in Pendings
  BY TypesAre DEF Inv
<1>2. /\ \A s \in Slots : wheel[s] \in Seq(Timers) /\ DOMAIN wheel[s] = 1 .. Len(wheel[s])
      /\ time \in Nat /\ Due(time) \in Slots
  BY <1>1, Typed
<1>3. \A m : Asked(m) <=> InUse(pending, m)
  BY DEF Asked, InUse
<1>4. ~Before(pending, n, n)
  BY <1>1, BeforeDiffers DEF Inv
<1>5. \A s \in Slots : \A x \in DOMAIN wheel[s] :
        wheel[s][x] = n => Asked(n) /\ SlotFor(expire[n], time) = s
  BY <1>3 DEF Inv, Placed, Located
<1>6. \A x \in DOMAIN batch : batch[x] = n => Asked(n) /\ expire[n] = time
  BY <1>3 DEF Inv, Placed, BatchDue
<1>7. ASSUME NEW s \in Slots, NEW x \in DOMAIN wheel[s], NEW y \in DOMAIN wheel[s],
             wheel[s][x] = n, wheel[s][y] = n
      PROVE  x = y
  <2>1. ~(x < y) /\ ~(y < x)
    BY <1>4, <1>7 DEF Inv, Placed, Ordered
  <2>2. x \in Nat /\ y \in Nat
    BY <1>2
  <2> QED BY <2>1, <2>2
<1>8. ASSUME NEW x \in DOMAIN batch, NEW y \in DOMAIN batch, batch[x] = n, batch[y] = n
      PROVE  x = y
  <2>1. ~(x < y) /\ ~(y < x)
    BY <1>4, <1>8 DEF Inv, Placed, BatchOrdered
  <2>2. x \in Nat /\ y \in Nat
    BY <1>1
  <2> QED BY <2>1, <2>2
<1>9. ASSUME NEW x \in DOMAIN batch, batch[x] = n, NEW s \in Slots, NEW y \in DOMAIN wheel[s],
             wheel[s][y] = n
      PROVE  FALSE
  <2>1. s = Due(time)
    BY <1>2, <1>5, <1>6, <1>9, DueSlot
  <2>2. Before(pending, n, n)
    BY <1>9, <2>1 DEF Inv, Placed, BatchOrdered
  <2> QED BY <1>4, <2>2
<1>10. CASE ~Asked(n)
  <2>1. slots = {}
    BY <1>5, <1>10 DEF Occurs, InSlots, InBatch
  <2>2. list = {}
    BY <1>6, <1>10 DEF Occurs, InSlots, InBatch
  <2> HIDE DEF slots, list
  <2> QED BY <1>10, <1>12, <2>1, <2>2
<1>11. CASE Asked(n)
  <2>1. Among(wheel[SlotFor(expire[n], time)], n) \/ Among(batch, n)
    BY <1>11 DEF Asked, Inv, Placed, Somewhere
  <2>2. CASE Among(batch, n)
    <3>1. PICK x \in DOMAIN batch : batch[x] = n
      BY <2>2 DEF Among
    <3>2. slots = {}
      BY <1>9, <3>1 DEF Occurs, InSlots, InBatch
    <3>3. list = {<<"batch", x>>}
      BY <1>8, <3>1 DEF Occurs, InSlots, InBatch
    <3> HIDE DEF slots, list
    <3>4. Places(n) = {<<"batch", x>>} /\ <<"batch", x>> \in Places(n)
      BY <1>12, <3>2, <3>3
    <3>5. \E p \in Places(n) : Places(n) = {p}
      BY <3>4
    <3> QED BY <1>11, <3>5
  <2>3. CASE Among(wheel[SlotFor(expire[n], time)], n)
    <3> DEFINE s == SlotFor(expire[n], time)
    <3>1. s \in Slots
      BY <1>1, <1>2, Typed, SlotForIs
    <3>2. PICK x \in DOMAIN wheel[s] : wheel[s][x] = n
      BY <2>3 DEF Among
    <3>3. \A r \in Slots : \A y \in DOMAIN wheel[r] : wheel[r][y] = n => r = s /\ y = x
      BY <1>5, <1>7, <3>1, <3>2
    <3> HIDE DEF s
    <3>4. list = {}
      BY <1>9, <3>1, <3>2 DEF Occurs, InSlots, InBatch
    <3>5. slots = {<<s, x>>}
      <4>1. x \in Occurs(n, wheel[s])
        BY <3>2 DEF Occurs, InSlots, InBatch
      <4>2. <<s, x>> \in slots
        BY <3>1, <4>1 DEF InSlots
      <4>3. \A t \in slots : t = <<s, x>>
        BY <3>3 DEF Occurs, InSlots, InBatch
      <4> HIDE DEF slots
      <4> QED BY <4>2, <4>3
    <3> HIDE DEF slots, list
    <3>6. Places(n) = {<<s, x>>} /\ <<s, x>> \in Places(n)
      BY <1>12, <3>4, <3>5
    <3>7. \E p \in Places(n) : Places(n) = {p}
      BY <3>6
    <3> QED BY <1>11, <3>7
  <2> QED BY <2>1, <2>2, <2>3
<1> QED BY <1>10, <1>11

\* The near slots hold what is still to come.
LEMMA InvNearIsAhead == Inv => NearIsAhead
<1> SUFFICES ASSUME Inv, NEW j \in 0 .. NEAR - 1, NEW i \in DOMAIN wheel[<<0, j>>]
             PROVE  LET tm == expire[wheel[<<0, j>>][i]]
                    IN  Digit(tm, 0) = j /\ SharesWindow(tm, time, 1) /\ tm >= time
  BY DEF NearIsAhead
<1> DEFINE n == wheel[<<0, j>>][i]
           tm == expire[n]
<1>1. /\ wheel \in Wheels /\ time \in Times /\ expire \in [Timers -> Times] /\ pending \in Pendings
  BY TypesAre DEF Inv
<1>2. <<0, j>> \in Slots
  BY DEF Slots, Size
<1>3. InUse(pending, n) /\ SlotFor(tm, time) = <<0, j>> /\ time \in Nat /\ tm \in Nat
  BY <1>1, <1>2, Typed DEF Inv, Placed, Located
<1>4. PICK k \in DOMAIN pending : pending[k].timer = n
  BY <1>3 DEF InUse
<1>5. pending[k].due \in 0 .. (Span \div 2) - 1 /\ tm = (time + pending[k].due) % Span
  BY <1>4 DEF Inv, Clock
<1> HIDE DEF tm
<1>6. LevelFor(tm, time) = 0 /\ Digit(tm, 0) = j
  BY <1>3 DEF SlotFor
<1>7. SharesWindow(tm, time, 1)
  BY <1>3, <1>6, LevelFits DEF Fits
<1>8. tm >= time
  BY <1>1, <1>5, <1>7, DueTime
<1> QED BY <1>6, <1>7, <1>8 DEF tm

\* No cascade of timer_shift loses, duplicates or keeps a node, and a near slot holds
\* just the timers of its tick.
THEOREM SlotsAreSound == Spec => []SlotsSound
<1>1. Inv => SlotsSound
  BY InvOnePlace, InvNearIsAhead DEF SlotsSound
<1> QED BY <1>1, Invariance, PTL

-----------------------------------------------------------------------------
(* The wheel implements TimerService.                                      *)

\* A step of the wheel adds a timer, lets a tick pass, fires the oldest timer that is
\* due, or is not seen.
LEMMA StepRefines == Inv /\ [Next]_vars => [Service!Next]_pending
<1> SUFFICES ASSUME Inv, [Next]_vars PROVE Service!Next \/ UNCHANGED pending
  OBVIOUS
<1>1. ASSUME NEW n \in Timers, NEW d \in Delays, AddTimer(n, d) PROVE Service!Next
  <2>1. Service!Add(n, d)
    BY <1>1 DEF AddTimer, Asked, Service!Add, Service!Asked
  <2> QED BY <2>1 DEF Service!Next
<1>2. CASE ShiftAndExecute
  <2>1. /\ DOMAIN pending' = DOMAIN pending
        /\ \A i \in DOMAIN pending : /\ pending[i].due \in 1 .. (Span \div 2) - 1
                                     /\ pending'[i] = [pending[i] EXCEPT !.due = @ - 1]
    BY <1>2, ShiftTicks
  <2>2. \A i \in DOMAIN pending : pending[i].due > 0
    <3> DEFINE h == Span \div 2
    <3>1. h \in Nat
      BY HalfIsWide
    <3> SUFFICES ASSUME NEW i \in DOMAIN pending PROVE pending[i].due > 0
      OBVIOUS
    <3> DEFINE d == pending[i].due
    <3>2. d \in 1 .. h - 1
      BY <2>1
    <3> HIDE DEF d, h
    <3>3. d > 0
      BY <3>1, <3>2
    <3> QED BY <3>3 DEF d
  <2>3. pending' = [i \in DOMAIN pending |-> pending'[i]]
    BY <1>2 DEF ShiftAndExecute
  <2>4. pending' = [i \in DOMAIN pending |-> [pending[i] EXCEPT !.due = @ - 1]]
    BY <2>1, <2>3
  <2>5. Service!Tick
    BY <2>2, <2>4 DEF Service!Tick
  <2> QED BY <2>5 DEF Service!Next
<1>3. CASE Callback
  <2>1. PICK i \in DOMAIN pending :
          /\ pending[i].timer = Head(batch) /\ pending[i].due = 0
          /\ \A j \in 1 .. i - 1 : pending[j].due > 0
          /\ pending' = RemoveAt(pending, i)
    BY <1>3, CallbackFires
  <2>2. Service!Fire(i)
    BY <2>1 DEF Service!Fire, RemoveAt, Service!RemoveAt
  <2> QED BY <2>2 DEF Service!Next
<1>4. CASE ExecuteFirst \/ ExecuteSecond \/ Leave \/ Close \/ UNCHANGED vars
  BY <1>4 DEF ExecuteFirst, ExecuteSecond, Leave, Close, vars
<1> QED BY <1>1, <1>2, <1>3, <1>4 DEF Next, TimerThread

\* Every timer fires once, after exactly its delay, those of one tick in the order in
\* which they were added: whatever the number of slots and timers.
THEOREM WheelImplementsService == Spec => FiresOnTimeInOrder
<1>1. Init => Service!Init
  BY DEF Init, Service!Init
<1> QED BY <1>1, StepRefines, Invariance, PTL DEF Spec, FiresOnTimeInOrder, Service!Spec

=============================================================================
