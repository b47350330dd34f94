----------------------------- MODULE PeerProofs -----------------------------
(***************************************************************************)
(* What one node writes for the other is what the other reads (peer.rs):   *)
(* decode undoes encode, for every correlation id, key, value and reply.   *)
(* Numbers travel in decimal, so this rests on an induction over the       *)
(* naturals, which is drawn from the least-element principle.  Put         *)
(* together with what is proved of frames, it gives the link between the   *)
(* servers: whatever open and decode make of a datagram is the message     *)
(* that the other node gave to encode and seal (FaithfulLink).             *)
(***************************************************************************)
EXTENDS SixSeven, FramesProofs, SequenceTheorems, WellFoundedInduction

(* The provers get time enough on a slow machine. *)
USE SMTT(30), ZenonT(30)

-----------------------------------------------------------------------------
(* Induction, over sets of naturals. *)

(* Every non-empty set of naturals has a least element. *)
LEMMA Least ==
    ASSUME NEW T, T \subseteq Nat, T # {}
    PROVE  \E x \in T : \A y \in T : x <= y
<1> DEFINE R == OpToRel(<, Nat)
<1>1. IsWellFoundedOn(R, Nat)
  BY NatLessThanWellFounded, Zenon
<1>2. \A y, x \in Nat : y < x => <<y, x>> \in R
  BY DEF OpToRel
<1> HIDE DEF R
<1>3. PICK x \in T : \A y \in T : ~ (<<y, x>> \in R)
  BY <1>1, WFMin, Zenon
<1>4. ASSUME NEW y \in T PROVE x <= y
  <2>1. x \in Nat /\ y \in Nat
    OBVIOUS
  <2>2. ~(y < x)
    BY <1>2, <1>3, <2>1, Zenon
  <2>3. QED
    BY <2>1, <2>2
<1>5. QED
  BY <1>4

(* A set that holds 0 and, with each number, the next holds all of them. *)
LEMMA Induction ==
    ASSUME NEW S, 0 \in S, \A n \in Nat : n \in S => n + 1 \in S
    PROVE  Nat \subseteq S
<1> DEFINE T == {n \in Nat : n \notin S}
<1>1. SUFFICES ASSUME T # {} PROVE FALSE
  OBVIOUS
<1>2. PICK x \in T : \A y \in T : x <= y
  BY <1>1, Least, Zenon
<1>3. x # 0 /\ x - 1 \in Nat /\ x - 1 \notin T
  BY <1>2
<1>4. QED
  BY <1>3

-----------------------------------------------------------------------------
(* Display of u64. *)

Digits == {Digit[i] : i \in 1..10}

(* The ten digits, and what each is worth. *)
LEMMA TenDigits ==
    ASSUME NEW d \in 0..9
    PROVE  Digit[d + 1] \in Digits /\ digit_value(Digit[d + 1]) = d
<1>1. \A i, j \in 1..10 : Digit[i] = Digit[j] => i = j
  BY DEF Digit
<1>2. d + 1 \in 1..10
  OBVIOUS
<1>3. (CHOOSE i \in 1..10 : Digit[i] = Digit[d + 1]) = d + 1
  BY <1>1, <1>2
<1>4. digit_value(Digit[d + 1]) = (d + 1) - 1
  BY <1>3, Zenon DEF digit_value
<1>5. QED
  BY <1>2, <1>4 DEF Digits

(* One step of the recursion. *)
Shown(f, n) == IF n < 10 THEN <<Digit[n + 1]>> ELSE Append(f[n \div 10], Digit[(n % 10) + 1])

Display(k) == {f \in [0..k -> Seq(Digits)] : \A i \in 0..k : f[i] = Shown(f, i)}

(* A number is its tens and its last digit, as Display of u64 takes it     *)
(* apart.                                                                  *)
LEMMA TensAndUnits ==
    ASSUME NEW n \in Nat
    PROVE  /\ n \div 10 \in Nat /\ n % 10 \in 0..9 /\ n = 10 * (n \div 10) + (n % 10)
           /\ ~(n < 10) => n \div 10 < n
  OBVIOUS

(* The recursion defines a sequence of digits for each number up to k ... *)
LEMMA DisplayExtends ==
    ASSUME NEW k \in Nat, NEW f \in Display(k)
    PROVE  \E g : g \in Display(k + 1)
<1> DEFINE g == [i \in 0..(k + 1) |-> Shown(f, i)]
<1>1. ASSUME NEW i \in 0..(k + 1), ~(i < 10) PROVE i \div 10 \in 0..k
  BY <1>1, TensAndUnits
<1>2. \A i \in 0..k : g[i] = f[i]
  BY DEF Display
<1>3. ASSUME NEW i \in 0..(k + 1) PROVE g[i] = Shown(g, i)
  <2>1. g[i] = Shown(f, i)
    OBVIOUS
  <2> HIDE DEF g
  <2>2. QED
    BY <1>1, <1>2, <2>1 DEF Shown
<1>4. ASSUME NEW i \in 0..(k + 1) PROVE g[i] \in Seq(Digits)
  <2>1. CASE i < 10
    <3>1. Digit[i + 1] \in Digits
      BY <2>1, TenDigits
    <3>2. QED
      BY <2>1, <3>1 DEF Shown
  <2>2. CASE ~(i < 10)
    <3>1. Digit[(i % 10) + 1] \in Digits
      BY TensAndUnits, TenDigits
    <3>2. f[i \div 10] \in Seq(Digits)
      BY <1>1, <2>2 DEF Display
    <3>3. QED
      BY <2>2, <3>1, <3>2 DEF Shown
  <2>3. QED
    BY <2>1, <2>2
<1>5. QED
  BY <1>3, <1>4, Zenon DEF Display

(* ... and only one: two such functions agree where both are defined. *)
LEMMA DisplaysAgree ==
    ASSUME NEW k \in Nat, NEW f \in Display(k), NEW m \in Nat, NEW g \in Display(m)
    PROVE  \A i \in 0..k : i \in 0..m => f[i] = g[i]
<1> DEFINE T == {i \in Nat : i <= k /\ i <= m /\ f[i] # g[i]}
<1>1. SUFFICES ASSUME T # {} PROVE FALSE
  OBVIOUS
<1>2. PICK i \in T : \A j \in T : i <= j
  BY <1>1, Least, Zenon
<1>3. i \in Nat /\ i \in 0..k /\ i \in 0..m /\ f[i] # g[i]
  OBVIOUS
<1>4. f[i] = Shown(f, i) /\ g[i] = Shown(g, i)
  BY <1>3 DEF Display
<1>5. ~(i < 10)
  BY <1>3, <1>4 DEF Shown
<1>6. i \div 10 \in Nat /\ i \div 10 < i
  BY <1>3, <1>5, TensAndUnits
<1>7. i \div 10 \notin T
  BY <1>2, <1>3, <1>6
<1>8. f[i \div 10] = g[i \div 10]
  BY <1>3, <1>6, <1>7
<1>9. QED
  BY <1>3, <1>4, <1>5, <1>8 DEF Shown

(* So decimal is what its definition says, a function on all of Nat. *)
LEMMA DecimalShows ==
    ASSUME NEW n \in Nat
    PROVE  decimal[n] = Shown(decimal, n) /\ decimal[n] \in Seq(Digits)
<1> DEFINE S == {k \in Nat : \E f : f \in Display(k)}
<1>1. 0 \in S
  <2> DEFINE f == [i \in 0..0 |-> <<Digit[1]>>]
  <2>1. Digit[1] \in Digits
    BY DEF Digits
  <2>2. f \in Display(0)
    BY <2>1 DEF Display, Shown
  <2>3. QED
    BY <2>2
<1>2. \A k \in Nat : k \in S => k + 1 \in S
  BY DisplayExtends
<1>3. Nat \subseteq S
  <2> HIDE DEF S
  <2>1. QED
    BY <1>1, <1>2, Induction
<1> DEFINE d == [k \in Nat |-> CHOOSE f : f \in Display(k)]
           all == [k \in Nat |-> d[k][k]]
<1>4. \A k \in Nat : d[k] \in Display(k)
  BY <1>3
<1> HIDE DEF d
<1>5. ASSUME NEW k \in Nat, NEW i \in 0..k PROVE all[i] = d[k][i]
  <2>1. i \in Nat /\ i \in 0..i
    OBVIOUS
  <2>2. d[i] \in Display(i) /\ d[k] \in Display(k)
    BY <1>4, <2>1
  <2>3. d[i][i] = d[k][i]
    BY <2>1, <2>2, DisplaysAgree
  <2>4. QED
    BY <2>1, <2>3
<1>6. ASSUME NEW k \in Nat PROVE all[k] = Shown(all, k) /\ all[k] \in Seq(Digits)
  <2>1. all[k] = d[k][k] /\ k \in 0..k
    OBVIOUS
  <2>2. d[k][k] = Shown(d[k], k) /\ d[k][k] \in Seq(Digits)
    BY <1>4, <2>1 DEF Display
  <2>3. ~(k < 10) => all[k \div 10] = d[k][k \div 10]
    <3>1. ~(k < 10) => k \div 10 \in 0..k
      BY TensAndUnits
    <3>2. QED
      BY <1>5, <3>1
  <2> HIDE DEF all
  <2>4. QED
    BY <2>1, <2>2, <2>3 DEF Shown
<1>7. all = [k \in Nat |-> Shown(all, k)]
  <2>1. all = [k \in Nat |-> all[k]]
    OBVIOUS
  <2> HIDE DEF all
  <2>2. QED
    BY <1>6, <2>1
<1>8. decimal = [k \in Nat |-> Shown(decimal, k)]
  <2> HIDE DEF all
  <2>1. \E f : f = [k \in Nat |-> Shown(f, k)]
    BY <1>7
  <2>2. decimal = CHOOSE f : f = [k \in Nat |-> Shown(f, k)]
    BY DEF decimal, Shown
  <2>3. QED
    BY <2>1, <2>2
<1> DEFINE T == {k \in Nat : decimal[k] \notin Seq(Digits)}
<1>9. T = {}
  <2>1. SUFFICES ASSUME T # {} PROVE FALSE
    OBVIOUS
  <2>2. PICK k \in T : \A j \in T : k <= j
    BY <2>1, Least, Zenon
  <2>3. k \in Nat /\ decimal[k] = Shown(decimal, k)
    <3>1. k \in Nat
      OBVIOUS
    <3>2. QED
      BY <1>8, <3>1
  <2>4. CASE k < 10
    <3>1. Digit[k + 1] \in Digits
      BY <2>3, <2>4, TenDigits
    <3>2. QED
      BY <2>3, <2>4, <3>1 DEF Shown
  <2>5. CASE ~(k < 10)
    <3>1. k \div 10 \in Nat /\ k \div 10 < k /\ k % 10 \in 0..9
      BY <2>3, <2>5, TensAndUnits
    <3>2. decimal[k \div 10] \in Seq(Digits)
      BY <2>2, <2>3, <3>1
    <3>3. Digit[(k % 10) + 1] \in Digits
      BY <3>1, TenDigits
    <3>4. decimal[k] = Append(decimal[k \div 10], Digit[(k % 10) + 1])
      BY <2>3, <2>5 DEF Shown
    <3>5. decimal[k] \in Seq(Digits)
      BY <3>2, <3>3, <3>4
    <3>6. QED
      BY <3>5
  <2>6. QED
    BY <2>4, <2>5
<1>10. decimal[n] = Shown(decimal, n)
  BY <1>8
<1>11. QED
  BY <1>9, <1>10

(* Display never writes nothing. *)
LEMMA DecimalNotEmpty ==
    ASSUME NEW n \in Nat
    PROVE  Len(decimal[n]) \in Nat /\ Len(decimal[n]) >= 1
<1>1. decimal[n] = Shown(decimal, n) /\ decimal[n] \in Seq(Digits)
  BY DecimalShows
<1>2. CASE n < 10
  <2>1. decimal[n] = <<Digit[n + 1]>>
    BY <1>1, <1>2 DEF Shown
  <2>2. QED
    BY <2>1
<1>3. CASE ~(n < 10)
  <2>1. /\ n \div 10 \in Nat /\ n % 10 \in 0..9
        /\ decimal[n] = Append(decimal[n \div 10], Digit[(n % 10) + 1])
    BY <1>1, <1>3, TensAndUnits DEF Shown
  <2>2. decimal[n \div 10] \in Seq(Digits) /\ Digit[(n % 10) + 1] \in Digits
    BY <2>1, DecimalShows, TenDigits, Zenon
  <2>3. QED
    BY <2>1, <2>2
<1>4. QED
  BY <1>2, <1>3

-----------------------------------------------------------------------------
(* FromStr of u64. *)

(* The value of the first i digits of s, by way of that of one fewer. *)
Worth(f, s, i) == IF i = 0 THEN 0 ELSE 10 * f[i - 1] + digit_value(s[i])

Reading(s, k) == {f \in [0..k -> Nat] : \A i \in 0..k : f[i] = Worth(f, s, i)}

(* FromStr of u64 gives every digit a value from 0 to 9. *)
LEMMA DigitsHaveValue ==
    ASSUME NEW c \in Digits
    PROVE  digit_value(c) \in 0..9
<1>1. PICK i \in 1..10 : c = Digit[i]
  BY DEF Digits
<1>2. i - 1 \in 0..9 /\ (i - 1) + 1 = i
  OBVIOUS
<1>3. QED
  BY <1>1, <1>2, TenDigits

(* Reading one digit more of a text extends what was read. *)
LEMMA ReadingExtends ==
    ASSUME NEW s \in Seq(Digits), NEW k \in Nat, k + 1 <= Len(s), NEW f \in Reading(s, k)
    PROVE  \E g : g \in Reading(s, k + 1)
<1> DEFINE last == 10 * f[k] + digit_value(s[k + 1])
           g == [i \in 0..(k + 1) |-> IF i = k + 1 THEN last ELSE f[i]]
<1>1. f \in [0..k -> Nat] /\ \A i \in 0..k : f[i] = Worth(f, s, i)
  BY DEF Reading
<1>2. s[k + 1] \in Digits
  OBVIOUS
<1>3. last \in Nat
  <2>1. f[k] \in Nat /\ digit_value(s[k + 1]) \in 0..9
    BY <1>1, <1>2, DigitsHaveValue
  <2>2. QED
    BY <2>1, SMTT(30)
<1>4. g[k + 1] = last /\ \A i \in 0..k : g[i] = f[i]
  OBVIOUS
<1>5. g \in [0..(k + 1) -> Nat]
  BY <1>1, <1>3
<1> HIDE DEF g
<1>6. ASSUME NEW i \in 0..(k + 1) PROVE g[i] = Worth(g, s, i)
  <2>1. CASE i = k + 1
    <3>1. i # 0 /\ i - 1 = k /\ g[k] = f[k]
      BY <1>4, <2>1
    <3>2. QED
      BY <1>4, <2>1, <3>1 DEF Worth
  <2>2. CASE i \in 0..k
    <3>1. i # 0 => g[i - 1] = f[i - 1]
      BY <1>4, <2>2
    <3>2. QED
      BY <1>1, <1>4, <2>2, <3>1 DEF Worth
  <2>3. QED
    BY <2>1, <2>2
<1>7. QED
  BY <1>5, <1>6, Zenon DEF Reading

(* The digits of s have a value ... *)
LEMMA ReadingExists ==
    ASSUME NEW s \in Seq(Digits)
    PROVE  \E f : f \in Reading(s, Len(s))
<1> DEFINE S == {k \in Nat : k <= Len(s) => \E f : f \in Reading(s, k)}
<1>1. 0 \in S
  <2>1. [i \in 0..0 |-> 0] \in Reading(s, 0)
    BY DEF Reading, Worth
  <2>2. QED
    BY <2>1
<1>2. \A k \in Nat : k \in S => k + 1 \in S
  BY ReadingExtends
<1>3. Nat \subseteq S
  <2> HIDE DEF S
  <2>1. QED
    BY <1>1, <1>2, Induction
<1>4. Len(s) \in Nat /\ Len(s) <= Len(s)
  OBVIOUS
<1>5. QED
  BY <1>3, <1>4

(* ... and one only. *)
LEMMA ReadingsAgree ==
    ASSUME NEW s, NEW t, NEW k \in Nat, NEW m \in Nat, k <= m,
           \A i \in 1..k : s[i] = t[i],
           NEW f \in Reading(s, k), NEW g \in Reading(t, m)
    PROVE  f[k] = g[k]
<1> DEFINE S == {i \in Nat : i <= k => f[i] = g[i]}
<1>1. /\ \A i \in 0..k : f[i] = Worth(f, s, i)
      /\ \A i \in 0..m : g[i] = Worth(g, t, i)
  BY DEF Reading
<1>2. 0 \in S
  BY <1>1 DEF Worth
<1>3. ASSUME NEW i \in Nat, i \in S PROVE i + 1 \in S
  <2>1. SUFFICES ASSUME i + 1 <= k PROVE f[i + 1] = g[i + 1]
    OBVIOUS
  <2>2. f[i] = g[i] /\ s[i + 1] = t[i + 1] /\ (i + 1) - 1 = i /\ i + 1 # 0
    BY <1>3, <2>1
  <2>3. f[i + 1] = Worth(f, s, i + 1) /\ g[i + 1] = Worth(g, t, i + 1)
    BY <1>1, <2>1
  <2>4. QED
    BY <2>2, <2>3 DEF Worth
<1>4. Nat \subseteq S
  <2> HIDE DEF S
  <2>1. QED
    BY <1>2, <1>3, Induction
<1>5. QED
  BY <1>4

(* parse_u64 computes it. *)
LEMMA ParseReads ==
    ASSUME NEW s \in Seq(Digits)
    PROVE  \E f \in Reading(s, Len(s)) : parse_u64(s) = f[Len(s)]
<1> DEFINE R(f) == f = [i \in 0..Len(s) |-> Worth(f, s, i)]
           read == CHOOSE f : R(f)
<1>1. parse_u64(s) = read[Len(s)]
  BY DEF parse_u64, Worth
<1>2. PICK g : g \in Reading(s, Len(s))
  BY ReadingExists
<1>3. R(g)
  BY <1>2 DEF Reading
<1>4. R(read)
  <2> HIDE DEF R
  <2>1. QED
    BY <1>3
<1>5. DOMAIN read = 0..Len(s) /\ \A i \in 0..Len(s) : read[i] = Worth(read, s, i)
  BY <1>4, Zenon
<1> HIDE DEF read
<1>6. \A i \in Nat : i <= Len(s) => read[i] = g[i]
  <2> DEFINE S == {i \in Nat : i <= Len(s) => read[i] = g[i]}
  <2>1. 0 \in S
    BY <1>2, <1>5 DEF Worth, Reading
  <2>2. ASSUME NEW i \in Nat, i \in S PROVE i + 1 \in S
    <3>1. SUFFICES ASSUME i + 1 <= Len(s) PROVE read[i + 1] = g[i + 1]
      OBVIOUS
    <3>2. read[i] = g[i] /\ (i + 1) - 1 = i /\ i + 1 # 0 /\ i + 1 \in 0..Len(s)
      BY <2>2, <3>1
    <3>3. read[i + 1] = Worth(read, s, i + 1) /\ g[i + 1] = Worth(g, s, i + 1)
      BY <1>2, <1>5, <3>2 DEF Reading
    <3>4. QED
      BY <3>2, <3>3 DEF Worth
  <2>3. Nat \subseteq S
    <3> HIDE DEF S
    <3>1. QED
      BY <2>1, <2>2, Induction
  <2>4. QED
    BY <2>3
<1>7. Len(s) \in Nat /\ Len(s) <= Len(s)
  OBVIOUS
<1>8. QED
  BY <1>1, <1>2, <1>6, <1>7

(* One more digit. *)
LEMMA ParseAppend ==
    ASSUME NEW s \in Seq(Digits), NEW c \in Digits
    PROVE  /\ parse_u64(s) \in Nat
           /\ parse_u64(Append(s, c)) = 10 * parse_u64(s) + digit_value(c)
<1> DEFINE t == Append(s, c)
           n == Len(s)
<1>1. t \in Seq(Digits) /\ Len(t) = n + 1 /\ t[n + 1] = c /\ \A i \in 1..n : t[i] = s[i]
  OBVIOUS
<1>2. n \in Nat /\ n + 1 # 0 /\ (n + 1) - 1 = n /\ n + 1 \in 0..(n + 1) /\ n <= n + 1
  OBVIOUS
<1>3. PICK f \in Reading(s, n) : parse_u64(s) = f[n]
  BY ParseReads
<1> HIDE DEF t, n
<1>4. PICK g \in Reading(t, n + 1) : parse_u64(t) = g[n + 1]
  BY <1>1, ParseReads
<1>5. f[n] = g[n]
  BY <1>1, <1>2, ReadingsAgree
<1>6. g[n + 1] = Worth(g, t, n + 1)
  BY <1>2 DEF Reading
<1>7. f[n] \in Nat
  BY <1>2 DEF Reading
<1>8. QED
  BY <1>1, <1>2, <1>3, <1>4, <1>5, <1>6, <1>7 DEF Worth, t

(* No digit is worth nothing. *)
LEMMA ParseEmpty == parse_u64(<<>>) = 0
<1>1. <<>> \in Seq(Digits) /\ Len(<<>>) = 0
  OBVIOUS
<1>2. PICK f \in Reading(<<>>, 0) : parse_u64(<<>>) = f[0]
  BY <1>1, ParseReads, Zenon
<1>3. QED
  BY <1>2 DEF Reading, Worth

(* FromStr undoes Display. *)
LEMMA DecimalParses ==
    ASSUME NEW n \in Nat
    PROVE  parse_u64(decimal[n]) = n
<1> DEFINE T == {k \in Nat : parse_u64(decimal[k]) # k}
<1>1. SUFFICES ASSUME T # {} PROVE FALSE
  OBVIOUS
<1>2. PICK k \in T : \A j \in T : k <= j
  BY <1>1, Least, Zenon
<1>3. k \in Nat /\ parse_u64(decimal[k]) # k
  OBVIOUS
<1>4. decimal[k] = Shown(decimal, k)
  BY <1>3, DecimalShows
<1>5. CASE k < 10
  <2>1. Digit[k + 1] \in Digits /\ digit_value(Digit[k + 1]) = k
    BY <1>3, <1>5, TenDigits
  <2>2. decimal[k] = Append(<<>>, Digit[k + 1])
    BY <1>4, <1>5 DEF Shown
  <2>3. <<>> \in Seq(Digits)
    OBVIOUS
  <2>4. parse_u64(Append(<<>>, Digit[k + 1]))
           = 10 * parse_u64(<<>>) + digit_value(Digit[k + 1])
    BY <2>1, <2>3, ParseAppend, Zenon
  <2>5. parse_u64(decimal[k]) = 10 * 0 + k
    BY <2>1, <2>2, <2>4, ParseEmpty
  <2>6. QED
    BY <1>3, <2>5
<1>6. CASE ~(k < 10)
  <2> DEFINE tens == k \div 10
             unit == Digit[(k % 10) + 1]
  <2>1. tens \in Nat /\ tens < k /\ k % 10 \in 0..9 /\ k = 10 * tens + (k % 10)
    BY <1>3, <1>6, TensAndUnits
  <2>2. unit \in Digits /\ digit_value(unit) = k % 10
    BY <2>1, TenDigits
  <2>3. decimal[tens] \in Seq(Digits)
    BY <2>1, DecimalShows
  <2>4. decimal[k] = Append(decimal[tens], unit)
    BY <1>4, <1>6 DEF Shown
  <2> HIDE DEF tens, unit
  <2>5. parse_u64(decimal[tens]) = tens
    BY <1>2, <1>3, <2>1
  <2>6. parse_u64(decimal[k]) = 10 * tens + (k % 10)
    BY <2>2, <2>3, <2>4, <2>5, ParseAppend
  <2>7. QED
    BY <1>3, <2>1, <2>6
<1>7. QED
  BY <1>5, <1>6

(* A number as written is a u64 as read. *)
LEMMA DecimalIsU64 ==
    ASSUME NEW n \in Nat
    PROVE  is_u64(decimal[n])
<1>1. decimal[n] \in Seq(Digits) /\ Len(decimal[n]) >= 1
  BY DecimalShows, DecimalNotEmpty
<1>2. Digits \subseteq Range(Digit)
  BY DEF Digits, Range, Digit
<1>3. decimal[n] # <<>>
  BY <1>1
<1>4. QED
  BY <1>1, <1>2, <1>3 DEF is_u64

-----------------------------------------------------------------------------
(* Cutting text at separators. *)

(* split_once finds the first separator. *)
LEMMA SplitsAtFirst ==
    ASSUME NEW Char, NEW s \in Seq(Char), NEW seps, NEW i \in 1..Len(s), s[i] \in seps,
           \A j \in 1..(i - 1) : s[j] \notin seps
    PROVE  split_once(s, seps) = [found |-> TRUE, left |-> SubSeq(s, 1, i - 1),
                                  right |-> SubSeq(s, i + 1, Len(s))]
<1> DEFINE I == {j \in 1..Len(s) : s[j] \in seps}
<1>1. i \in I /\ \A j \in I : i <= j
  OBVIOUS
<1>2. I \subseteq Int
  OBVIOUS
<1>3. {j \in DOMAIN s : s[j] \in seps} = I
  OBVIOUS
<1> HIDE DEF I
<1>4. Min(I) = i
  <2>1. Min(I) \in I /\ \A j \in I : Min(I) <= j
    BY <1>1, Zenon DEF Min
  <2>2. Min(I) \in Int /\ i \in Int /\ i <= Min(I) /\ Min(I) <= i
    BY <1>1, <1>2, <2>1, Zenon
  <2>3. QED
    BY <2>2
<1>5. QED
  BY <1>1, <1>3, <1>4, Zenon DEF split_once

-----------------------------------------------------------------------------
(* What was joined at a separator is cut there. *)
LEMMA SplitsJoined ==
    ASSUME NEW Char, NEW a \in Seq(Char), NEW b \in Seq(Char), NEW c \in Char, NEW seps,
           c \in seps, \A i \in 1..Len(a) : a[i] \notin seps
    PROVE  split_once(a \o (<<c>> \o b), seps) = [found |-> TRUE, left |-> a, right |-> b]
<1> DEFINE s == a \o (<<c>> \o b)
           n == Len(a)
<1>1. /\ n \in Nat /\ Len(b) \in Nat /\ s \in Seq(Char) /\ Len(s) = n + 1 + Len(b)
      /\ \A i \in 1..n : s[i] = a[i]
      /\ s[n + 1] = c
      /\ \A i \in 1..Len(b) : s[n + 1 + i] = b[i]
  OBVIOUS
<1> HIDE DEF s
<1>2. n + 1 \in 1..Len(s) /\ s[n + 1] \in seps /\ \A j \in 1..((n + 1) - 1) : s[j] \notin seps
  <2>1. (n + 1) - 1 = n /\ n + 1 \in 1..Len(s)
    BY <1>1
  <2>2. \A j \in 1..n : s[j] \notin seps
    BY <1>1, Zenon DEF n
  <2>3. s[n + 1] \in seps
    BY <1>1, Zenon
  <2> HIDE DEF n
  <2>4. QED
    BY <2>1, <2>2, <2>3
<1>3. split_once(s, seps) = [found |-> TRUE, left |-> SubSeq(s, 1, (n + 1) - 1),
                             right |-> SubSeq(s, (n + 1) + 1, Len(s))]
  BY <1>1, <1>2, SplitsAtFirst, Zenon
<1>4. SubSeq(s, 1, (n + 1) - 1) = a
  <2>1. \A i \in 1..((n + 1) - 1) : s[i] \in Char
    BY <1>1
  <2> DEFINE t == SubSeq(s, 1, (n + 1) - 1)
  <2>2. t \in Seq(Char) /\ Len(t) = n /\ \A i \in 1..n : t[i] = s[i]
    BY <1>1, <2>1, SubSeqProperties
  <2> HIDE DEF t
  <2>3. QED
    BY <1>1, <2>2, SeqEqual DEF t
<1>5. SubSeq(s, (n + 1) + 1, Len(s)) = b
  <2>1. \A i \in ((n + 1) + 1)..Len(s) : s[i] \in Char
    BY <1>1
  <2> DEFINE t == SubSeq(s, (n + 1) + 1, Len(s))
  <2>2. t \in Seq(Char) /\ Len(t) = Len(b) /\ \A i \in 1..Len(b) : t[i] = s[n + 1 + i]
    BY <1>1, <2>1, SubSeqProperties
  <2> HIDE DEF t
  <2>3. QED
    BY <1>1, <2>2, SeqEqual DEF t
<1>6. QED
  BY <1>3, <1>4, <1>5, Zenon DEF s

(* Text without a separator is not cut. *)
LEMMA SplitsNothing ==
    ASSUME NEW Char, NEW s \in Seq(Char), NEW seps, \A i \in 1..Len(s) : s[i] \notin seps
    PROVE  split_once(s, seps) = [found |-> FALSE, left |-> s, right |-> <<>>]
<1> DEFINE I == {j \in 1..Len(s) : s[j] \in seps}
<1>1. I = {}
  OBVIOUS
<1>2. {j \in DOMAIN s : s[j] \in seps} = I
  OBVIOUS
<1> HIDE DEF I
<1>3. QED
  BY <1>1, <1>2 DEF split_once

(* A number has no white space, inside or around it. *)
LEMMA DigitsAreNoSpace == Digits \cap whitespace = {}
  BY DEF Digits, Digit, whitespace, SP, LF, CR

(* A text of digits is left alone by trim. *)
LEMMA DigitsNotTrimmed ==
    ASSUME NEW s \in Seq(Digits), Len(s) >= 1
    PROVE  trim(s) = s
<1> DEFINE I == {i \in 1..Len(s) : s[i] \notin whitespace}
<1>1. \A i \in 1..Len(s) : s[i] \notin whitespace
  BY DigitsAreNoSpace
<1>2. 1 \in I /\ Len(s) \in I /\ I \subseteq Int /\ \A i \in I : 1 <= i /\ i <= Len(s)
  BY <1>1
<1>3. {i \in DOMAIN s : s[i] \notin whitespace} = I
  OBVIOUS
<1> HIDE DEF I
<1>4. Min(I) = 1
  <2>1. Min(I) \in I /\ \A j \in I : Min(I) <= j
    BY <1>2, Zenon DEF Min
  <2>2. Min(I) \in Int /\ 1 <= Min(I) /\ Min(I) <= 1
    BY <1>2, <2>1, Zenon
  <2>3. QED
    BY <2>2
<1>5. Max(I) = Len(s)
  <2>1. Max(I) \in I /\ \A j \in I : Max(I) >= j
    BY <1>2, Zenon DEF Max
  <2>2. Max(I) \in Int /\ Len(s) \in Int /\ Len(s) <= Max(I) /\ Max(I) <= Len(s)
    BY <1>2, <2>1, Zenon
  <2>3. QED
    BY <2>2
<1>6. SubSeq(s, 1, Len(s)) = s
  BY SubSeqFull
<1>7. trim_start(s, whitespace) = s
  <2>1. trim_start(s, whitespace) = IF I = {} THEN <<>> ELSE SubSeq(s, Min(I), Len(s))
    BY <1>3, Zenon DEF trim_start
  <2>2. QED
    BY <1>2, <1>4, <1>6, <2>1
<1>8. trim_end(s, whitespace) = s
  <2>1. trim_end(s, whitespace) = IF I = {} THEN <<>> ELSE SubSeq(s, 1, Max(I))
    BY <1>3, Zenon DEF trim_end
  <2>2. QED
    BY <1>2, <1>5, <1>6, <2>1
<1>9. QED
  BY <1>7, <1>8 DEF trim

(* A number after its key word, as with_key reads it. *)
LEMMA DecimalWithKey ==
    ASSUME NEW n \in Nat, NEW verb, NEW value
    PROVE  with_key(decimal[n], verb, value)
              = accepted([verb |-> verb, key |-> n, value |-> value])
<1>1. decimal[n] \in Seq(Digits) /\ Len(decimal[n]) >= 1
  BY DecimalShows, DecimalNotEmpty
<1>2. trim(decimal[n]) = decimal[n] /\ decimal[n] # <<>>
  BY <1>1, DigitsNotTrimmed
<1>3. is_u64(decimal[n]) /\ parse_u64(decimal[n]) = n
  BY DecimalIsU64, DecimalParses
<1>4. QED
  BY <1>2, <1>3 DEF with_key

-----------------------------------------------------------------------------
(* The line format of peer.rs. *)

(* A word and a space in front of some text are cut off as that word. *)
LEMMA WordCutOff ==
    ASSUME NEW Char, NEW word, word # SP, NEW rest \in Seq(Char)
    PROVE  split_once(<<word, SP>> \o rest, space)
              = [found |-> TRUE, left |-> <<word>>, right |-> rest]
<1> DEFINE All == Char \cup {word, SP}
<1>1. <<word>> \in Seq(All) /\ rest \in Seq(All) /\ SP \in All /\ SP \in space
  BY DEF space
<1>2. Len(<<word>>) = 1 /\ \A i \in 1..Len(<<word>>) : <<word>>[i] \notin space
  BY DEF space
<1>3. <<word, SP>> \o rest = <<word>> \o (<<SP>> \o rest)
  <2>1. <<word, SP>> = <<word>> \o <<SP>>
    OBVIOUS
  <2>2. <<SP>> \in Seq(All)
    OBVIOUS
  <2> HIDE DEF All
  <2>3. (<<word>> \o <<SP>>) \o rest = <<word>> \o (<<SP>> \o rest)
    BY <1>1, <2>2, ConcatAssociative
  <2>4. QED
    BY <2>1, <2>3, Zenon
<1> HIDE DEF All
<1>4. split_once(<<word>> \o (<<SP>> \o rest), space)
         = [found |-> TRUE, left |-> <<word>>, right |-> rest]
  BY <1>1, <1>2, SplitsJoined, Zenon
<1>5. QED
  BY <1>3, <1>4, Zenon

(* So is a number. *)
LEMMA NumberCutOff ==
    ASSUME NEW Char, NEW n \in Nat, NEW rest \in Seq(Char)
    PROVE  split_once(decimal[n] \o (<<SP>> \o rest), space)
              = [found |-> TRUE, left |-> decimal[n], right |-> rest]
<1> DEFINE All == Char \cup Digits \cup {SP}
<1>1. decimal[n] \in Seq(Digits)
  BY DecimalShows
<1>2. /\ decimal[n] \in Seq(All) /\ rest \in Seq(All) /\ SP \in All /\ SP \in space
      /\ \A i \in 1..Len(decimal[n]) : decimal[n][i] \in Digits
  BY <1>1 DEF space
<1>3. \A i \in 1..Len(decimal[n]) : decimal[n][i] \notin space
  BY <1>2, DigitsAreNoSpace, Zenon DEF space, whitespace
<1> HIDE DEF All
<1>4. QED
  BY <1>2, <1>3, SplitsJoined

(* A number on its own has no separator for split_once to find. *)
LEMMA NumberAlone ==
    ASSUME NEW n \in Nat
    PROVE  split_once(decimal[n], space)
              = [found |-> FALSE, left |-> decimal[n], right |-> <<>>]
<1>1. decimal[n] \in Seq(Digits)
  BY DecimalShows
<1>2. \A i \in 1..Len(decimal[n]) : decimal[n][i] \in Digits
  BY <1>1
<1>3. \A i \in 1..Len(decimal[n]) : decimal[n][i] \notin space
  BY <1>2, DigitsAreNoSpace, Zenon DEF space, whitespace
<1>4. QED
  BY <1>1, <1>3, SplitsNothing, Zenon

(* Joining four pieces from the left is joining them from the right.  The  *)
(* join is named so that the provers match it as it stands.                *)
Join(a, b) == a \o b

(* Texts may be joined in any order of joining. *)
LEMMA JoinAssociative ==
    ASSUME NEW S, NEW a \in Seq(S), NEW b \in Seq(S), NEW c \in Seq(S)
    PROVE  Join(a, b) \in Seq(S) /\ Join(Join(a, b), c) = Join(a, Join(b, c))
  BY DEF Join

(* The same for the four parts of a message. *)
LEMMA JoinsRegroup ==
    ASSUME NEW S, NEW a \in Seq(S), NEW b \in Seq(S), NEW c \in Seq(S), NEW d \in Seq(S)
    PROVE  Join(Join(Join(a, b), c), d) = Join(a, Join(b, Join(c, d)))
<1>1. Join(a, b) \in Seq(S) /\ Join(c, d) \in Seq(S)
  BY JoinAssociative
<1>2. Join(Join(Join(a, b), c), d) = Join(Join(a, b), Join(c, d))
  BY <1>1, JoinAssociative
<1>3. Join(Join(a, b), Join(c, d)) = Join(a, Join(b, Join(c, d)))
  BY <1>1, JoinAssociative
<1>4. QED
  BY <1>2, <1>3

(* A message is its kind, its correlation id and the rest, and decode      *)
(* finds all three again.                                                  *)
Line(kind, n, rest) == <<kind, SP>> \o decimal[n] \o <<SP>> \o rest

(* decode cuts a message where encode joined it: kind, correlation id,     *)
(* rest.                                                                   *)
LEMMA MessageCut ==
    ASSUME NEW Char, NEW corr \in Nat, NEW rest \in Seq(Char), NEW kind, kind # SP
    PROVE  LET head == split_once(Line(kind, corr, rest), space)
               tail == split_once(head.right, space)
           IN  /\ head.found /\ head.left = <<kind>>
               /\ tail.left = decimal[corr] /\ tail.right = rest
               /\ is_u64(tail.left) /\ parse_u64(tail.left) = corr
<1> DEFINE All == Char \cup Digits \cup {SP, kind}
           after == decimal[corr] \o (<<SP>> \o rest)
<1>1. decimal[corr] \in Seq(Digits)
  BY DecimalShows
<1>2. /\ <<kind, SP>> \in Seq(All) /\ decimal[corr] \in Seq(All) /\ <<SP>> \in Seq(All)
      /\ rest \in Seq(All)
  BY <1>1
<1>3. <<SP>> \o rest \in Seq(All) /\ after \in Seq(All)
  BY <1>2
<1> HIDE DEF All
<1>4. <<kind, SP>> \o decimal[corr] \o <<SP>> \o rest = <<kind, SP>> \o after
  <2> DEFINE front == <<kind, SP>>
             gap == <<SP>>
  <2>1. front \in Seq(All) /\ gap \in Seq(All)
    BY <1>2
  <2> HIDE DEF front, gap
  <2>2. Join(Join(Join(front, decimal[corr]), gap), rest)
           = Join(front, Join(decimal[corr], Join(gap, rest)))
    BY <1>2, <2>1, JoinsRegroup
  <2>3. QED
    BY <2>2, Zenon DEF front, gap, Join
<1>5. split_once(after, space) = [found |-> TRUE, left |-> decimal[corr], right |-> rest]
  BY NumberCutOff
<1> HIDE DEF after
<1>6. split_once(<<kind, SP>> \o after, space)
         = [found |-> TRUE, left |-> <<kind>>, right |-> after]
  BY <1>3, WordCutOff
<1>7. is_u64(decimal[corr]) /\ parse_u64(decimal[corr]) = corr
  BY DecimalIsU64, DecimalParses
<1> DEFINE head == split_once(Line(kind, corr, rest), space)
           tail == split_once(head.right, space)
<1>8. head = [found |-> TRUE, left |-> <<kind>>, right |-> after]
  BY <1>4, <1>6, Zenon DEF Line
<1> HIDE DEF head
<1>9. tail = [found |-> TRUE, left |-> decimal[corr], right |-> rest]
  <2>1. head.right = after
    BY <1>8
  <2>2. QED
    BY <1>5, <2>1, Zenon
<1> HIDE DEF tail
<1>10. head.found /\ head.left = <<kind>> /\ tail.left = decimal[corr] /\ tail.right = rest
  BY <1>8, <1>9
<1>11. is_u64(tail.left) /\ parse_u64(tail.left) = corr
  BY <1>7, <1>10, Zenon
<1>12. QED
  BY <1>10, <1>11, Zenon DEF tail, head

-----------------------------------------------------------------------------
(* What the two nodes say to each other comes back as it was said. *)

Operations(Char) ==
    {Get(k) : k \in Nat} \cup {Rm(k) : k \in Nat} \cup {Put(k, v) : k \in Nat, v \in Seq(Char)}

Replies(Char) == {Ok, Nil} \cup {Value(v) : v \in Seq(Char)} \cup {Err(v) : v \in Seq(Char)}

(* The verbs that encode writes are in capitals already. *)
LEMMA VerbsInCapitals ==
    ASSUME NEW word \in {"GET", "RM", "PUT"}
    PROVE  to_ascii_uppercase(<<word>>) = <<word>>
<1> DEFINE pairs == {<<"get", "GET">>, <<"put", "PUT">>, <<"set", "SET">>,
                     <<"rm", "RM">>, <<"del", "DEL">>}
           up(c) == IF \E p \in pairs : p[1] = c THEN (CHOOSE p \in pairs : p[1] = c)[2] ELSE c
<1>1. \A p \in pairs : p[1] \in {"get", "put", "set", "rm", "del"}
  OBVIOUS
<1>2. up(word) = word
  BY <1>1
<1> HIDE DEF pairs
<1>3. to_ascii_uppercase(<<word>>) = [i \in DOMAIN <<word>> |-> up(<<word>>[i])]
  BY Zenon DEF to_ascii_uppercase, pairs
<1> HIDE DEF up
<1>4. DOMAIN <<word>> = {1} /\ <<word>>[1] = word
  OBVIOUS
<1>5. [i \in DOMAIN <<word>> |-> up(<<word>>[i])] = [i \in {1} |-> word]
  BY <1>2, <1>4
<1>6. [i \in {1} |-> word] = <<word>>
  OBVIOUS
<1>7. QED
  BY <1>3, <1>5, <1>6, Zenon

(* A request with the text of its operation. *)
LEMMA RequestDecodes ==
    ASSUME NEW Char, NEW corr \in Nat, NEW rest \in Seq(Char)
    PROVE  decode(Line("REQ", corr, rest)) = request_of(corr, rest)
<1> DEFINE text == Line("REQ", corr, rest)
           head == split_once(text, space)
           tail == split_once(head.right, space)
<1>1. "REQ" # SP
  BY DEF SP
<1>2. /\ head.found /\ head.left = <<"REQ">>
      /\ tail.left = decimal[corr] /\ tail.right = rest
      /\ is_u64(tail.left) /\ parse_u64(tail.left) = corr
  BY <1>1, MessageCut
<1> HIDE DEF text
<1>3. decode(text) =
         IF ~head.found \/ ~is_u64(tail.left) THEN undecodable
         ELSE CASE head.left = <<"REQ">> -> request_of(parse_u64(tail.left), tail.right)
                [] head.left = <<"RSP">> -> response_of(parse_u64(tail.left), tail.right)
                [] OTHER -> undecodable
  BY Zenon DEF decode
<1> HIDE DEF head, tail
<1>4. <<"REQ">> # <<"RSP">>
  OBVIOUS
<1>5. decode(text) = request_of(corr, rest)
  BY <1>2, <1>3, <1>4
<1>6. QED
  BY <1>5, Zenon DEF text

(* decode of a response goes on to its reply with the id it was sent       *)
(* under.                                                                  *)
LEMMA ResponseDecodes ==
    ASSUME NEW Char, NEW corr \in Nat, NEW rest \in Seq(Char)
    PROVE  decode(Line("RSP", corr, rest)) = response_of(corr, rest)
<1> DEFINE text == Line("RSP", corr, rest)
           head == split_once(text, space)
           tail == split_once(head.right, space)
<1>1. "RSP" # SP
  BY DEF SP
<1>2. /\ head.found /\ head.left = <<"RSP">>
      /\ tail.left = decimal[corr] /\ tail.right = rest
      /\ is_u64(tail.left) /\ parse_u64(tail.left) = corr
  BY <1>1, MessageCut
<1> HIDE DEF text
<1>3. decode(text) =
         IF ~head.found \/ ~is_u64(tail.left) THEN undecodable
         ELSE CASE head.left = <<"REQ">> -> request_of(parse_u64(tail.left), tail.right)
                [] head.left = <<"RSP">> -> response_of(parse_u64(tail.left), tail.right)
                [] OTHER -> undecodable
  BY Zenon DEF decode
<1> HIDE DEF head, tail
<1>4. <<"REQ">> # <<"RSP">>
  OBVIOUS
<1>5. decode(text) = response_of(corr, rest)
  BY <1>2, <1>3, <1>4
<1>6. QED
  BY <1>5, Zenon DEF text

-----------------------------------------------------------------------------
(* The text of a request, and what request_of makes of it. *)
LEMMA GetDecodes ==
    ASSUME NEW corr \in Nat, NEW k \in Nat
    PROVE  request_of(corr, <<"GET", SP>> \o decimal[k]) = decoded(Request(corr, Get(k)))
<1> DEFINE rest == <<"GET", SP>> \o decimal[k]
           call == split_once(rest, space)
<1>1. call = [found |-> TRUE, left |-> <<"GET">>, right |-> decimal[k]]
  <2>1. "GET" # SP /\ decimal[k] \in Seq(Digits)
    BY DecimalShows DEF SP
  <2>2. QED
    BY <2>1, WordCutOff
<1> HIDE DEF rest
<1>2. call.left = <<"GET">> /\ call.right = decimal[k]
  BY <1>1
<1> HIDE DEF call
<1>3. to_ascii_uppercase(call.left) = <<"GET">>
  BY <1>2, VerbsInCapitals
<1>4. with_key(call.right, "Get", <<>>) = accepted(Get(k))
  BY <1>2, DecimalWithKey, Zenon DEF Get
<1>5. with_key(call.right, "Get", <<>>).ok /\ with_key(call.right, "Get", <<>>).op = Get(k)
  BY <1>4 DEF accepted
<1>6. <<"GET">> # <<"RM">> /\ <<"GET">> # <<"PUT">>
  OBVIOUS
<1>7. request_of(corr, rest) =
         IF with_key(call.right, "Get", <<>>).ok
         THEN decoded(Request(corr, with_key(call.right, "Get", <<>>).op)) ELSE undecodable
  BY <1>3, <1>6, Zenon DEF request_of, call
<1>8. request_of(corr, rest) = decoded(Request(corr, Get(k)))
  BY <1>5, <1>7, Zenon
<1>9. QED
  BY <1>8, Zenon DEF rest

(* decode gives back a forwarded RM. *)
LEMMA RmDecodes ==
    ASSUME NEW corr \in Nat, NEW k \in Nat
    PROVE  request_of(corr, <<"RM", SP>> \o decimal[k]) = decoded(Request(corr, Rm(k)))
<1> DEFINE rest == <<"RM", SP>> \o decimal[k]
           call == split_once(rest, space)
<1>1. call = [found |-> TRUE, left |-> <<"RM">>, right |-> decimal[k]]
  <2>1. "RM" # SP /\ decimal[k] \in Seq(Digits)
    BY DecimalShows DEF SP
  <2>2. QED
    BY <2>1, WordCutOff
<1> HIDE DEF rest
<1>2. call.left = <<"RM">> /\ call.right = decimal[k]
  BY <1>1
<1> HIDE DEF call
<1>3. to_ascii_uppercase(call.left) = <<"RM">>
  BY <1>2, VerbsInCapitals
<1>4. with_key(call.right, "Rm", <<>>) = accepted(Rm(k))
  BY <1>2, DecimalWithKey, Zenon DEF Rm
<1>5. with_key(call.right, "Rm", <<>>).ok /\ with_key(call.right, "Rm", <<>>).op = Rm(k)
  BY <1>4 DEF accepted
<1>6. <<"GET">> # <<"RM">> /\ <<"RM">> # <<"PUT">>
  OBVIOUS
<1>7. request_of(corr, rest) =
         IF with_key(call.right, "Rm", <<>>).ok
         THEN decoded(Request(corr, with_key(call.right, "Rm", <<>>).op)) ELSE undecodable
  BY <1>3, <1>6, Zenon DEF request_of, call
<1>8. request_of(corr, rest) = decoded(Request(corr, Rm(k)))
  BY <1>5, <1>7, Zenon
<1>9. QED
  BY <1>8, Zenon DEF rest

(* decode gives back a forwarded PUT, spaces in its value included. *)
LEMMA PutDecodes ==
    ASSUME NEW Char, NEW corr \in Nat, NEW k \in Nat, NEW v \in Seq(Char)
    PROVE  request_of(corr, Line("PUT", k, v)) = decoded(Request(corr, Put(k, v)))
<1> DEFINE rest == Line("PUT", k, v)
           call == split_once(rest, space)
           put == split_once(call.right, space)
<1>1. call.left = <<"PUT">> /\ put.left = decimal[k] /\ put.right = v
  <2>1. "PUT" # SP
    BY DEF SP
  <2>2. QED
    BY <2>1, MessageCut
<1> HIDE DEF rest, call, put
<1>2. to_ascii_uppercase(call.left) = <<"PUT">>
  BY <1>1, VerbsInCapitals
<1>3. with_key(put.left, "Put", put.right) = accepted(Put(k, v))
  BY <1>1, DecimalWithKey, Zenon DEF Put
<1>4. /\ with_key(put.left, "Put", put.right).ok
      /\ with_key(put.left, "Put", put.right).op = Put(k, v)
  BY <1>3 DEF accepted
<1>5. <<"GET">> # <<"PUT">> /\ <<"RM">> # <<"PUT">>
  OBVIOUS
<1>6. request_of(corr, rest) =
         IF with_key(put.left, "Put", put.right).ok
         THEN decoded(Request(corr, with_key(put.left, "Put", put.right).op)) ELSE undecodable
  BY <1>2, <1>5, Zenon DEF request_of, call, put
<1>7. request_of(corr, rest) = decoded(Request(corr, Put(k, v)))
  BY <1>4, <1>6, Zenon
<1>8. QED
  BY <1>7, Zenon DEF rest

-----------------------------------------------------------------------------
(* Peer::decode undoes Peer::encode on every request: the owner of a key   *)
(* is asked for the operation the other node forwarded, under its own id,  *)
(* whatever the number, the key and the value are, a value that is empty   *)
(* or full of spaces included.                                             *)
THEOREM RequestsSurvive ==
    ASSUME NEW Char, NEW corr \in Nat, NEW op \in Operations(Char)
    PROVE  decode(encode(Request(corr, op))) = decoded(Request(corr, op))
<1> DEFINE m == Request(corr, op)
<1>1. m.kind = "Request" /\ m.op = op /\ m.corr = corr
  BY DEF Request
<1>2. CASE \E k \in Nat : op = Get(k)
  <2>1. PICK k \in Nat : op = Get(k)
    BY <1>2
  <2>2. op.verb = "Get" /\ op.key = k
    BY <2>1 DEF Get
  <2> DEFINE rest == <<"GET", SP>> \o decimal[k]
  <2>3. encode(m) = Line("REQ", corr, rest)
    BY <1>1, <2>2, Zenon DEF encode, Line
  <2>4. rest \in Seq(Digits \cup {"GET", SP})
    <3>1. decimal[k] \in Seq(Digits)
      BY DecimalShows
    <3>2. QED
      BY <3>1
  <2>5. request_of(corr, rest) = decoded(Request(corr, Get(k)))
    BY GetDecodes
  <2> HIDE DEF rest
  <2>6. decode(Line("REQ", corr, rest)) = request_of(corr, rest)
    BY <2>4, RequestDecodes
  <2>7. QED
    BY <2>1, <2>3, <2>5, <2>6, Zenon
<1>3. CASE \E k \in Nat : op = Rm(k)
  <2>1. PICK k \in Nat : op = Rm(k)
    BY <1>3
  <2>2. op.verb = "Rm" /\ op.key = k
    BY <2>1 DEF Rm
  <2> DEFINE rest == <<"RM", SP>> \o decimal[k]
  <2>3. encode(m) = Line("REQ", corr, rest)
    <3>1. op.verb # "Get"
      BY <2>2
    <3>2. QED
      BY <1>1, <2>2, <3>1, Zenon DEF encode, Line
  <2>4. rest \in Seq(Digits \cup {"RM", SP})
    <3>1. decimal[k] \in Seq(Digits)
      BY DecimalShows
    <3>2. QED
      BY <3>1
  <2>5. request_of(corr, rest) = decoded(Request(corr, Rm(k)))
    BY RmDecodes
  <2> HIDE DEF rest
  <2>6. decode(Line("REQ", corr, rest)) = request_of(corr, rest)
    BY <2>4, RequestDecodes
  <2>7. QED
    BY <2>1, <2>3, <2>5, <2>6, Zenon
<1>4. CASE \E k \in Nat : \E v \in Seq(Char) : op = Put(k, v)
  <2>1. PICK k \in Nat : \E v \in Seq(Char) : op = Put(k, v)
    BY <1>4
  <2>2. PICK v \in Seq(Char) : op = Put(k, v)
    BY <2>1
  <2>3. op.verb = "Put" /\ op.key = k /\ op.value = v
    BY <2>2 DEF Put
  <2> DEFINE rest == Line("PUT", k, v)
  <2>4. encode(m) = Line("REQ", corr, rest)
    <3>1. op.verb # "Get" /\ op.verb # "Rm"
      BY <2>3
    <3>2. QED
      BY <1>1, <2>3, <3>1, Zenon DEF encode, Line
  <2>5. rest \in Seq(Digits \cup Char \cup {"PUT", SP})
    <3>1. decimal[k] \in Seq(Digits)
      BY DecimalShows
    <3>2. QED
      BY <3>1 DEF Line
  <2>6. request_of(corr, rest) = decoded(Request(corr, Put(k, v)))
    BY PutDecodes
  <2> HIDE DEF rest
  <2>7. decode(Line("REQ", corr, rest)) = request_of(corr, rest)
    BY <2>5, RequestDecodes
  <2>8. QED
    BY <2>2, <2>4, <2>6, <2>7, Zenon
<1>5. QED
  BY <1>2, <1>3, <1>4 DEF Operations

(* Peer::decode undoes Peer::encode on every response: the asking node     *)
(* hears what the owner answered, whatever value or words it holds.        *)
THEOREM ResponsesSurvive ==
    ASSUME NEW Char, NEW corr \in Nat, NEW reply \in Replies(Char)
    PROVE  decode(encode(Response(corr, reply))) = decoded(Response(corr, reply))
<1> DEFINE m == Response(corr, reply)
<1>1. m.kind # "Request" /\ m.reply = reply /\ m.corr = corr
  BY DEF Response
<1>2. ASSUME NEW tag \in {"OK", "NIL"}
      PROVE  split_once(<<tag>>, space).left = <<tag>>
  <2>1. <<tag>> \in Seq({tag}) /\ \A i \in 1..Len(<<tag>>) : <<tag>>[i] \notin space
    BY DEF space, SP
  <2>2. split_once(<<tag>>, space) = [found |-> FALSE, left |-> <<tag>>, right |-> <<>>]
    BY <2>1, SplitsNothing, Zenon
  <2>3. QED
    BY <2>2
<1>3. ASSUME NEW tag \in {"VAL", "ERR"}, NEW v \in Seq(Char)
      PROVE  /\ <<tag, SP>> \o v \in Seq(Char \cup {tag, SP})
             /\ split_once(<<tag, SP>> \o v, space).left = <<tag>>
             /\ split_once(<<tag, SP>> \o v, space).right = v
  <2>1. tag # SP
    BY DEF SP
  <2>2. split_once(<<tag, SP>> \o v, space) = [found |-> TRUE, left |-> <<tag>>, right |-> v]
    BY <2>1, WordCutOff
  <2>3. <<tag, SP>> \o v \in Seq(Char \cup {tag, SP})
    OBVIOUS
  <2>4. QED
    BY <2>2, <2>3
<1>4. /\ <<"VAL">> # <<"OK">> /\ <<"VAL">> # <<"NIL">> /\ <<"VAL">> # <<"ERR">>
      /\ <<"OK">> # <<"NIL">> /\ <<"OK">> # <<"ERR">> /\ <<"NIL">> # <<"ERR">>
  OBVIOUS
<1>5. CASE reply = Ok
  <2>1. reply.tag = "Ok" /\ reply.tag # "Value"
    BY <1>5 DEF Ok
  <2>2. encode(m) = Line("RSP", corr, <<"OK">>)
    BY <1>1, <2>1, Zenon DEF encode, Line
  <2>3. <<"OK">> \in Seq({"OK"})
    OBVIOUS
  <2>4. decode(Line("RSP", corr, <<"OK">>)) = response_of(corr, <<"OK">>)
    BY <2>3, ResponseDecodes, Zenon
  <2>5. split_once(<<"OK">>, space).left = <<"OK">>
    BY <1>2
  <2>6. response_of(corr, <<"OK">>) = decoded(Response(corr, Ok))
    BY <2>5, <1>4, Zenon DEF response_of
  <2>7. QED
    BY <1>5, <2>2, <2>4, <2>6, Zenon
<1>6. CASE reply = Nil
  <2>1. reply.tag = "Nil" /\ reply.tag # "Value" /\ reply.tag # "Ok"
    BY <1>6 DEF Nil
  <2>2. encode(m) = Line("RSP", corr, <<"NIL">>)
    BY <1>1, <2>1, Zenon DEF encode, Line
  <2>3. <<"NIL">> \in Seq({"NIL"})
    OBVIOUS
  <2>4. decode(Line("RSP", corr, <<"NIL">>)) = response_of(corr, <<"NIL">>)
    BY <2>3, ResponseDecodes, Zenon
  <2>5. split_once(<<"NIL">>, space).left = <<"NIL">>
    BY <1>2
  <2>6. response_of(corr, <<"NIL">>) = decoded(Response(corr, Nil))
    BY <2>5, <1>4, Zenon DEF response_of
  <2>7. QED
    BY <1>6, <2>2, <2>4, <2>6, Zenon
<1>7. CASE \E v \in Seq(Char) : reply = Value(v)
  <2>1. PICK v \in Seq(Char) : reply = Value(v)
    BY <1>7
  <2>2. reply.tag = "Value" /\ reply.text = v
    BY <2>1 DEF Value
  <2> DEFINE rest == <<"VAL", SP>> \o v
  <2>3. encode(m) = Line("RSP", corr, rest)
    BY <1>1, <2>2, Zenon DEF encode, Line
  <2>4. /\ rest \in Seq(Char \cup {"VAL", SP})
        /\ split_once(rest, space).left = <<"VAL">> /\ split_once(rest, space).right = v
    BY <1>3, Zenon
  <2> HIDE DEF rest
  <2>5. decode(Line("RSP", corr, rest)) = response_of(corr, rest)
    BY <2>4, ResponseDecodes
  <2>6. response_of(corr, rest) = decoded(Response(corr, Value(v)))
    BY <2>4, <1>4, Zenon DEF response_of
  <2>7. QED
    BY <2>1, <2>3, <2>5, <2>6, Zenon
<1>8. CASE \E v \in Seq(Char) : reply = Err(v)
  <2>1. PICK v \in Seq(Char) : reply = Err(v)
    BY <1>8
  <2>2. /\ reply.tag = "Err" /\ reply.text = v
        /\ reply.tag # "Value" /\ reply.tag # "Ok" /\ reply.tag # "Nil"
    BY <2>1 DEF Err
  <2> DEFINE rest == <<"ERR", SP>> \o v
  <2>3. encode(m) = Line("RSP", corr, rest)
    BY <1>1, <2>2, Zenon DEF encode, Line
  <2>4. /\ rest \in Seq(Char \cup {"ERR", SP})
        /\ split_once(rest, space).left = <<"ERR">> /\ split_once(rest, space).right = v
    BY <1>3, Zenon
  <2> HIDE DEF rest
  <2>5. decode(Line("RSP", corr, rest)) = response_of(corr, rest)
    BY <2>4, ResponseDecodes
  <2>6. response_of(corr, rest) = decoded(Response(corr, Err(v)))
    BY <2>4, <1>4, Zenon DEF response_of
  <2>7. QED
    BY <2>1, <2>3, <2>5, <2>6, Zenon
<1>9. QED
  BY <1>5, <1>6, <1>7, <1>8 DEF Replies

-----------------------------------------------------------------------------
(* What cutting and trimming leave of a text. *)

(* The first of some positions in a text is one of them. *)
LEMMA FirstOf ==
    ASSUME NEW n \in Nat, NEW I \in SUBSET (1..n), I # {}
    PROVE  Min(I) \in I /\ \A j \in I : Min(I) <= j
<1>1. I \subseteq Nat
  OBVIOUS
<1>2. \E i \in I : \A j \in I : i <= j
  BY <1>1, Least, Zenon
<1>3. QED
  BY <1>2, Zenon DEF Min

(* So is the last. *)
LEMMA LastOf ==
    ASSUME NEW n \in Nat, NEW I \in SUBSET (1..n), I # {}
    PROVE  Max(I) \in I /\ \A j \in I : Max(I) >= j
<1> DEFINE T == {n - i : i \in I}
<1>1. T \subseteq Nat /\ T # {}
  <2>1. \A i \in I : n - i \in Nat
    OBVIOUS
  <2>2. PICK i \in I : TRUE
    BY Zenon
  <2>3. n - i \in T
    BY Zenon
  <2>4. T \subseteq Nat
    BY <2>1, Zenon
  <2>5. QED
    BY <2>3, <2>4, Zenon
<1>2. PICK t \in T : \A u \in T : t <= u
  <2> HIDE DEF T
  <2>1. QED
    BY <1>1, Least, Zenon
<1>3. PICK i \in I : t = n - i
  OBVIOUS
<1>4. \A j \in I : i >= j
  <2>1. ASSUME NEW j \in I
        PROVE  i >= j
    <3>1. n - i <= n - j
      BY <1>2, <1>3, Zenon
    <3>2. QED
      BY <3>1
  <2>2. QED
    BY <2>1
<1>5. \E k \in I : \A j \in I : k >= j
  BY <1>4
<1>6. QED
  BY <1>5, Zenon DEF Max

(* Both sides of a cut are parts of the text, the separator apart. *)
LEMMA SplitParts ==
    ASSUME NEW Char, NEW s \in Seq(Char), NEW seps
    PROVE  LET r == split_once(s, seps)
           IN  /\ r.left \in Seq(Char) /\ r.right \in Seq(Char)
               /\ r.found => Len(s) = Len(r.left) + 1 + Len(r.right)
               /\ ~r.found => r.left = s /\ r.right = <<>>
<1> DEFINE I == {i \in 1..Len(s) : s[i] \in seps}
           r == split_once(s, seps)
<1>1. CASE I = {}
  <2>1. \A i \in 1..Len(s) : s[i] \notin seps
    BY <1>1
  <2> HIDE DEF I
  <2>2. r = [found |-> FALSE, left |-> s, right |-> <<>>]
    BY <2>1, SplitsNothing
  <2> HIDE DEF r
  <2>3. r.left = s /\ r.right = <<>> /\ ~r.found /\ <<>> \in Seq(Char)
    BY <2>2
  <2>4. QED
    BY <2>3, Zenon DEF r
<1>2. CASE I # {}
  <2>0. Len(s) \in Nat /\ I \in SUBSET (1..Len(s))
    OBVIOUS
  <2>1. PICK i \in I : \A j \in I : i <= j
    <3> HIDE DEF I
    <3>1. QED
      BY <1>2, <2>0, FirstOf, Zenon
  <2>2. i \in 1..Len(s) /\ s[i] \in seps /\ \A j \in 1..(i - 1) : s[j] \notin seps
    <3>1. ASSUME NEW j \in 1..(i - 1), s[j] \in seps
          PROVE  FALSE
      <4>1. j \in I
        BY <3>1
      <4>2. QED
        BY <2>1, <4>1
    <3>2. QED
      BY <3>1
  <2> HIDE DEF I
  <2>3. r = [found |-> TRUE, left |-> SubSeq(s, 1, i - 1), right |-> SubSeq(s, i + 1, Len(s))]
    BY <2>2, SplitsAtFirst
  <2>4. SubSeq(s, 1, i - 1) \in Seq(Char) /\ Len(SubSeq(s, 1, i - 1)) = i - 1
    <3>1. \A j \in 1..(i - 1) : s[j] \in Char
      BY <2>2
    <3>2. 1 \in Int /\ i - 1 \in Int /\ i - 1 >= 0
      BY <2>2
    <3>3. QED
      BY <3>1, <3>2, SubSeqProperties
  <2>5. SubSeq(s, i + 1, Len(s)) \in Seq(Char) /\ Len(SubSeq(s, i + 1, Len(s))) = Len(s) - i
    <3>1. \A j \in (i + 1)..Len(s) : s[j] \in Char
      BY <2>2
    <3>2. i + 1 \in Int /\ Len(s) \in Int /\ i <= Len(s) /\ i \in Int
      BY <2>2
    <3> DEFINE t == SubSeq(s, i + 1, Len(s))
    <3>3. t \in Seq(Char) /\ Len(t) = IF i + 1 <= Len(s) THEN Len(s) - (i + 1) + 1 ELSE 0
      BY <3>1, <3>2, SubSeqProperties
    <3> HIDE DEF t
    <3>4. Len(t) = Len(s) - i
      BY <3>2, <3>3
    <3>5. QED
      BY <3>3, <3>4 DEF t
  <2> HIDE DEF r
  <2>6. /\ r.found /\ r.left \in Seq(Char) /\ r.right \in Seq(Char)
        /\ Len(r.left) = i - 1 /\ Len(r.right) = Len(s) - i
    BY <2>3, <2>4, <2>5
  <2>7. Len(s) = Len(r.left) + 1 + Len(r.right)
    BY <2>2, <2>6
  <2>8. QED
    BY <2>6, <2>7, Zenon DEF r
<1>3. QED
  BY <1>1, <1>2, Zenon

(* Trimming leaves a part of the text. *)
LEMMA TrimStartPart ==
    ASSUME NEW Char, NEW s \in Seq(Char), NEW drop
    PROVE  trim_start(s, drop) \in Seq(Char) /\ Len(trim_start(s, drop)) <= Len(s)
<1> DEFINE I == {i \in 1..Len(s) : s[i] \notin drop}
           at == Min(I)
<1>1. {i \in DOMAIN s : s[i] \notin drop} = I
  OBVIOUS
<1>2. Len(s) \in Nat /\ I \in SUBSET (1..Len(s))
  OBVIOUS
<1> HIDE DEF I
<1>3. I # {} => at \in 1..Len(s)
  BY <1>2, FirstOf, Zenon
<1>4. trim_start(s, drop) = IF I = {} THEN <<>> ELSE SubSeq(s, at, Len(s))
  BY <1>1, Zenon DEF trim_start
<1> HIDE DEF at
<1>5. CASE I = {}
  BY <1>2, <1>4, <1>5
<1>6. CASE I # {}
  <2>1. \A j \in at..Len(s) : s[j] \in Char
    BY <1>3, <1>6
  <2>2. at \in Int /\ Len(s) \in Int /\ 1 <= at /\ at <= Len(s)
    BY <1>3, <1>6
  <2>3. SubSeq(s, at, Len(s)) \in Seq(Char) /\ Len(SubSeq(s, at, Len(s))) = Len(s) - at + 1
    BY <2>1, <2>2, SubSeqProperties
  <2>4. QED
    BY <1>4, <1>6, <2>2, <2>3
<1>7. QED
  BY <1>5, <1>6

(* trim_end_matches leaves a part of its text. *)
LEMMA TrimEndPart ==
    ASSUME NEW Char, NEW s \in Seq(Char), NEW drop
    PROVE  trim_end(s, drop) \in Seq(Char) /\ Len(trim_end(s, drop)) <= Len(s)
<1> DEFINE I == {i \in 1..Len(s) : s[i] \notin drop}
           at == Max(I)
<1>1. {i \in DOMAIN s : s[i] \notin drop} = I
  OBVIOUS
<1>2. Len(s) \in Nat /\ I \in SUBSET (1..Len(s))
  OBVIOUS
<1> HIDE DEF I
<1>3. I # {} => at \in 1..Len(s)
  BY <1>2, LastOf, Zenon
<1>4. trim_end(s, drop) = IF I = {} THEN <<>> ELSE SubSeq(s, 1, at)
  BY <1>1, Zenon DEF trim_end
<1> HIDE DEF at
<1>5. CASE I = {}
  BY <1>2, <1>4, <1>5
<1>6. CASE I # {}
  <2>1. \A j \in 1..at : s[j] \in Char
    BY <1>3, <1>6
  <2>2. 1 \in Int /\ at \in Int /\ 0 <= at
    BY <1>3, <1>6
  <2>3. SubSeq(s, 1, at) \in Seq(Char) /\ Len(SubSeq(s, 1, at)) = at
    BY <2>1, <2>2, SubSeqProperties
  <2>4. QED
    BY <1>3, <1>4, <1>6, <2>3
<1>7. QED
  BY <1>5, <1>6

(* So does trim. *)
LEMMA TrimPart ==
    ASSUME NEW Char, NEW s \in Seq(Char)
    PROVE  trim(s) \in Seq(Char) /\ Len(trim(s)) <= Len(s)
<1> DEFINE t == trim_start(s, whitespace)
<1>1. t \in Seq(Char) /\ Len(t) <= Len(s)
  BY TrimStartPart
<1> HIDE DEF t
<1>2. trim_end(t, whitespace) \in Seq(Char) /\ Len(trim_end(t, whitespace)) <= Len(t)
  BY <1>1, TrimEndPart
<1>3. trim(s) = trim_end(t, whitespace)
  BY Zenon DEF trim, t
<1>4. QED
  BY <1>1, <1>2, <1>3

-----------------------------------------------------------------------------
(* A number that was read is shown in no more digits than it was read      *)
(* from: leading zeros are all that is lost.                               *)
LEMMA DecimalLength ==
    ASSUME NEW n \in Nat
    PROVE  Len(decimal[n]) = IF n < 10 THEN 1 ELSE Len(decimal[n \div 10]) + 1
<1>1. decimal[n] = Shown(decimal, n)
  BY DecimalShows
<1>2. CASE n < 10
  <2>1. decimal[n] = <<Digit[n + 1]>>
    BY <1>1, <1>2 DEF Shown
  <2>2. QED
    BY <1>2, <2>1
<1>3. CASE ~(n < 10)
  <2>1. /\ n \div 10 \in Nat
        /\ decimal[n] = Append(decimal[n \div 10], Digit[(n % 10) + 1])
    BY <1>1, <1>3, TensAndUnits DEF Shown
  <2>2. decimal[n \div 10] \in Seq(Digits)
    BY <2>1, DecimalShows
  <2>3. QED
    BY <1>3, <2>1, <2>2
<1>4. QED
  BY <1>2, <1>3

(* Reading one more digit makes the number at most one digit longer. *)
LEMMA OneMoreDigit ==
    ASSUME NEW t \in Seq(Digits), NEW c \in Digits
    PROVE  LET v == parse_u64(Append(t, c))
           IN  Len(decimal[v]) = 1 \/ Len(decimal[v]) = Len(decimal[parse_u64(t)]) + 1
<1> DEFINE a == parse_u64(t)
           d == digit_value(c)
           v == parse_u64(Append(t, c))
<1>1. a \in Nat /\ d \in 0..9 /\ v = 10 * a + d
  BY ParseAppend, DigitsHaveValue
<1> HIDE DEF a, d, v
<1>2. v \in Nat /\ v \div 10 = a
  BY <1>1
<1>3. Len(decimal[v]) = IF v < 10 THEN 1 ELSE Len(decimal[v \div 10]) + 1
  BY <1>2, DecimalLength
<1>4. Len(decimal[v]) = 1 \/ Len(decimal[v]) = Len(decimal[a]) + 1
  BY <1>2, <1>3
<1>5. QED
  BY <1>4, Zenon DEF a, v

(* A number is written in no more digits than it was read from: leading    *)
(* zeros go.                                                               *)
LEMMA DecimalFits ==
    ASSUME NEW s \in Seq(Digits), Len(s) >= 1
    PROVE  parse_u64(s) \in Nat /\ Len(decimal[parse_u64(s)]) <= Len(s)
<1> DEFINE Fits(n) == \A t \in Seq(Digits) : Len(t) = n + 1 =>
                          parse_u64(t) \in Nat /\ Len(decimal[parse_u64(t)]) <= n + 1
           F == {n \in Nat : Fits(n)}
<1>1. ASSUME NEW n \in Nat, NEW t \in Seq(Digits), Len(t) = n + 1
      PROVE  /\ parse_u64(t) \in Nat
             /\ \E u \in Seq(Digits) :
                   /\ Len(u) = n
                   /\ \/ Len(decimal[parse_u64(t)]) = 1
                      \/ Len(decimal[parse_u64(t)]) = Len(decimal[parse_u64(u)]) + 1
  <2> DEFINE u == SubSeq(t, 1, n)
             c == t[n + 1]
  <2>1. u \in Seq(Digits) /\ Len(u) = n /\ c \in Digits /\ t = Append(u, c)
    <3>1. t \in Seq(Digits) /\ Len(t) = n + 1 /\ t # <<>>
      BY <1>1
    <3>2. \A i \in 1..n : t[i] \in Digits
      BY <1>1
    <3>3. u \in Seq(Digits) /\ Len(u) = n /\ \A i \in 1..n : u[i] = t[i]
      BY <3>2, SubSeqProperties
    <3>4. c \in Digits
      BY <1>1
    <3> HIDE DEF u, c
    <3>5. Append(u, c) \in Seq(Digits) /\ Len(Append(u, c)) = n + 1
          /\ Append(u, c)[n + 1] = c /\ \A i \in 1..n : Append(u, c)[i] = u[i]
      BY <3>3, <3>4
    <3>6. \A i \in 1..(n + 1) : t[i] = Append(u, c)[i]
      BY <3>3, <3>5 DEF c
    <3>7. t = Append(u, c)
      BY <3>1, <3>5, <3>6, SeqEqual
    <3>8. QED
      BY <3>3, <3>4, <3>7
  <2> HIDE DEF u, c
  <2>2. digit_value(c) \in 0..9 /\ parse_u64(u) \in Nat
        /\ parse_u64(Append(u, c)) = 10 * parse_u64(u) + digit_value(c)
    BY <2>1, ParseAppend, DigitsHaveValue
  <2>3. parse_u64(t) = 10 * parse_u64(u) + digit_value(c)
    BY <2>1, <2>2, Zenon
  <2>4. parse_u64(t) \in Nat
    BY <2>2, <2>3
  <2>5. \/ Len(decimal[parse_u64(t)]) = 1
        \/ Len(decimal[parse_u64(t)]) = Len(decimal[parse_u64(u)]) + 1
    BY <2>1, OneMoreDigit
  <2>6. QED
    BY <2>1, <2>4, <2>5
<1>2. 0 \in F
  <2>1. ASSUME NEW t \in Seq(Digits), Len(t) = 0 + 1
        PROVE  parse_u64(t) \in Nat /\ Len(decimal[parse_u64(t)]) <= 0 + 1
    <3>1. PICK u \in Seq(Digits) : 
              /\ Len(u) = 0
              /\ \/ Len(decimal[parse_u64(t)]) = 1
                 \/ Len(decimal[parse_u64(t)]) = Len(decimal[parse_u64(u)]) + 1
      BY <1>1, <2>1, Zenon
    <3>2. parse_u64(t) \in Nat
      BY <1>1, <2>1, Zenon
    <3>3. u = <<>>
      BY <3>1
    <3>4. Append(u, t[1]) = t /\ t[1] \in Digits
      BY <2>1, <3>3, SMTT(30)
    <3>5. parse_u64(t) = 10 * parse_u64(<<>>) + digit_value(t[1])
      BY <3>3, <3>4, ParseAppend, Zenon
    <3>6. parse_u64(t) < 10
      <4>1. digit_value(t[1]) \in 0..9
        BY <3>4, DigitsHaveValue
      <4>2. QED
        BY <3>5, <4>1, ParseEmpty
    <3>7. QED
      BY <3>2, <3>6, DecimalLength
  <2>2. QED
    BY <2>1
<1>3. ASSUME NEW n \in Nat, n \in F
      PROVE  n + 1 \in F
  <2>1. ASSUME NEW t \in Seq(Digits), Len(t) = (n + 1) + 1
        PROVE  parse_u64(t) \in Nat /\ Len(decimal[parse_u64(t)]) <= (n + 1) + 1
    <3>1. PICK k \in Nat : k = n + 1
      OBVIOUS
    <3>2. /\ parse_u64(t) \in Nat
          /\ \E u \in Seq(Digits) :
                /\ Len(u) = k
                /\ \/ Len(decimal[parse_u64(t)]) = 1
                   \/ Len(decimal[parse_u64(t)]) = Len(decimal[parse_u64(u)]) + 1
      <4>1. Len(t) = k + 1
        BY <2>1, <3>1
      <4>2. QED
        BY <1>1, <4>1, Zenon
    <3>3. PICK u \in Seq(Digits) :
                /\ Len(u) = k
                /\ \/ Len(decimal[parse_u64(t)]) = 1
                   \/ Len(decimal[parse_u64(t)]) = Len(decimal[parse_u64(u)]) + 1
      BY <3>2
    <3>4. parse_u64(u) \in Nat /\ Len(decimal[parse_u64(u)]) <= n + 1
      BY <1>3, <3>1, <3>3
    <3>5. Len(decimal[parse_u64(u)]) \in Nat
      BY <3>4, DecimalNotEmpty
    <3> DEFINE short == Len(decimal[parse_u64(u)])
               long == Len(decimal[parse_u64(t)])
    <3>6. long = 1 \/ long = short + 1
      BY <3>3
    <3> HIDE DEF short, long
    <3>7. long <= (n + 1) + 1
      BY <3>4, <3>5, <3>6 DEF short
    <3>8. QED
      BY <3>2, <3>7 DEF long
  <2>2. QED
    BY <2>1
<1> HIDE DEF F
<1>4. Nat \subseteq F
  BY <1>2, <1>3, Induction
<1>5. Len(s) - 1 \in Nat /\ Len(s) = (Len(s) - 1) + 1
  OBVIOUS
<1>6. Fits(Len(s) - 1)
  BY <1>4, <1>5 DEF F
<1>7. QED
  BY <1>5, <1>6

-----------------------------------------------------------------------------
(* What Op::parse accepts. *)

(* A body whose key parses asks about a number, written no longer than the *)
(* body.                                                                   *)
LEMMA KeyAccepted ==
    ASSUME NEW Char, NEW text \in Seq(Char), NEW verb, NEW value,
           with_key(text, verb, value).ok
    PROVE  \E k \in Nat : /\ Len(decimal[k]) <= Len(text)
                          /\ with_key(text, verb, value).op
                                = [verb |-> verb, key |-> k, value |-> value]
<1> DEFINE t == trim(text)
<1>1. t \in Seq(Char) /\ Len(t) <= Len(text)
  BY TrimPart
<1> HIDE DEF t
<1>2. ~refused(<<"missing key">>).ok /\ ~refused(<<"not a u64">>).ok
  BY DEF refused
<1>3. t # <<>> /\ is_u64(t)
  BY <1>2, Zenon DEF with_key, t
<1>4. with_key(text, verb, value)
         = accepted([verb |-> verb, key |-> parse_u64(t), value |-> value])
  BY <1>3, Zenon DEF with_key, t
<1>5. t \in Seq(Digits) /\ Len(t) >= 1
  <2>1. Range(Digit) \subseteq Digits
    BY DEF Range, Digits, Digit
  <2>2. \A i \in DOMAIN t : t[i] \in Digits
    BY <1>3, <2>1 DEF is_u64
  <2>3. QED
    BY <1>1, <1>3, <2>2
<1>6. parse_u64(t) \in Nat /\ Len(decimal[parse_u64(t)]) <= Len(t)
  BY <1>5, DecimalFits
<1>7. Len(decimal[parse_u64(t)]) \in Nat
  BY <1>6, DecimalNotEmpty
<1>8. Len(decimal[parse_u64(t)]) <= Len(text)
  BY <1>1, <1>6, <1>7
<1>9. with_key(text, verb, value).op = [verb |-> verb, key |-> parse_u64(t), value |-> value]
  BY <1>4 DEF accepted
<1>10. QED
  BY <1>6, <1>8, <1>9, Zenon

(* The capitals of a verb are as many words as it has. *)
LEMMA CapitalsKeepLength ==
    ASSUME NEW Char, NEW verb \in Seq(Char), NEW word, to_ascii_uppercase(verb) = <<word>>
    PROVE  Len(verb) = 1
<1>1. DOMAIN to_ascii_uppercase(verb) = DOMAIN verb
  BY Zenon DEF to_ascii_uppercase
<1>2. DOMAIN <<word>> = {1}
  OBVIOUS
<1>3. DOMAIN verb = 1..Len(verb) /\ Len(verb) \in Nat
  OBVIOUS
<1> DEFINE n == Len(verb)
<1>4. n \in Nat /\ 1..n = {1}
  BY <1>1, <1>2, <1>3, Zenon
<1> HIDE DEF n
<1>5. n = 1
  <2>1. 1 \in 1..n
    BY <1>4, Zenon
  <2>2. n \in 1..n
    BY <1>4, <2>1
  <2>3. QED
    BY <1>4, <2>2, Zenon
<1>6. QED
  BY <1>5 DEF n

(* What the parser builds is an operation. *)
LEMMA OperationsMade ==
    ASSUME NEW Char, NEW k \in Nat, NEW v \in Seq(Char)
    PROVE  /\ Get(k) \in Operations(Char) /\ Rm(k) \in Operations(Char)
           /\ Put(k, v) \in Operations(Char)
  BY DEF Operations

(* The operation a body asks for is a GET, a PUT or an RM of some number,  *)
(* and a PUT that is accepted is short enough to be forwarded: rewritten   *)
(* as "PUT key value" it is within the limit on the client's text.         *)
LEMMA ParsedIsOperation ==
    ASSUME NEW Char, NEW body \in Seq(Char), parse(body).ok
    PROVE  /\ parse(body).op \in Operations(Char)
           /\ parse(body).op.verb = "Put" =>
                 Len(decimal[parse(body).op.key]) + Len(parse(body).op.value) + 3
                    <= MAX_PUT_BYTES
<1> DEFINE text == trim_start(body, whitespace)
           request == split_once(text, whitespace)
           verb == to_ascii_uppercase(request.left)
           rest == trim_start(request.right, whitespace)
           put == split_once(rest, whitespace)
<1>1. text \in Seq(Char)
  BY TrimStartPart
<1> HIDE DEF text
<1>2. /\ request.left \in Seq(Char) /\ request.right \in Seq(Char)
      /\ request.found => Len(text) = Len(request.left) + 1 + Len(request.right)
      /\ ~request.found => request.left = text /\ request.right = <<>>
  BY <1>1, SplitParts, Zenon
<1> HIDE DEF request
<1>3. rest \in Seq(Char) /\ Len(rest) <= Len(request.right)
  BY <1>2, TrimStartPart
<1> HIDE DEF rest
<1>4. /\ put.left \in Seq(Char) /\ put.right \in Seq(Char)
      /\ put.found => Len(rest) = Len(put.left) + 1 + Len(put.right)
  BY <1>3, SplitParts, Zenon
<1> HIDE DEF put, verb
<1>5. parse(body) =
         CASE verb = <<"GET">> -> with_key(rest, "Get", <<>>)
           [] verb \in {<<"RM">>, <<"DEL">>} -> with_key(rest, "Rm", <<>>)
           [] verb \in {<<"PUT">>, <<"SET">>} ->
                 IF put_too_long(text) THEN refused(<<"put too long">>)
                 ELSE IF ~put.found THEN refused(<<"PUT needs a key and a value">>)
                 ELSE with_key(put.left, "Put", put.right)
           [] verb = <<>> -> refused(<<"empty request">>)
           [] OTHER -> refused(<<"unknown verb">>)
  BY Zenon DEF parse, text, request, verb, rest, put
<1>6. /\ ~refused(<<"put too long">>).ok /\ ~refused(<<"PUT needs a key and a value">>).ok
      /\ ~refused(<<"empty request">>).ok /\ ~refused(<<"unknown verb">>).ok
  BY DEF refused
<1>7. /\ <<"GET">> \notin {<<"RM">>, <<"DEL">>} /\ <<"GET">> \notin {<<"PUT">>, <<"SET">>}
      /\ {<<"RM">>, <<"DEL">>} \cap {<<"PUT">>, <<"SET">>} = {}
      /\ <<>> # <<"GET">> /\ <<>> \notin {<<"RM">>, <<"DEL">>, <<"PUT">>, <<"SET">>}
  OBVIOUS
<1>8. CASE verb = <<"GET">>
  <2>1. parse(body) = with_key(rest, "Get", <<>>)
    BY <1>5, <1>7, <1>8, Zenon
  <2>2. with_key(rest, "Get", <<>>).ok
    BY <2>1, Zenon
  <2>3. PICK k \in Nat : with_key(rest, "Get", <<>>).op
                            = [verb |-> "Get", key |-> k, value |-> <<>>]
    BY <1>3, <2>2, KeyAccepted
  <2>4. parse(body).op = Get(k)
    BY <2>1, <2>3, Zenon DEF Get
  <2>5. parse(body).op.verb # "Put"
    BY <2>4 DEF Get
  <2>6. parse(body).op \in Operations(Char)
    <3>1. <<>> \in Seq(Char)
      OBVIOUS
    <3>2. QED
      BY <2>4, <3>1, OperationsMade
  <2>7. QED
    BY <2>5, <2>6, Zenon
<1>9. CASE verb \in {<<"RM">>, <<"DEL">>}
  <2>1. parse(body) = with_key(rest, "Rm", <<>>)
    BY <1>5, <1>7, <1>9, Zenon
  <2>2. with_key(rest, "Rm", <<>>).ok
    BY <2>1, Zenon
  <2>3. PICK k \in Nat : with_key(rest, "Rm", <<>>).op
                            = [verb |-> "Rm", key |-> k, value |-> <<>>]
    BY <1>3, <2>2, KeyAccepted
  <2>4. parse(body).op = Rm(k)
    BY <2>1, <2>3, Zenon DEF Rm
  <2>5. parse(body).op.verb # "Put"
    BY <2>4 DEF Rm
  <2>6. parse(body).op \in Operations(Char)
    <3>1. <<>> \in Seq(Char)
      OBVIOUS
    <3>2. QED
      BY <2>4, <3>1, OperationsMade
  <2>7. QED
    BY <2>5, <2>6, Zenon
<1>10. CASE verb \in {<<"PUT">>, <<"SET">>}
  <2>1. parse(body) = IF put_too_long(text) THEN refused(<<"put too long">>)
                      ELSE IF ~put.found THEN refused(<<"PUT needs a key and a value">>)
                      ELSE with_key(put.left, "Put", put.right)
    BY <1>5, <1>7, <1>10, Zenon
  <2>2. ~put_too_long(text) /\ put.found
    BY <1>6, <2>1, Zenon
  <2>3. parse(body) = with_key(put.left, "Put", put.right)
    BY <2>1, <2>2, Zenon
  <2>4. with_key(put.left, "Put", put.right).ok
    BY <2>3, Zenon
  <2>5. PICK k \in Nat : /\ Len(decimal[k]) <= Len(put.left)
                         /\ with_key(put.left, "Put", put.right).op
                               = [verb |-> "Put", key |-> k, value |-> put.right]
    <3> DEFINE key == put.left
               value == put.right
    <3>1. key \in Seq(Char) /\ with_key(key, "Put", value).ok
      BY <1>4, <2>4, Zenon
    <3> HIDE DEF key, value
    <3>2. \E k \in Nat : /\ Len(decimal[k]) <= Len(key)
                         /\ with_key(key, "Put", value).op
                               = [verb |-> "Put", key |-> k, value |-> value]
      BY <3>1, KeyAccepted
    <3>3. QED
      BY <3>2, Zenon DEF key, value
  <2>6. parse(body).op = Put(k, put.right)
    BY <2>3, <2>5 DEF Put
  <2>7. parse(body).op.key = k /\ parse(body).op.value = put.right
    BY <2>6 DEF Put
  <2>8. Len(request.left) = 1
    <3>1. PICK word \in {"PUT", "SET"} : to_ascii_uppercase(request.left) = <<word>>
      BY <1>10 DEF verb
    <3>2. QED
      BY <1>2, <3>1, CapitalsKeepLength
  <2>9. /\ Len(put.left) \in Nat /\ Len(put.right) \in Nat /\ Len(request.right) \in Nat
        /\ Len(rest) \in Nat /\ Len(text) \in Nat /\ Len(decimal[k]) \in Nat
    BY <1>1, <1>2, <1>3, <1>4, DecimalNotEmpty
  <2> DEFINE lead == Len(decimal[k])
             left == Len(put.left)
             right == Len(put.right)
             after == Len(request.right)
             both == Len(rest)
             whole == Len(text)
  <2>10. /\ left \in Nat /\ right \in Nat /\ after \in Nat /\ both \in Nat /\ whole \in Nat
         /\ lead \in Nat
    BY <2>9
  <2>11. /\ both = left + 1 + right /\ both <= after /\ lead <= left
         /\ request.found => whole = Len(request.left) + 1 + after
         /\ ~request.found => after = 0
    <3>1. Len(<<>>) = 0
      OBVIOUS
    <3>2. QED
      BY <1>2, <1>3, <1>4, <2>2, <2>5, <3>1, Zenon
  <2>12. whole <= MAX_PUT_BYTES
    BY <2>2, <2>9, CapsAssumption DEF put_too_long
  <2> HIDE DEF lead, left, right, after, both, whole
  <2>13. request.found
    BY <2>11, <2>10
  <2>14. lead + right + 3 <= MAX_PUT_BYTES
    <3>1. whole = 1 + 1 + after
      BY <2>8, <2>11, <2>13
    <3>2. QED
      BY <2>11, <2>12, <2>10, <3>1, CapsAssumption
  <2>15. parse(body).op \in Operations(Char)
    BY <1>4, <2>6, OperationsMade
  <2>16. QED
    BY <2>7, <2>14, <2>15, Zenon DEF lead, right
<1>11. CASE verb # <<"GET">> /\ verb \notin {<<"RM">>, <<"DEL">>, <<"PUT">>, <<"SET">>}
  BY <1>5, <1>6, <1>11, Zenon
<1>12. QED
  BY <1>8, <1>9, <1>10, <1>11, Zenon

-----------------------------------------------------------------------------
(* How long a message is: its number, its rest, its kind and two           *)
(* separators.                                                             *)
LEMMA LineLength ==
    ASSUME NEW Char, NEW kind, NEW n \in Nat, NEW rest \in Seq(Char)
    PROVE  /\ Line(kind, n, rest) \in Seq(Char \cup Digits \cup {kind, SP})
           /\ Len(Line(kind, n, rest)) = Len(decimal[n]) + Len(rest) + 3
<1>1. PICK d \in Seq(Digits) : d = decimal[n]
  <2>1. decimal[n] \in Seq(Digits)
    BY DecimalShows
  <2>2. QED
    BY <2>1
<1>2. /\ <<kind, SP>> \o d \o <<SP>> \o rest \in Seq(Char \cup Digits \cup {kind, SP})
      /\ Len(<<kind, SP>> \o d \o <<SP>> \o rest) = Len(d) + Len(rest) + 3
  OBVIOUS
<1>3. QED
  BY <1>1, <1>2, Zenon DEF Line

(* An operation has a key and a value. *)
LEMMA OperationTyped ==
    ASSUME NEW Char, NEW op \in Operations(Char)
    PROVE  op.key \in Nat /\ op.value \in Seq(Char)
<1>1. \/ \E k \in Nat : op = Get(k)
      \/ \E k \in Nat : op = Rm(k)
      \/ \E k \in Nat : \E v \in Seq(Char) : op = Put(k, v)
  BY DEF Operations
<1>2. <<>> \in Seq(Char)
  OBVIOUS
<1>3. CASE \E k \in Nat : op = Get(k)
  BY <1>2, <1>3 DEF Get
<1>4. CASE \E k \in Nat : op = Rm(k)
  BY <1>2, <1>4 DEF Rm
<1>5. CASE \E k \in Nat : \E v \in Seq(Char) : op = Put(k, v)
  BY <1>5 DEF Put
<1>6. QED
  BY <1>1, <1>3, <1>4, <1>5

(* What a client asks of the wrong node reaches the right one as it was    *)
(* asked, under its own id: what Op::parse makes of a body survives        *)
(* Peer::encode and Peer::decode, whatever the body.  A PUT among it fits  *)
(* the limit on the client's text but for the kind of the message, the id  *)
(* and two spaces.                                                         *)
THEOREM AskedIsForwarded ==
    ASSUME NEW Char, NEW corr \in Nat, NEW body \in Seq(Char), parse(body).ok
    PROVE  LET asked == parse(body)
           IN  /\ decode(encode(Request(corr, asked.op))) = decoded(Request(corr, asked.op))
               /\ decode(encode(Response(corr, Value(asked.op.value))))
                     = decoded(Response(corr, Value(asked.op.value)))
               /\ asked.op.verb = "Put" =>
                     Len(encode(Request(corr, asked.op)))
                        <= MAX_PUT_BYTES + Len(decimal[corr]) + 3
<1> DEFINE op == parse(body).op
<1>1. /\ op \in Operations(Char)
      /\ op.verb = "Put" => Len(decimal[op.key]) + Len(op.value) + 3 <= MAX_PUT_BYTES
  BY ParsedIsOperation, Zenon
<1> HIDE DEF op
<1>2. op.value \in Seq(Char) /\ op.key \in Nat
  BY <1>1, OperationTyped
<1>3. decode(encode(Request(corr, op))) = decoded(Request(corr, op))
  BY <1>1, RequestsSurvive
<1>4. decode(encode(Response(corr, Value(op.value)))) = decoded(Response(corr, Value(op.value)))
  <2>1. Value(op.value) \in Replies(Char)
    BY <1>2 DEF Replies
  <2>2. QED
    BY <2>1, ResponsesSurvive
<1>5. ASSUME op.verb = "Put"
      PROVE  Len(encode(Request(corr, op))) <= MAX_PUT_BYTES + Len(decimal[corr]) + 3
  <2> DEFINE m == Request(corr, op)
  <2>1. m.kind = "Request" /\ m.op = op /\ m.corr = corr
    BY DEF Request
  <2>2. op.verb # "Get" /\ op.verb # "Rm"
    BY <1>5
  <2>3. encode(m) = Line("REQ", corr, Line("PUT", op.key, op.value))
    BY <1>5, <2>1, <2>2, Zenon DEF encode, Line
  <2> DEFINE rest == Line("PUT", op.key, op.value)
             keyed == Len(decimal[op.key])
             valued == Len(op.value)
             numbered == Len(decimal[corr])
  <2>5. /\ rest \in Seq(Char \cup Digits \cup {"PUT", SP})
        /\ Len(rest) = keyed + valued + 3
    <3> DEFINE k == op.key
               v == op.value
    <3>1. k \in Nat /\ v \in Seq(Char)
      BY <1>2
    <3> HIDE DEF k, v
    <3>2. /\ Line("PUT", k, v) \in Seq(Char \cup Digits \cup {"PUT", SP})
          /\ Len(Line("PUT", k, v)) = Len(decimal[k]) + Len(v) + 3
      BY <3>1, LineLength
    <3>3. QED
      BY <3>2, Zenon DEF k, v
  <2>6. keyed \in Nat /\ valued \in Nat /\ numbered \in Nat
    BY <1>2, DecimalNotEmpty
  <2> HIDE DEF rest
  <2>7. Len(Line("REQ", corr, rest)) = numbered + Len(rest) + 3
    <3> DEFINE All == Char \cup Digits \cup {"PUT", SP}
    <3>1. rest \in Seq(All)
      BY <2>5
    <3> HIDE DEF All
    <3>2. /\ Line("REQ", corr, rest) \in Seq(All \cup Digits \cup {"REQ", SP})
          /\ Len(Line("REQ", corr, rest)) = Len(decimal[corr]) + Len(rest) + 3
      BY <3>1, LineLength
    <3>3. QED
      BY <3>2, Zenon
  <2>8. keyed + valued + 3 <= MAX_PUT_BYTES
    BY <1>1, <1>5, Zenon
  <2> HIDE DEF keyed, valued, numbered
  <2>9. numbered + Len(rest) + 3 <= MAX_PUT_BYTES + numbered + 3
    BY <2>5, <2>6, <2>8, CapsAssumption
  <2>10. Len(encode(m)) <= MAX_PUT_BYTES + numbered + 3
    BY <2>3, <2>7, <2>9, Zenon DEF rest
  <2>11. QED
    BY <2>10, Zenon DEF numbered
<1>6. QED
  BY <1>3, <1>4, <1>5, Zenon DEF op

-----------------------------------------------------------------------------
(* What a node takes a datagram for: the frame, the text in it, and the    *)
(* message that the text says.                                             *)

(* The channel that the two servers share is one. *)
LEMMA PeerChannelIsU32 == PEER_CHANNEL \in U32
<1>1. 0 \in U16 /\ 6767 \in U16
  BY DEF U16
<1>2. QED
  BY <1>1 DEF U32, PEER_CHANNEL

(* What comes out of a frame is what its sender put in. *)
LEMMA OpenedAsSent ==
    ASSUME \A n \in Pair : peer(n) \in Pair,
           NEW d, d.from \in Pair, d.channel \in U32
    PROVE  /\ opened(frame(d)).from_id = d.from /\ opened(frame(d)).channel = d.channel
           /\ opened(frame(d)).payload.id = d.text
<1> DEFINE f == frame(d)
           prefix == prefix_of(d.from, peer(d.from), d.channel, "Standard", EPOCH)
<1>1. f.prefix = prefix /\ f.box.plain = payload(d)
  BY Zenon DEF frame, standard_frame, aead_encrypt
<1>2. d.from \in U16 /\ peer(d.from) \in U16
  BY PairAssumption
<1>3. "Standard" \in Mode /\ EPOCH \in Epoch
  BY DEF Mode, EPOCH, Epoch, MAX_EPOCH
<1>4. /\ parsed_header(prefix) = [from_id |-> d.from, to_id |-> peer(d.from),
                                  channel |-> d.channel]
      /\ parsed_flags(prefix) = [mode |-> "Standard", epoch |-> EPOCH]
  <2> DEFINE from == d.from
             to == peer(d.from)
             channel == d.channel
  <2>1. from \in U16 /\ to \in U16 /\ channel \in U32
    BY <1>2
  <2> HIDE DEF from, to, channel
  <2>2. \A p : p = prefix_of(from, to, channel, "Standard", EPOCH) =>
           /\ parsed_header(p) = [from_id |-> from, to_id |-> to, channel |-> channel]
           /\ parsed_flags(p) = [mode |-> "Standard", epoch |-> EPOCH]
    BY <1>3, <2>1, PrefixReads
  <2>3. QED
    BY <2>2, Zenon DEF from, to, channel
<1> HIDE DEF f, prefix
<1>5. /\ parsed_header(f.prefix).channel = d.channel
      /\ parsed_header(f.prefix).from_id = d.from
      /\ parsed_flags(f.prefix).mode = "Standard"
  BY <1>1, <1>4
<1>6. /\ opened(f).channel = d.channel /\ opened(f).from_id = d.from
      /\ opened(f).payload = payload(d)
  BY <1>1, <1>5 DEF opened
<1>7. opened(f).payload.id = d.text
  BY <1>6 DEF payload
<1>8. QED
  BY <1>6, <1>7, Zenon DEF f

(* A node takes the text of a datagram only from its peer, and on the      *)
(* channel of the two.                                                     *)
LEMMA TakesText ==
    ASSUME \A m \in Pair : peer(m) \in Pair,
           NEW n, NEW d, d.from \in Pair, d.channel \in U32
    PROVE  \/ takes(n, d) = undecodable
           \/ /\ takes(n, d) = decode(d.text)
              /\ d.from = peer(n) /\ d.channel = PEER_CHANNEL
<1>1. /\ opened(frame(d)).from_id = d.from /\ opened(frame(d)).channel = d.channel
      /\ opened(frame(d)).payload.id = d.text
  BY OpenedAsSent
<1>2. QED
  BY <1>1, Zenon DEF takes

(* The letters of a reply; the two errors are one letter each. *)
Spoken == Letter \cup {"ceiling", "not the owner"}

(* What a body of a SEND parses to is an operation. *)
LEMMA OpsAreOperations == Ops \subseteq Operations(Letter)
<1> SUFFICES ASSUME NEW op \in Ops PROVE op \in Operations(Letter)
  OBVIOUS
<1>1. PICK body \in Bodies : parsed[body].ok /\ op = parsed[body].op
  BY DEF Ops
<1>2. parsed[body] = parse(body)
  BY DEF parsed
<1>3. body \in Seq(Letter) /\ parse(body).ok
  BY <1>1, <1>2, TextAssumption
<1>4. parse(body).op \in Operations(Letter)
  BY <1>3, ParsedIsOperation, Zenon
<1>5. QED
  BY <1>1, <1>2, <1>4

(* What a store answers is a reply that has a text. *)
LEMMA KvRepliesAreReplies == KvReplies \subseteq Replies(Spoken)
<1> SUFFICES ASSUME NEW reply \in KvReplies PROVE reply \in Replies(Spoken)
  OBVIOUS
<1>1. <<"ceiling">> \in Seq(Spoken) /\ <<"not the owner">> \in Seq(Spoken)
  BY DEF Spoken
<1>2. CASE reply \in {Ok, Nil, Err(<<"ceiling">>), NotOwner}
  BY <1>1, <1>2, Zenon DEF Replies, NotOwner
<1>3. CASE \E op \in Ops : reply = Value(op.value)
  <2>1. PICK op \in Ops : reply = Value(op.value)
    BY <1>3
  <2>2. op.value \in Seq(Letter)
    BY OpsAreOperations, OperationTyped
  <2>3. op.value \in Seq(Spoken)
    <3>1. Letter \subseteq Spoken
      BY Zenon DEF Spoken
    <3>2. Seq(Letter) \subseteq Seq(Spoken)
      BY <3>1, SeqMonotonic
    <3>3. QED
      BY <2>2, <3>2
  <2>4. QED
    BY <2>1, <2>3 DEF Replies
<1>4. QED
  BY <1>2, <1>3 DEF KvReplies

(* Datagrams of other programs are never taken for a message. *)
LEMMA StrayIsIgnored ==
    ASSUME \A m \in Pair : peer(m) \in Pair, NEW n \in Pair, NEW d \in Stray
    PROVE  ~taken[n][d].ok
<1>1. d \in Datagrams
  BY DEF Datagrams
<1>2. taken[n][d] = takes(n, d)
  BY <1>1, Zenon DEF taken
<1>3. d.from \in Pair /\ d.channel \in U32 /\ d.channel # PEER_CHANNEL
  BY TextAssumption
<1>4. takes(n, d) = undecodable
  BY <1>3, TakesText, Zenon
<1>5. QED
  BY <1>2, <1>4 DEF undecodable

(* What encode makes of a request or of a response, decode reads back. *)
LEMMA MessagesSurvive ==
    ASSUME NEW m \in Messages
    PROVE  decode(encode(m)) = decoded(m)
<1> DEFINE of(j) == {Request(j, op) : op \in Ops} \cup {Response(j, reply) : reply \in KvReplies}
<1>1. Messages = UNION {of(j) : j \in 1..MaxRequests}
  BY Zenon DEF Messages
<1> HIDE DEF of
<1>2. PICK i \in 1..MaxRequests : m \in of(i)
  BY <1>1
<1>3. i \in Nat
  OBVIOUS
<1>4. ASSUME NEW op \in Ops, m = Request(i, op)
      PROVE  decode(encode(m)) = decoded(m)
  <2>1. op \in Operations(Letter)
    BY OpsAreOperations
  <2>2. decode(encode(Request(i, op))) = decoded(Request(i, op))
    BY <1>3, <2>1, RequestsSurvive
  <2>3. QED
    BY <1>4, <2>2, Zenon
<1>5. ASSUME NEW reply \in KvReplies, m = Response(i, reply)
      PROVE  decode(encode(m)) = decoded(m)
  <2>1. reply \in Replies(Spoken)
    BY KvRepliesAreReplies
  <2>2. decode(encode(Response(i, reply))) = decoded(Response(i, reply))
    BY <1>3, <2>1, ResponsesSurvive
  <2>3. QED
    BY <1>5, <2>2, Zenon
<1>6. \/ \E op \in Ops : m = Request(i, op)
      \/ \E reply \in KvReplies : m = Response(i, reply)
  BY <1>2 DEF of
<1>7. QED
  BY <1>4, <1>5, <1>6, Zenon

(* A message that is taken is the message that was sent, and its sender is *)
(* the peer: what seal, the network, open and decode do in between changes *)
(* nothing.                                                                *)
LEMMA MessageTakenAsSent ==
    ASSUME \A k \in Pair : peer(k) \in Pair,
           NEW n \in Pair, NEW from \in Pair, NEW r \in 1..MaxRequests,
           NEW m \in Messages, NEW d, d = datagram(from, m, r), taken[n][d].ok
    PROVE  taken[n][d].message = m /\ from = peer(n)
<1>1. d \in Datagrams
  BY DEF Datagrams
<1>2. taken[n][d] = takes(n, d)
  BY <1>1, Zenon DEF taken
<1>3. takes(n, d) # undecodable
  BY <1>2 DEF undecodable
<1>4. d.from = from /\ d.channel = PEER_CHANNEL /\ d.text = encode(m)
  BY DEF datagram
<1>5. takes(n, d) = decode(d.text) /\ d.from = peer(n)
  BY <1>3, <1>4, PeerChannelIsU32, TakesText, Zenon
<1>6. taken[n][d] = decoded(m)
  BY <1>2, <1>4, <1>5, MessagesSurvive, Zenon
<1>7. decoded(m).message = m
  BY DEF decoded
<1>8. QED
  BY <1>4, <1>5, <1>6, <1>7, Zenon

(* The texts and the frames are all that the pair relies on. *)
LEMMA FaithfulLink ==
    ASSUME \A n \in Pair : peer(n) \in Pair
    PROVE  LinkIsFaithful
<1>1. OpsWellFormed
  <2> SUFFICES ASSUME NEW op \in Ops
               PROVE  /\ op.key \in Nat /\ op.verb \in {"Get", "Put", "Rm"}
                      /\ op.verb = "Put" => op = Put(op.key, op.value)
    BY DEF OpsWellFormed
  <2>1. op \in Operations(Letter)
    BY OpsAreOperations
  <2>2. QED
    BY <2>1 DEF Operations, Get, Put, Rm
<1>2. StrayIgnored
  BY StrayIsIgnored, Zenon DEF StrayIgnored
<1>3. TakenAsSent
  BY MessageTakenAsSent, Zenon DEF TakenAsSent
<1>4. QED
  BY <1>1, <1>2, <1>3 DEF LinkIsFaithful

=============================================================================
