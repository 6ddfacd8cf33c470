---------------------------- MODULE MessageProofs ----------------------------
(***************************************************************************)
(* What the message classes serialize, their constructors read: every      *)
(* message made of a name, fields, an id, a text or data that fits is      *)
(* parsed by Reader, and as what it was made of. For every value of these. *)
(***************************************************************************)
EXTENDS Serialization, ReaderDispatch, RecursionProofs

(* None of the characters of s is in C. *)
Free(s, C) == \A i \in 1 .. Len(s) : s[i] \notin C

LEMMA FirstIs ==
    ASSUME NEW S \in SUBSET Int, NEW p \in S, \A q \in S : p <= q
    PROVE  First(S) = p
  <1>1. \A x \in S : (\A j \in S : x <= j) => x = p
    OBVIOUS
  <1>2. First(S) \in S /\ \A j \in S : First(S) <= j
    BY Zenon DEF First
  <1> QED BY <1>1, <1>2

LEMMA FinalIs ==
    ASSUME NEW S \in SUBSET Int, NEW p \in S, \A q \in S : p >= q
    PROVE  Final(S) = p
  <1>1. \A x \in S : (\A j \in S : x >= j) => x = p
    OBVIOUS
  <1>2. Final(S) \in S /\ \A j \in S : Final(S) >= j
    BY Zenon DEF Final
  <1> QED BY <1>1, <1>2

LEMMA LeadingIs ==
    ASSUME NEW s \in Seq(Byte), NEW C, NEW n \in 0 .. Len(s),
           \A i \in 1 .. n : s[i] \in C, n < Len(s) => s[n + 1] \notin C
    PROVE  Leading(s, C) = n
  <1> DEFINE L(k) == (\A i \in 1 .. k : s[i] \in C) /\ (k < Len(s) => s[k + 1] \notin C)
  <1>1. L(n) /\ Len(s) \in Nat
    OBVIOUS
  <1>2. \A k \in 0 .. Len(s) : L(k) => k = n
    <2> SUFFICES ASSUME NEW k \in 0 .. Len(s), L(k), k # n PROVE FALSE
      OBVIOUS
    <2>1. CASE k < n
      <3>1. k + 1 \in 1 .. n /\ k < Len(s)
        BY <2>1
      <3> QED BY <3>1
    <2>2. CASE k > n
      <3>1. n + 1 \in 1 .. k /\ n < Len(s)
        BY <2>2
      <3> QED BY <3>1
    <2> QED BY <2>1, <2>2
  <1>3. Leading(s, C) = CHOOSE k \in 0 .. Len(s) : L(k)
    BY DEF Leading
  <1> HIDE DEF L
  <1> QED BY <1>1, <1>2, <1>3

-----------------------------------------------------------------------------
(* Names of types *)
Special == {Space, Colon, Semicolon, OpenBracket, CloseBracket}

LEMMA FreeConcat ==
    ASSUME NEW a \in Seq(Byte), NEW b \in Seq(Byte), NEW C, Free(a, C), Free(b, C)
    PROVE  a \o b \in Seq(Byte) /\ Free(a \o b, C) /\ Len(a \o b) = Len(a) + Len(b)
  <1>1. /\ a \o b \in Seq(Byte) /\ Len(a \o b) = Len(a) + Len(b)
        /\ \A i \in 1 .. Len(a) + Len(b) : (a \o b)[i] = IF i <= Len(a) THEN a[i] ELSE b[i - Len(a)]
    BY ConcatProperties
  <1> QED BY <1>1 DEF Free

LEMMA BasicTypesAre ==
    BasicTypes = {"int8_t", "uint8_t", "int16_t", "uint16_t", "int32_t", "uint32_t", "int64_t",
                  "uint64_t", "float", "double", "bool", "char"}
  BY DEF BasicTypes, TypeSize

IntText(bits) == <<105, 110, 116>> \o bits \o <<95, 116>>

LEMMA TypeWords ==
    /\ TypeText["int8_t"] = IntText(<<56>>)
    /\ TypeText["uint8_t"] = <<117>> \o IntText(<<56>>)
    /\ TypeText["int16_t"] = IntText(<<49, 54>>)
    /\ TypeText["uint16_t"] = <<117>> \o IntText(<<49, 54>>)
    /\ TypeText["int32_t"] = IntText(<<51, 50>>)
    /\ TypeText["uint32_t"] = <<117>> \o IntText(<<51, 50>>)
    /\ TypeText["int64_t"] = IntText(<<54, 52>>)
    /\ TypeText["uint64_t"] = <<117>> \o IntText(<<54, 52>>)
    /\ TypeText["float"] = <<102, 108, 111, 97, 116>>
    /\ TypeText["double"] = <<100, 111, 117, 98, 108, 101>>
    /\ TypeText["bool"] = <<98, 111, 111, 108>>
    /\ TypeText["char"] = <<99, 104, 97, 114>>
  <1>1. TypeText["int8_t"] = IntText(<<56>>)
    BY BasicTypesAre DEF TypeText, IntText
  <1>2. TypeText["uint8_t"] = <<117>> \o IntText(<<56>>)
    BY BasicTypesAre DEF TypeText, IntText
  <1>3. TypeText["int16_t"] = IntText(<<49, 54>>)
    BY BasicTypesAre DEF TypeText, IntText
  <1>4. TypeText["uint16_t"] = <<117>> \o IntText(<<49, 54>>)
    BY BasicTypesAre DEF TypeText, IntText
  <1>5. TypeText["int32_t"] = IntText(<<51, 50>>)
    BY BasicTypesAre DEF TypeText, IntText
  <1>6. TypeText["uint32_t"] = <<117>> \o IntText(<<51, 50>>)
    BY BasicTypesAre DEF TypeText, IntText
  <1>7. TypeText["int64_t"] = IntText(<<54, 52>>)
    BY BasicTypesAre DEF TypeText, IntText
  <1>8. TypeText["uint64_t"] = <<117>> \o IntText(<<54, 52>>)
    BY BasicTypesAre DEF TypeText, IntText
  <1>9. TypeText["float"] = <<102, 108, 111, 97, 116>>
    BY BasicTypesAre DEF TypeText, IntText
  <1>10. TypeText["double"] = <<100, 111, 117, 98, 108, 101>>
    BY BasicTypesAre DEF TypeText, IntText
  <1>11. TypeText["bool"] = <<98, 111, 111, 108>>
    BY BasicTypesAre DEF TypeText, IntText
  <1>12. TypeText["char"] = <<99, 104, 97, 114>>
    BY BasicTypesAre DEF TypeText, IntText
  <1> QED BY <1>1, <1>2, <1>3, <1>4, <1>5, <1>6, <1>7, <1>8, <1>9, <1>10, <1>11, <1>12

LEMMA TypeNames ==
    ASSUME NEW t \in BasicTypes
    PROVE  TypeText[t] \in Seq(Byte) /\ Len(TypeText[t]) >= 1 /\ Free(TypeText[t], Special)
  <1> DEFINE Plain(s) == s \in Seq(Byte) /\ Len(s) >= 1 /\ Free(s, Special)
  <1>1. Plain(<<105, 110, 116>>) /\ Plain(<<95, 116>>) /\ Plain(<<117>>)
    BY DEF Byte, Free, Special, Space, Colon, Semicolon, OpenBracket, CloseBracket
  <1>2. Plain(<<56>>) /\ Plain(<<49, 54>>) /\ Plain(<<51, 50>>) /\ Plain(<<54, 52>>)
    BY DEF Byte, Free, Special, Space, Colon, Semicolon, OpenBracket, CloseBracket
  <1>3. /\ Plain(<<102, 108, 111, 97, 116>>) /\ Plain(<<100, 111, 117, 98, 108, 101>>)
        /\ Plain(<<98, 111, 111, 108>>) /\ Plain(<<99, 104, 97, 114>>)
    BY DEF Byte, Free, Special, Space, Colon, Semicolon, OpenBracket, CloseBracket
  <1>4. ASSUME NEW a, NEW b, Plain(a), Plain(b) PROVE Plain(a \o b)
    <2>1. Len(a) \in Nat /\ Len(b) \in Nat
      BY <1>4, LenProperties
    <2>2. a \o b \in Seq(Byte) /\ Free(a \o b, Special) /\ Len(a \o b) = Len(a) + Len(b)
      BY <1>4, FreeConcat
    <2> QED BY <1>4, <2>1, <2>2
  <1> HIDE DEF Plain
  <1>5. ASSUME NEW bits, Plain(bits) PROVE Plain(IntText(bits)) /\ Plain(<<117>> \o IntText(bits))
    BY <1>1, <1>4, <1>5 DEF IntText
  <1>6. /\ Plain(TypeText["int8_t"]) /\ Plain(TypeText["int16_t"])
        /\ Plain(TypeText["int32_t"]) /\ Plain(TypeText["int64_t"])
    BY <1>2, <1>5, TypeWords
  <1>7. /\ Plain(TypeText["uint8_t"]) /\ Plain(TypeText["uint16_t"])
        /\ Plain(TypeText["uint32_t"]) /\ Plain(TypeText["uint64_t"])
    BY <1>2, <1>5, TypeWords
  <1>8. /\ Plain(TypeText["float"]) /\ Plain(TypeText["double"])
        /\ Plain(TypeText["bool"]) /\ Plain(TypeText["char"])
    BY <1>3, TypeWords
  <1>9. Plain(TypeText[t])
    BY <1>6, <1>7, <1>8, BasicTypesAre
  <1> QED BY <1>9 DEF Plain

-----------------------------------------------------------------------------
(* Induction over the digits of numbers. *)
LEMMA DigitInduction ==
    ASSUME NEW S \in SUBSET Nat, 0 .. 9 \subseteq S,
           \A n \in Nat : n >= 10 /\ n \div 10 \in S => n \in S
    PROVE  S = Nat
  <1> DEFINE T == {n \in Nat : 0 .. n \subseteq S}
  <1>1. 0 \in T
    OBVIOUS
  <1>2. ASSUME NEW n \in Nat, n \in T PROVE n + 1 \in T
    <2>1. CASE n + 1 < 10
      BY <1>2, <2>1
    <2>2. CASE n + 1 >= 10
      <3>1. (n + 1) \div 10 \in 0 .. n
        BY <2>2
      <3>2. n + 1 \in S
        BY <1>2, <2>2, <3>1
      <3> QED BY <1>2, <3>2
    <2> QED BY <2>1, <2>2
  <1>3. T = Nat
    <2>1. T \in SUBSET Nat
      OBVIOUS
    <2> HIDE DEF T
    <2> QED BY <1>1, <1>2, <2>1, NatSetInduction
  <1>4. \A n \in Nat : n \in 0 .. n
    OBVIOUS
  <1> QED BY <1>3, <1>4

(* The function of Decimal, and that there is one.                          *)
DigitsStep(g, k) == IF k < 10 THEN <<48 + k>> ELSE Append(g[k \div 10], 48 + (k % 10))
DigitsOver(g, n) == g = [k \in 0 .. n |-> DigitsStep(g, k)]

LEMMA DigitsExist == ASSUME NEW n \in Nat PROVE \E g : DigitsOver(g, n)
  <1> DEFINE S == {m \in Nat : \E g : DigitsOver(g, m)}
  <1>1. 0 \in S
    <2> DEFINE g == [k \in 0 .. 0 |-> <<48>>]
    <2>1. DigitsOver(g, 0)
      BY DEF DigitsOver, DigitsStep
    <2> HIDE DEF g
    <2> QED BY <2>1
  <1>2. ASSUME NEW m \in Nat, m \in S PROVE m + 1 \in S
    <2>1. PICK g : DigitsOver(g, m)
      BY <1>2
    <2> DEFINE h == [k \in 0 .. m + 1 |-> IF k = m + 1 THEN DigitsStep(g, k) ELSE g[k]]
    <2>2. h[m + 1] = DigitsStep(g, m + 1) /\ \A k \in 0 .. m : h[k] = g[k]
      OBVIOUS
    <2>3. h = [k \in 0 .. m + 1 |-> h[k]]
      OBVIOUS
    <2>4. \A k \in 0 .. m : g[k] = DigitsStep(g, k)
      BY <2>1 DEF DigitsOver
    <2> HIDE DEF h
    <2>5. ASSUME NEW k \in 0 .. m + 1 PROVE DigitsStep(h, k) = DigitsStep(g, k)
      <3>1. CASE k < 10
        BY <3>1 DEF DigitsStep
      <3>2. CASE ~ k < 10
        <4>1. k \div 10 \in 0 .. m
          BY <3>2
        <4> QED BY <2>2, <4>1 DEF DigitsStep
      <3> QED BY <3>1, <3>2
    <2>6. ASSUME NEW k \in 0 .. m + 1 PROVE h[k] = DigitsStep(h, k)
      <3>1. k \in 0 .. m \/ k = m + 1
        OBVIOUS
      <3> QED BY <2>2, <2>4, <2>5, <3>1
    <2>7. DigitsOver(h, m + 1)
      BY <2>3, <2>6 DEF DigitsOver
    <2> QED BY <2>7
  <1>3. S = Nat
    <2>1. S \in SUBSET Nat
      OBVIOUS
    <2> HIDE DEF S
    <2> QED BY <1>1, <1>2, <2>1, NatSetInduction
  <1> QED BY <1>3

LEMMA DigitsAgree ==
    ASSUME NEW n \in Nat, NEW m \in Nat, NEW g, NEW h, DigitsOver(g, n), DigitsOver(h, m)
    PROVE  \A k \in Nat : k <= n /\ k <= m => g[k] = h[k]
  <1> DEFINE S == {k \in Nat : k <= n /\ k <= m => g[k] = h[k]}
  <1>0. /\ \A k \in 0 .. n : g[k] = DigitsStep(g, k)
        /\ \A k \in 0 .. m : h[k] = DigitsStep(h, k)
    BY DEF DigitsOver
  <1>1. 0 .. 9 \subseteq S
    <2> SUFFICES ASSUME NEW k \in 0 .. 9, k <= n, k <= m PROVE g[k] = h[k]
      OBVIOUS
    <2>1. k \in 0 .. n /\ k \in 0 .. m /\ k < 10
      OBVIOUS
    <2>2. DigitsStep(g, k) = <<48 + k>> /\ DigitsStep(h, k) = <<48 + k>>
      BY <2>1 DEF DigitsStep
    <2> QED BY <1>0, <2>1, <2>2
  <1>2. ASSUME NEW k \in Nat, k >= 10, k \div 10 \in S PROVE k \in S
    <2> SUFFICES ASSUME k <= n, k <= m PROVE g[k] = h[k]
      OBVIOUS
    <2>1. k \div 10 \in Nat /\ k \div 10 <= k
      BY <1>2
    <2>2. g[k \div 10] = h[k \div 10]
      BY <1>2, <2>1
    <2>3. k \in 0 .. n /\ k \in 0 .. m /\ ~ k < 10
      BY <1>2
    <2>4. g[k] = DigitsStep(g, k) /\ h[k] = DigitsStep(h, k)
      BY <1>0, <2>3
    <2> QED BY <2>2, <2>3, <2>4 DEF DigitsStep
  <1>3. S = Nat
    <2>1. S \in SUBSET Nat
      OBVIOUS
    <2> HIDE DEF S
    <2> QED BY <1>1, <1>2, <2>1, DigitInduction
  <1> QED BY <1>3

LEMMA DecimalIs ==
    ASSUME NEW n \in Nat
    PROVE  /\ n < 10 => Decimal(n) = <<48 + n>>
           /\ n >= 10 => Decimal(n) = Append(Decimal(n \div 10), 48 + (n % 10))
  <1> DEFINE u(k) == CHOOSE g : DigitsOver(g, k)
  <1>1. ASSUME NEW k \in Nat PROVE Decimal(k) = u(k)[k] /\ DigitsOver(u(k), k)
    <2>1. Decimal(k) = u(k)[k]
      BY DEF Decimal, DigitsOver, DigitsStep
    <2>2. DigitsOver(u(k), k)
      BY DigitsExist, Zenon
    <2> QED BY <2>1, <2>2
  <1> HIDE DEF u
  <1>2. u(n)[n] = DigitsStep(u(n), n)
    BY <1>1 DEF DigitsOver
  <1>3. ASSUME n >= 10 PROVE u(n)[n \div 10] = u(n \div 10)[n \div 10]
    <2>1. n \div 10 \in Nat /\ n \div 10 <= n
      BY <1>3
    <2> QED BY <1>1, <2>1, DigitsAgree
  <1>4. n >= 10 => n \div 10 \in Nat
    OBVIOUS
  <1>5. Decimal(n) = DigitsStep(u(n), n)
    BY <1>1, <1>2
  <1>6. n < 10 => Decimal(n) = <<48 + n>>
    BY <1>5 DEF DigitsStep
  <1>7. ASSUME n >= 10 PROVE Decimal(n) = Append(Decimal(n \div 10), 48 + (n % 10))
    <2>1. Decimal(n \div 10) = u(n)[n \div 10]
      BY <1>1, <1>3, <1>4, <1>7
    <2>2. DigitsStep(u(n), n) = Append(u(n)[n \div 10], 48 + (n % 10))
      BY <1>7 DEF DigitsStep
    <2> QED BY <1>5, <2>1, <2>2
  <1> QED BY <1>6, <1>7

-----------------------------------------------------------------------------
(* A decimal is made of digits, and begins with a 0 only when it is 0.      *)
LEMMA DecimalTyped ==
    ASSUME NEW n \in Nat
    PROVE  /\ Decimal(n) \in Seq(Digit) /\ Len(Decimal(n)) >= 1
           /\ Decimal(n)[1] = 48 <=> n = 0
  <1> DEFINE P(k) == /\ Decimal(k) \in Seq(Digit) /\ Len(Decimal(k)) >= 1
                     /\ Decimal(k)[1] = 48 <=> k = 0
             S == {k \in Nat : P(k)}
  <1>1. ASSUME NEW k \in 0 .. 9 PROVE k \in S
    <2>1. Decimal(k) = <<48 + k>>
      BY DecimalIs
    <2>2. 48 + k \in Digit
      BY DEF Digit
    <2>3. <<48 + k>> \in Seq(Digit) /\ Len(<<48 + k>>) = 1 /\ <<48 + k>>[1] = 48 + k
      BY <2>2
    <2>4. 48 + k = 48 <=> k = 0
      OBVIOUS
    <2>5. P(k)
      BY <2>1, <2>3, <2>4
    <2> HIDE DEF P
    <2> QED BY <2>5
  <1>2. ASSUME NEW k \in Nat, k >= 10, k \div 10 \in S PROVE k \in S
    <2> DEFINE d == Decimal(k \div 10)
    <2>1. Decimal(k) = Append(d, 48 + (k % 10))
      BY <1>2, DecimalIs
    <2>2. d \in Seq(Digit) /\ Len(d) >= 1 /\ (d[1] = 48 <=> k \div 10 = 0)
      BY <1>2
    <2>3. k \div 10 # 0 /\ k # 0
      BY <1>2
    <2>4. 48 + (k % 10) \in Digit
      BY DEF Digit
    <2> HIDE DEF d
    <2>5. /\ Append(d, 48 + (k % 10)) \in Seq(Digit)
          /\ Len(Append(d, 48 + (k % 10))) >= 1
          /\ Append(d, 48 + (k % 10))[1] = d[1]
      BY <2>2, <2>4, LenProperties, AppendProperties
    <2> QED BY <2>1, <2>2, <2>3, <2>5
  <1>3. S = Nat
    <2>1. S \in SUBSET Nat
      OBVIOUS
    <2> HIDE DEF S
    <2> QED BY <1>1, <1>2, <2>1, DigitInduction
  <1> QED BY <1>3

(* The largest int, digit by digit and prefix by prefix. *)
MaxDigits  == <<50, 49, 52, 55, 52, 56, 51, 54, 52, 55>>
MaxPrefix  == <<2, 21, 214, 2147, 21474, 214748, 2147483, 21474836, 214748364, 2147483647>>

(* A decimal of k digits, against the first k of those of the largest int.  *)
Below(k, n) ==
    LET d == Decimal(n)
    IN  /\ Len(d) >= 1 /\ Len(d) <= k
        /\ Len(d) = k =>
             /\ ~ \E i \in 1 .. k : d[i] > MaxDigits[i] /\ \A j \in 1 .. i - 1 : d[j] = MaxDigits[j]
             /\ (\A i \in 1 .. k : d[i] = MaxDigits[i]) => n = MaxPrefix[k]

LEMMA MaxIntIs == MaxInt(FALSE) = MaxDigits
  <1> DEFINE a == <<50, 49, 52, 55, 52, 56, 51, 54, 52>>
             b == <<55>>
             c == MaxDigits
  <1>1. a \in Seq(Nat) /\ b \in Seq(Nat) /\ c \in Seq(Nat) /\ Len(a) = 9 /\ Len(b) = 1 /\ Len(c) = 10
    BY DEF MaxDigits
  <1>2. \A i \in 1 .. 10 : (a \o b)[i] = c[i]
    BY DEF MaxDigits
  <1>3. a \o b \in Seq(Nat) /\ Len(a \o b) = 10
    BY <1>1
  <1>4. MaxInt(FALSE) = a \o b
    BY DEF MaxInt
  <1> HIDE DEF a, b, c
  <1>5. a \o b = c
    BY <1>1, <1>2, <1>3, SeqEqual
  <1> QED BY <1>4, <1>5 DEF c

LEMMA DecimalBelow ==
    ASSUME NEW k \in 1 .. 10
    PROVE  \A n \in 0 .. MaxPrefix[k] : Below(k, n)
  <1> DEFINE S == {m \in Nat : m + 1 <= 10 => \A n \in 0 .. MaxPrefix[m + 1] : Below(m + 1, n)}
  <1>1. 0 \in S
    <2> SUFFICES ASSUME NEW n \in 0 .. 2 PROVE Below(1, n)
      BY DEF MaxPrefix
    <2>1. Decimal(n) = <<48 + n>>
      BY DecimalIs
    <2>2. MaxDigits[1] = 50 /\ MaxPrefix[1] = 2
      BY DEF MaxDigits, MaxPrefix
    <2> QED BY <2>1, <2>2 DEF Below
  <1>2. ASSUME NEW m \in Nat, m \in S PROVE m + 1 \in S
    <2> DEFINE k1 == m + 1
               k2 == m + 2
    <2> SUFFICES ASSUME m + 2 <= 10, NEW n \in 0 .. MaxPrefix[m + 2] PROVE Below(m + 2, n)
      BY m + 1 + 1 = m + 2
    <2>1. m \in 0 .. 8
      OBVIOUS
    <2>2. /\ MaxPrefix[m + 2] = 10 * MaxPrefix[m + 1] + (MaxDigits[m + 2] - 48)
          /\ MaxPrefix[m + 1] \in Nat /\ MaxPrefix[m + 1] >= 2 /\ MaxDigits[m + 2] \in 48 .. 57
      BY <2>1 DEF MaxPrefix, MaxDigits
    <2>3. \A q \in 0 .. MaxPrefix[m + 1] : Below(m + 1, q)
      BY <1>2, <2>1
    <2> HIDE DEF S
    <2>4. CASE n < 10
      <3>1. Decimal(n) = <<48 + n>>
        BY <2>2, <2>4, DecimalIs
      <3> QED BY <3>1 DEF Below
    <2>5. CASE ~ n < 10
      <3> DEFINE q == n \div 10
                 r == n % 10
                 c == Decimal(q)
                 d == Decimal(n)
                 Q == MaxPrefix[m + 1]
                 z == MaxDigits[m + 2]
      <3>0. n \in Nat /\ MaxPrefix[m + 2] = 10 * Q + (z - 48) /\ n <= 10 * Q + (z - 48) /\ z \in 48 .. 57
        BY <2>2
      <3>1. q \in Nat /\ r \in 0 .. 9 /\ n = 10 * q + r
        BY <3>0
      <3>2. q <= Q /\ Q \in Nat
        BY <2>2, <3>0, <3>1
      <3>3. d = Append(c, 48 + r) /\ c \in Seq(Digit)
        <4>1. n \in Nat /\ n >= 10
          BY <2>5, <3>0
        <4>2. d = Append(Decimal(n \div 10), 48 + (n % 10))
          BY <4>1, DecimalIs
        <4> QED BY <3>1, <4>2, DecimalTyped
      <3>4. Below(m + 1, q)
        BY <2>3, <3>1, <3>2
      <3>5. /\ Len(c) >= 1 /\ Len(c) <= m + 1 /\ Len(c) \in Nat
            /\ Len(c) = m + 1 =>
                 /\ \A i \in 1 .. m + 1 :
                      (\A j \in 1 .. i - 1 : c[j] = MaxDigits[j]) => ~ c[i] > MaxDigits[i]
                 /\ (\A i \in 1 .. m + 1 : c[i] = MaxDigits[i]) => q = Q
        BY <3>3, <3>4, LenProperties DEF Below
      <3> HIDE DEF q, r, c, d, Q, z
      <3>6. 48 + r \in Digit
        BY <3>1 DEF Digit
      <3>7. Len(d) = Len(c) + 1 /\ d[Len(c) + 1] = 48 + r /\ \A i \in 1 .. Len(c) : d[i] = c[i]
        BY <3>3, <3>6, AppendProperties
      <3>8. ASSUME Len(d) = m + 2, NEW i \in 1 .. m + 2, d[i] > MaxDigits[i],
                   \A j \in 1 .. i - 1 : d[j] = MaxDigits[j]
            PROVE  FALSE
        <4>1. Len(c) = m + 1
          BY <3>5, <3>7, <3>8
        <4>2. CASE i \in 1 .. m + 1
          <5>1. \A j \in 1 .. i - 1 : c[j] = MaxDigits[j]
            BY <3>7, <3>8, <4>1, <4>2
          <5>2. d[i] = c[i]
            BY <3>7, <4>1, <4>2
          <5> QED BY <3>5, <3>8, <4>1, <4>2, <5>1, <5>2
        <4>3. CASE i = m + 2
          <5>1. \A j \in 1 .. m + 1 : c[j] = MaxDigits[j]
            BY <3>7, <3>8, <4>1, <4>3
          <5>2. q = Q
            BY <3>5, <4>1, <5>1
          <5>3. 48 + r > z
            BY <3>7, <3>8, <4>1, <4>3 DEF z
          <5> QED BY <3>0, <3>1, <3>2, <5>2, <5>3
        <4> QED BY <4>2, <4>3
      <3>9. ASSUME Len(d) = m + 2, \A i \in 1 .. m + 2 : d[i] = MaxDigits[i]
            PROVE  n = MaxPrefix[m + 2]
        <4>1. Len(c) = m + 1
          BY <3>5, <3>7, <3>9
        <4>2. \A j \in 1 .. m + 1 : c[j] = MaxDigits[j]
          BY <3>7, <3>9, <4>1
        <4>3. q = Q
          BY <3>5, <4>1, <4>2
        <4>4. 48 + r = z
          BY <3>7, <3>9, <4>1 DEF z
        <4> QED BY <3>0, <3>1, <3>2, <4>3, <4>4
      <3>10. Len(d) >= 1 /\ Len(d) <= m + 2
        BY <3>5, <3>7
      <3>11. ASSUME Len(d) = m + 2
             PROVE  ~ \E i \in 1 .. m + 2 : d[i] > MaxDigits[i] /\ \A j \in 1 .. i - 1 : d[j] = MaxDigits[j]
        BY <3>8, <3>11
      <3> QED BY <3>9, <3>10, <3>11 DEF Below, d
    <2> QED BY <2>4, <2>5
  <1>3. S = Nat
    <2>1. S \in SUBSET Nat
      OBVIOUS
    <2> HIDE DEF S
    <2> QED BY <1>1, <1>2, <2>1, NatSetInduction
  <1>4. k - 1 \in Nat /\ k - 1 + 1 = k /\ k <= 10
    OBVIOUS
  <1>5. k - 1 \in S
    BY <1>3, <1>4
  <1> QED BY <1>4, <1>5

LEMMA DecimalFits ==
    ASSUME NEW n \in Nat, n <= IntMax
    PROVE  Len(Decimal(n)) <= 10 /\ ~ Exceeds(Decimal(n), MaxInt(FALSE))
  <1>1. MaxPrefix[10] = IntMax /\ IntMax \in Nat /\ 10 \in 1 .. 10
    BY DEF MaxPrefix, IntMax
  <1>2. Below(10, n)
    <2>1. n \in 0 .. MaxPrefix[10]
      BY <1>1
    <2> QED BY <1>1, <2>1, DecimalBelow
  <1>3. Len(MaxDigits) = 10
    BY DEF MaxDigits
  <1>4. Decimal(n) \in Seq(Digit)
    BY DecimalTyped
  <1>5. Len(Decimal(n)) \in Nat /\ Len(Decimal(n)) <= 10
    BY <1>2, <1>4, LenProperties DEF Below
  <1>6. ~ Exceeds(Decimal(n), MaxDigits)
    BY <1>2, <1>3, <1>5 DEF Below, Exceeds
  <1> QED BY <1>5, <1>6, MaxIntIs

-----------------------------------------------------------------------------
LEMMA DigitsAreBytes == ASSUME NEW s \in Seq(Digit) PROVE s \in Seq(Byte)
  <1>1. Digit \subseteq Byte
    BY DEF Digit, Byte
  <1> QED BY <1>1, SeqMonotonic

LEMMA ConcatIs ==
    ASSUME NEW a \in Seq(Byte), NEW b \in Seq(Byte)
    PROVE  /\ a \o b \in Seq(Byte) /\ Len(a \o b) = Len(a) + Len(b)
           /\ \A i \in 1 .. Len(a) : (a \o b)[i] = a[i]
           /\ \A i \in 1 .. Len(b) : (a \o b)[Len(a) + i] = b[i]
  OBVIOUS

LEMMA SubSeqFront ==
    ASSUME NEW a \in Seq(Byte), NEW b \in Seq(Byte)
    PROVE  SubSeq(a \o b, 1, Len(a)) = a /\ SubSeq(a \o b, Len(a) + 1, Len(a) + Len(b)) = b
  <1> DEFINE c == a \o b
             d == SubSeq(c, 1, Len(a))
             e == SubSeq(c, Len(a) + 1, Len(a) + Len(b))
  <1>1. /\ c \in Seq(Byte) /\ Len(c) = Len(a) + Len(b) /\ Len(a) \in Nat /\ Len(b) \in Nat
        /\ \A i \in 1 .. Len(a) : c[i] = a[i]
        /\ \A i \in 1 .. Len(b) : c[Len(a) + i] = b[i]
    OBVIOUS
  <1>2. /\ d \in Seq(Byte) /\ Len(d) = Len(a) /\ \A i \in 1 .. Len(a) : d[i] = a[i]
    OBVIOUS
  <1> HIDE DEF c
  <1>3. \A i \in Len(a) + 1 .. Len(a) + Len(b) : c[i] \in Byte
    BY <1>1, ElementOfSeq
  <1>4. /\ e \in Seq(Byte)
        /\ Len(e) = IF Len(a) + 1 <= Len(a) + Len(b) THEN Len(a) + Len(b) - (Len(a) + 1) + 1 ELSE 0
        /\ \A i \in 1 .. Len(a) + Len(b) - (Len(a) + 1) + 1 : e[i] = c[Len(a) + 1 + i - 1]
    BY <1>1, <1>3, SubSeqProperties
  <1>5. Len(e) = Len(b) /\ \A i \in 1 .. Len(b) : e[i] = b[i]
    <2>1. Len(e) = Len(b)
      BY <1>1, <1>4
    <2>2. ASSUME NEW i \in 1 .. Len(b) PROVE e[i] = b[i]
      <3>1. Len(a) + 1 + i - 1 = Len(a) + i /\ i \in 1 .. Len(a) + Len(b) - (Len(a) + 1) + 1
        BY <1>1
      <3> QED BY <1>1, <1>4, <3>1
    <2> QED BY <2>1, <2>2
  <1> HIDE DEF d, e
  <1>6. d = a /\ e = b
    BY <1>1, <1>2, <1>4, <1>5, SeqEqual
  <1> QED BY <1>6 DEF c, d, e

(* What std::stoi reads of an array length and the bracket behind it.       *)
LEMMA NumberOfDecimal ==
    ASSUME NEW n \in Nat
    PROVE  Number(Decimal(n) \o <<CloseBracket>>) =
             [negative |-> FALSE, read |-> Len(Decimal(n)),
              digits |-> IF n = 0 THEN <<>> ELSE Decimal(n)]
  <1> DEFINE d == Decimal(n)
             s == d \o <<CloseBracket>>
  <1>1. d \in Seq(Digit) /\ d \in Seq(Byte) /\ Len(d) >= 1 /\ Len(d) \in Nat /\ (d[1] = 48 <=> n = 0)
    BY DecimalTyped, DigitsAreBytes, LenProperties
  <1>2. n = 0 => d = <<48>>
    BY DecimalIs
  <1>3. <<CloseBracket>> \in Seq(Byte) /\ Len(<<CloseBracket>>) = 1 /\ <<CloseBracket>>[1] = 93
    BY DEF Byte, CloseBracket
  <1> HIDE DEF d
  <1>4. /\ s \in Seq(Byte) /\ Len(s) = Len(d) + 1
        /\ \A i \in 1 .. Len(d) : s[i] = d[i]
        /\ s[Len(d) + 1] = 93
    BY <1>1, <1>3
  <1>5. SubSeq(s, 1, Len(d)) = d
    BY <1>1, <1>3, SubSeqFront
  <1> HIDE DEF s
  <1>6. \A i \in 1 .. Len(d) : s[i] \in 48 .. 57
    <2>1. \A i \in 1 .. Len(d) : d[i] \in Digit
      BY <1>1, ElementOfSeq
    <2> QED BY <1>4, <2>1 DEF Digit
  <1>7. Leading(s, Blank) = 0
    <2>1. s[1] \notin Blank /\ 0 \in 0 .. Len(s)
      BY <1>1, <1>4, <1>6 DEF Blank, Space
    <2> QED BY <1>1, <1>4, <2>1, LeadingIs
  <1>8. SubSeq(s, Leading(s, Blank) + 1, Len(s)) = s
    BY <1>4, <1>7, SubSeqFull
  <1>9. s # <<>> /\ s[1] \notin {Minus, 43} /\ s[1] # Minus
    BY <1>1, <1>4, <1>6 DEF Minus
  <1>10. Leading(s, Digit) = Len(d)
    <2>1. s[Len(d) + 1] \notin Digit /\ \A i \in 1 .. Len(d) : s[i] \in Digit
      BY <1>4, <1>6 DEF Digit
    <2>2. Len(d) \in 0 .. Len(s)
      BY <1>1, <1>4
    <2> QED BY <1>4, <2>1, <2>2, LeadingIs
  <1>11. Leading(s, {48}) = IF n = 0 THEN 1 ELSE 0
    <2>1. CASE n = 0
      <3>1. Len(d) = 1 /\ d[1] = 48
        BY <1>2, <2>1
      <3>2. 1 \in 0 .. Len(s) /\ (\A i \in 1 .. 1 : s[i] \in {48}) /\ (1 < Len(s) => s[1 + 1] \notin {48})
        BY <1>4, <3>1
      <3> QED BY <1>4, <2>1, <3>2, LeadingIs
    <2>2. CASE n # 0
      <3>1. s[1] # 48 /\ 0 \in 0 .. Len(s)
        BY <1>1, <1>4, <2>2
      <3> QED BY <1>4, <2>2, <3>1, LeadingIs
    <2> QED BY <2>1, <2>2
  <1>12. SubSeq(s, Leading(s, {48}) + 1, Leading(s, Digit)) = IF n = 0 THEN <<>> ELSE d
    <2>1. CASE n = 0
      <3>1. Len(d) = 1
        BY <1>2, <2>1
      <3>2. SubSeq(s, 2, 1) = <<>>
        BY SubSeqEmpty
      <3> QED BY <1>10, <1>11, <2>1, <3>1, <3>2
    <2>2. CASE n # 0
      BY <1>5, <1>10, <1>11, <2>2
    <2> QED BY <2>1, <2>2
  <1>13. Number(s) = [negative |-> FALSE, read |-> Leading(s, Digit),
                      digits |-> SubSeq(s, Leading(s, {48}) + 1, Leading(s, Digit))]
    BY <1>8, <1>9 DEF Number
  <1> QED BY <1>10, <1>12, <1>13 DEF s, d

LEMMA StoiReads ==
    ASSUME NEW n \in Nat, n <= IntMax
    PROVE  ~ StoiThrows(Decimal(n) \o <<CloseBracket>>)
  <1> DEFINE s == Decimal(n) \o <<CloseBracket>>
  <1>0. s = Decimal(n) \o <<CloseBracket>>
    OBVIOUS
  <1> HIDE DEF s
  <1>1. /\ Number(s).read = Len(Decimal(n)) /\ Number(s).negative = FALSE
        /\ Number(s).digits = IF n = 0 THEN <<>> ELSE Decimal(n)
    <2> DEFINE r == Number(s)
    <2>1. r = [negative |-> FALSE, read |-> Len(Decimal(n)),
               digits |-> IF n = 0 THEN <<>> ELSE Decimal(n)]
      BY <1>0, NumberOfDecimal, Zenon
    <2> HIDE DEF r
    <2>2. r.read = Len(Decimal(n)) /\ r.negative = FALSE /\ r.digits = IF n = 0 THEN <<>> ELSE Decimal(n)
      BY <2>1
    <2> QED BY <2>2 DEF r
  <1>2. Len(Decimal(n)) # 0
    BY DecimalTyped, LenProperties
  <1>3. ~ Exceeds(Decimal(n), MaxInt(FALSE))
    BY DecimalFits
  <1>4. ~ Exceeds(<<>>, MaxInt(FALSE))
    <2> DEFINE e == <<>>
               max == MaxInt(FALSE)
    <2>1. Len(e) = 0
      OBVIOUS
    <2>2. Len(max) = 10
      <3>1. Len(MaxDigits) = 10
        BY DEF MaxDigits
      <3> QED BY <3>1, MaxIntIs
    <2> HIDE DEF e, max
    <2>3. ~ Exceeds(e, max)
      BY <2>1, <2>2 DEF Exceeds
    <2> QED BY <2>3 DEF e, max
  <1>5. ~ Exceeds(Number(s).digits, MaxInt(Number(s).negative))
    <2>1. n = 0 \/ n # 0
      OBVIOUS
    <2> QED BY <1>1, <1>3, <1>4, <2>1
  <1>6. ~ StoiThrows(s)
    BY <1>1, <1>2, <1>5 DEF StoiThrows
  <1> QED BY <1>0, <1>6

-----------------------------------------------------------------------------
(* What a separator divides: c is in s for the first time behind a.         *)
Divides(s, a, c, b) ==
    /\ s \in Seq(Byte) /\ Len(s) = Len(a) + 1 + Len(b)
    /\ Positions(s, c) # {} /\ First(Positions(s, c)) = Len(a) + 1
    /\ SubSeq(s, 1, Len(a)) = a
    /\ SubSeq(s, Len(a) + 2, Len(s)) = b
    /\ \A i \in 1 .. Len(a) : s[i] = a[i]
    /\ s[Len(a) + 1] = c
    /\ \A i \in 1 .. Len(b) : s[Len(a) + 1 + i] = b[i]

LEMMA Divided ==
    ASSUME NEW a \in Seq(Byte), NEW b \in Seq(Byte), NEW c \in Byte, Free(a, {c}),
           NEW s, s = a \o <<c>> \o b
    PROVE  Divides(s, a, c, b)
  <1> DEFINE ac == a \o <<c>>
             cb == <<c>> \o b
  <1>1. /\ ac \in Seq(Byte) /\ Len(ac) = Len(a) + 1 /\ Len(a) \in Nat /\ Len(b) \in Nat
        /\ \A i \in 1 .. Len(a) : ac[i] = a[i]
        /\ ac[Len(a) + 1] = c
    OBVIOUS
  <1>2. s = ac \o b
    OBVIOUS
  <1> HIDE DEF ac
  <1>3. /\ s \in Seq(Byte) /\ Len(s) = Len(a) + 1 + Len(b)
        /\ \A i \in 1 .. Len(ac) : s[i] = ac[i]
        /\ \A i \in 1 .. Len(b) : s[Len(ac) + i] = b[i]
    BY <1>1, <1>2
  <1>4. /\ \A i \in 1 .. Len(a) : s[i] = a[i]
        /\ s[Len(a) + 1] = c
        /\ \A i \in 1 .. Len(b) : s[Len(a) + 1 + i] = b[i]
    BY <1>1, <1>3
  <1>5. Len(a) + 1 \in Positions(s, c)
    BY <1>1, <1>3, <1>4 DEF Positions
  <1>6. First(Positions(s, c)) = Len(a) + 1
    <2>1. \A q \in Positions(s, c) : Len(a) + 1 <= q
      BY <1>1, <1>3, <1>4 DEF Positions, Free
    <2>2. Positions(s, c) \in SUBSET Int
      BY DEF Positions
    <2> QED BY <1>5, <2>1, <2>2, FirstIs
  <1>7. SubSeq(s, Len(a) + 2, Len(s)) = b
    <2>1. SubSeq(ac \o b, Len(ac) + 1, Len(ac) + Len(b)) = b
      BY <1>1, SubSeqFront
    <2>2. Len(ac) + 1 = Len(a) + 2 /\ Len(ac) + Len(b) = Len(s)
      BY <1>1, <1>3
    <2> QED BY <1>2, <2>1, <2>2
  <1>8. SubSeq(s, 1, Len(a)) = a
    <2> DEFINE f == SubSeq(s, 1, Len(a))
    <2>1. /\ f \in Seq(Byte) /\ Len(f) = Len(a) /\ \A i \in 1 .. Len(a) : f[i] = s[i]
      BY <1>1, <1>3
    <2> HIDE DEF f
    <2>2. f = a
      BY <1>1, <1>4, <2>1, SeqEqual
    <2> QED BY <2>2 DEF f
  <1> QED BY <1>3, <1>4, <1>5, <1>6, <1>7, <1>8 DEF Divides

(* The words in front of the space of a field. *)
ArrayPart(n) == IF n >= 0 THEN <<OpenBracket>> \o Decimal(n) \o <<CloseBracket>> ELSE <<>>
TypeWord(t, n) == TypeText[t] \o ArrayPart(n)

LEMMA DigitsFree == ASSUME NEW s \in Seq(Digit) PROVE Free(s, Special)
  <1>1. \A i \in 1 .. Len(s) : s[i] \in Digit
    BY ElementOfSeq
  <1> QED BY <1>1 DEF Free, Special, Digit, Space, Colon, Semicolon, OpenBracket, CloseBracket

LEMMA ArrayPartIs ==
    ASSUME NEW n \in Nat
    PROVE  LET p == ArrayPart(n)
               d == Decimal(n)
           IN  /\ p \in Seq(Byte) /\ d \in Seq(Byte) /\ Len(p) = Len(d) + 2 /\ Len(d) >= 1 /\ Len(d) \in Nat
               /\ p = <<OpenBracket>> \o (d \o <<CloseBracket>>)
               /\ p[1] = OpenBracket
               /\ p[Len(p)] = CloseBracket
               /\ \A i \in 2 .. Len(d) + 1 : p[i] \in Digit
  <1> DEFINE p == ArrayPart(n)
             d == Decimal(n)
  <1>1. d \in Seq(Byte) /\ Len(d) >= 1 /\ Len(d) \in Nat /\ \A i \in 1 .. Len(d) : d[i] \in Digit
    BY DecimalTyped, DigitsAreBytes, LenProperties, ElementOfSeq
  <1>2. p = <<OpenBracket>> \o d \o <<CloseBracket>>
    BY DEF ArrayPart
  <1> HIDE DEF d, p
  <1>3. OpenBracket \in Byte /\ CloseBracket \in Byte
    BY DEF OpenBracket, CloseBracket, Byte
  <1>4. /\ p \in Seq(Byte) /\ Len(p) = Len(d) + 2 /\ p[1] = OpenBracket /\ p[Len(d) + 2] = CloseBracket
        /\ \A i \in 1 .. Len(d) : p[i + 1] = d[i]
    BY <1>1, <1>2, <1>3
  <1>5. \A i \in 2 .. Len(d) + 1 : p[i] \in Digit
    <2> SUFFICES ASSUME NEW i \in 2 .. Len(d) + 1 PROVE p[i] \in Digit
      OBVIOUS
    <2>1. i - 1 \in 1 .. Len(d) /\ (i - 1) + 1 = i
      BY <1>1
    <2> QED BY <1>1, <1>4, <2>1
  <1>6. p = <<OpenBracket>> \o (d \o <<CloseBracket>>)
    <2>1. <<OpenBracket>> \in Seq(Byte) /\ <<CloseBracket>> \in Seq(Byte)
      BY <1>3
    <2> QED BY <1>1, <1>2, <2>1, ConcatAssociative
  <1>7. /\ p \in Seq(Byte) /\ d \in Seq(Byte) /\ Len(p) = Len(d) + 2 /\ Len(d) >= 1 /\ Len(d) \in Nat
        /\ p = <<OpenBracket>> \o (d \o <<CloseBracket>>)
        /\ p[1] = OpenBracket
        /\ p[Len(p)] = CloseBracket
        /\ \A i \in 2 .. Len(d) + 1 : p[i] \in Digit
    BY <1>1, <1>4, <1>5, <1>6
  <1> QED BY <1>7 DEF p, d

LEMMA TypeWordIs ==
    ASSUME NEW t \in BasicTypes, NEW n \in Int
    PROVE  LET w == TypeWord(t, n)
           IN  /\ w \in Seq(Byte) /\ Len(w) >= 1 /\ Len(w) \in Nat
               /\ Free(w, {Space, Colon, Semicolon})
               /\ n < 0 => w = TypeText[t] /\ Positions(w, OpenBracket) = {}
               /\ n >= 0 => /\ Positions(w, OpenBracket) # {}
                            /\ First(Positions(w, OpenBracket)) = Len(TypeText[t]) + 1
                            /\ w[Len(w)] = CloseBracket
                            /\ SubSeq(w, 1, Len(TypeText[t])) = TypeText[t]
                            /\ SubSeq(w, Len(TypeText[t]) + 2, Len(w)) = Decimal(n) \o <<CloseBracket>>
  <1> DEFINE a == TypeText[t]
             p == ArrayPart(n)
             w == TypeWord(t, n)
             Goal(v) == /\ v \in Seq(Byte) /\ Len(v) >= 1 /\ Len(v) \in Nat
                        /\ Free(v, {Space, Colon, Semicolon})
                        /\ n < 0 => v = a /\ Positions(v, OpenBracket) = {}
                        /\ n >= 0 => /\ Positions(v, OpenBracket) # {}
                                     /\ First(Positions(v, OpenBracket)) = Len(a) + 1
                                     /\ v[Len(v)] = CloseBracket
                                     /\ SubSeq(v, 1, Len(a)) = a
                                     /\ SubSeq(v, Len(a) + 2, Len(v)) = Decimal(n) \o <<CloseBracket>>
  <1>1. a \in Seq(Byte) /\ Len(a) >= 1 /\ Len(a) \in Nat /\ Free(a, Special)
    BY TypeNames, LenProperties
  <1>2. w = a \o p
    BY DEF TypeWord
  <1>3. Free(a, {Space, Colon, Semicolon}) /\ Free(a, {OpenBracket})
    BY <1>1 DEF Free, Special
  <1>4. ASSUME n < 0 PROVE Goal(w)
    <2>1. p = <<>>
      BY <1>4 DEF ArrayPart
    <2> HIDE DEF a
    <2>2. w = a
      BY <1>1, <1>2, <2>1, ConcatEmptySeq
    <2>3. Positions(a, OpenBracket) = {}
      BY <1>1, <1>3 DEF Positions, Free
    <2> QED BY <1>1, <1>3, <1>4, <2>2, <2>3
  <1>5. ASSUME n >= 0 PROVE Goal(w)
    <2> DEFINE d == Decimal(n)
               b == d \o <<CloseBracket>>
    <2>1. n \in Nat
      BY <1>5
    <2>2. /\ p \in Seq(Byte) /\ d \in Seq(Byte) /\ Len(p) = Len(d) + 2 /\ Len(d) >= 1 /\ Len(d) \in Nat
          /\ p = <<OpenBracket>> \o b
          /\ p[1] = OpenBracket
          /\ p[Len(p)] = CloseBracket
          /\ \A i \in 2 .. Len(d) + 1 : p[i] \in Digit
      BY <2>1, ArrayPartIs
    <2>3. OpenBracket \in Byte /\ <<OpenBracket>> \in Seq(Byte) /\ <<CloseBracket>> \in Seq(Byte)
      BY DEF OpenBracket, CloseBracket, Byte
    <2> HIDE DEF a, d, p, w
    <2>4. b \in Seq(Byte)
      BY <2>2, <2>3
    <2> HIDE DEF b
    <2>5. w = a \o <<OpenBracket>> \o b
      <3> DEFINE o == <<OpenBracket>>
      <3>1. o \in Seq(Byte) /\ a \in Seq(Byte)
        BY <1>1, <2>3
      <3>2. w = a \o (o \o b)
        BY <1>2, <2>2
      <3> HIDE DEF o
      <3>3. (a \o o) \o b = a \o (o \o b)
        BY <2>4, <3>1, ConcatAssociative
      <3> QED BY <3>2, <3>3 DEF o
    <2>6. /\ w \in Seq(Byte)
          /\ Positions(w, OpenBracket) # {} /\ First(Positions(w, OpenBracket)) = Len(a) + 1
          /\ SubSeq(w, 1, Len(a)) = a
          /\ SubSeq(w, Len(a) + 2, Len(w)) = b
      <3>1. a \in Seq(Byte) /\ Free(a, {OpenBracket}) /\ OpenBracket \in Byte
        BY <1>1, <1>3, <2>3
      <3>2. Divides(w, a, OpenBracket, b)
        BY <2>4, <2>5, <3>1, Divided
      <3> QED BY <3>2 DEF Divides
    <2>7. Len(w) = Len(a) + Len(p) /\ \A i \in 1 .. Len(p) : w[Len(a) + i] = p[i]
      <3>1. a \in Seq(Byte) /\ p \in Seq(Byte)
        BY <1>1, <2>2
      <3> QED BY <1>2, <3>1
    <2>8. w[Len(w)] = CloseBracket /\ Len(w) >= 1 /\ Len(w) \in Nat
      <3>1. Len(p) \in 1 .. Len(p)
        BY <2>2
      <3> QED BY <1>1, <2>2, <2>7, <3>1
    <2>9. Free(p, {Space, Colon, Semicolon})
      <3> SUFFICES ASSUME NEW i \in 1 .. Len(p) PROVE p[i] \notin {Space, Colon, Semicolon}
        BY DEF Free
      <3>1. p[i] \in {OpenBracket, CloseBracket} \union Digit
        <4>1. i = 1 \/ i = Len(p) \/ i \in 2 .. Len(d) + 1
          BY <2>2
        <4> QED BY <2>2, <4>1
      <3> QED BY <3>1 DEF OpenBracket, CloseBracket, Digit, Space, Colon, Semicolon
    <2>10. Free(w, {Space, Colon, Semicolon})
      BY <1>1, <1>2, <1>3, <2>2, <2>9, FreeConcat
    <2> QED BY <1>5, <2>6, <2>8, <2>10 DEF b, d
  <1>6. Goal(w)
    <2>1. n < 0 \/ n >= 0
      OBVIOUS
    <2> QED BY <1>4, <1>5, <2>1
  <1> QED BY <1>6

-----------------------------------------------------------------------------
(* A field the writers can write. *)
Writable(field) ==
    /\ field.type \in BasicTypes
    /\ field.array \in Int
    /\ field.name \in Seq(Byte)

WordOf(field) == TypeWord(field.type, field.array)

LEMMA WordIs ==
    ASSUME NEW field, Writable(field)
    PROVE  WordOf(field) \in Seq(Byte) /\ Free(WordOf(field), {Space, Colon, Semicolon})
  BY TypeWordIs DEF Writable, WordOf

LEMMA FieldTextDivided ==
    ASSUME NEW field, Writable(field)
    PROVE  Divides(FieldText(field), WordOf(field), Space, field.name)
  <1> DEFINE w == WordOf(field)
             s == FieldText(field)
             b == field.name
  <1>1. w \in Seq(Byte) /\ Free(w, {Space, Colon, Semicolon})
    BY WordIs
  <1>2. s = w \o <<Space>> \o b
    BY DEF FieldText, WordOf, TypeWord, ArrayPart
  <1>3. b \in Seq(Byte) /\ Space \in Byte
    BY DEF Writable, Space, Byte
  <1>4. Free(w, {Space})
    BY <1>1 DEF Free
  <1> HIDE DEF w, s, b
  <1>5. Divides(s, w, Space, b)
    BY <1>1, <1>2, <1>3, <1>4, Divided
  <1> QED BY <1>5 DEF w, s, b

LEMMA FieldTextFree ==
    ASSUME NEW field, Writable(field), Free(field.name, {Colon, Semicolon})
    PROVE  Free(FieldText(field), {Colon, Semicolon})
  <1> DEFINE w == WordOf(field)
             s == FieldText(field)
             b == field.name
  <1>1. w \in Seq(Byte) /\ Free(w, {Colon, Semicolon}) /\ Len(w) \in Nat
    <2>1. w \in Seq(Byte) /\ Free(w, {Space, Colon, Semicolon})
      BY WordIs
    <2> HIDE DEF w
    <2> QED BY <2>1, LenProperties DEF Free
  <1>2. Divides(s, w, Space, b)
    BY FieldTextDivided
  <1>3. b \in Seq(Byte) /\ Free(b, {Colon, Semicolon})
    BY DEF Writable
  <1> HIDE DEF w, s, b
  <1>4. Free(s, {Colon, Semicolon})
    <2> SUFFICES ASSUME NEW i \in 1 .. Len(s) PROVE s[i] \notin {Colon, Semicolon}
      BY DEF Free
    <2>1. CASE i <= Len(w)
      BY <1>1, <1>2, <2>1 DEF Divides, Free
    <2>2. CASE i = Len(w) + 1
      BY <1>2, <2>2 DEF Divides, Space, Colon, Semicolon
    <2>3. CASE i > Len(w) + 1
      <3>1. i - (Len(w) + 1) \in 1 .. Len(b) /\ Len(w) + 1 + (i - (Len(w) + 1)) = i
        BY <1>1, <1>2, <1>3, <2>3 DEF Divides
      <3> QED BY <1>2, <1>3, <3>1 DEF Divides, Free
    <2> QED BY <1>1, <2>1, <2>2, <2>3
  <1> QED BY <1>4 DEF s

LEMMA FieldTextName ==
    ASSUME NEW field, Writable(field)
    PROVE  NameOf(FieldText(field)) = field.name
  <1> DEFINE w == WordOf(field)
             s == FieldText(field)
  <1>1. Divides(s, w, Space, field.name)
    BY FieldTextDivided
  <1>2. Len(w) \in Nat
    BY TypeWordIs DEF Writable, WordOf
  <1>3. (Len(w) + 1) + 1 = Len(w) + 2
    BY <1>2
  <1> HIDE DEF w, s
  <1>4. NameOf(s) = field.name
    BY <1>1, <1>2, <1>3 DEF Divides, NameOf
  <1> QED BY <1>4 DEF s

(* Field::Field: the text of a field made of a basic type, a name and an    *)
(* array length that is an int is parsed; std::stoi does not throw out of   *)
(* the constructor, as it does for other texts.                             *)
THEOREM FieldTextParsed ==
    ASSUME NEW field, Writable(field), field.array <= IntMax
    PROVE  FieldOutcome(FieldText(field)) = Parsed
  <1> DEFINE w == WordOf(field)
             s == FieldText(field)
             a == TypeText[field.type]
             n == field.array
             d == Decimal(n) \o <<CloseBracket>>
  <1>1. Divides(s, w, Space, field.name)
    BY FieldTextDivided
  <1>2. /\ w \in Seq(Byte) /\ Len(w) \in Nat
        /\ n < 0 => Positions(w, OpenBracket) = {}
        /\ n >= 0 => /\ Positions(w, OpenBracket) # {}
                     /\ First(Positions(w, OpenBracket)) = Len(a) + 1
                     /\ w[Len(w)] = CloseBracket
                     /\ SubSeq(w, Len(a) + 2, Len(w)) = d
    BY TypeWordIs DEF Writable, WordOf
  <1>3. n >= 0 => ~ StoiThrows(d)
    BY StoiReads DEF Writable
  <1>4. Len(a) \in Nat /\ n \in Int
    BY TypeNames, LenProperties DEF Writable
  <1>5. (Len(w) + 1) - 1 = Len(w) /\ (Len(a) + 1) + 1 = Len(a) + 2
    BY <1>2, <1>4
  <1> HIDE DEF w, s, a, n, d
  <1>6. Positions(s, Space) # {} /\ SubSeq(s, 1, First(Positions(s, Space)) - 1) = w
    BY <1>1, <1>5 DEF Divides
  <1>7. FieldOutcome(s) =
          IF Positions(w, OpenBracket) = {} THEN Parsed
          ELSE IF w[Len(w)] # CloseBracket THEN Rejected
          ELSE IF StoiThrows(SubSeq(w, First(Positions(w, OpenBracket)) + 1, Len(w))) THEN Foreign
          ELSE Parsed
    BY <1>6 DEF FieldOutcome
  <1>8. CASE n < 0
    BY <1>2, <1>7, <1>8 DEF s
  <1>9. CASE n >= 0
    <2>1. FieldOutcome(s) = Parsed
      BY <1>2, <1>3, <1>5, <1>7, <1>9
    <2> QED BY <2>1 DEF s
  <1> QED BY <1>4, <1>8, <1>9

-----------------------------------------------------------------------------
LEMMA SubSeqIs ==
    ASSUME NEW s \in Seq(Byte), NEW i \in 1 .. Len(s) + 1, NEW j \in i - 1 .. Len(s)
    PROVE  /\ SubSeq(s, i, j) \in Seq(Byte) /\ Len(SubSeq(s, i, j)) = j - i + 1
           /\ \A k \in 1 .. j - i + 1 : SubSeq(s, i, j)[k] = s[i + k - 1]
  <1> DEFINE t == SubSeq(s, i, j)
  <1>1. Len(s) \in Nat /\ i \in Int /\ j \in Int /\ j >= i - 1
    OBVIOUS
  <1>2. \A k \in i .. j : s[k] \in Byte
    <2>1. \A k \in i .. j : k \in 1 .. Len(s)
      BY <1>1
    <2> QED BY <2>1, ElementOfSeq
  <1>3. /\ t \in Seq(Byte) /\ Len(t) = IF i <= j THEN j - i + 1 ELSE 0
        /\ \A k \in 1 .. j - i + 1 : t[k] = s[i + k - 1]
    BY <1>1, <1>2, SubSeqProperties
  <1> HIDE DEF t
  <1>4. Len(t) = j - i + 1
    BY <1>1, <1>3
  <1> QED BY <1>3, <1>4 DEF t

LEMMA SubSeqOfFront ==
    ASSUME NEW a \in Seq(Byte), NEW b \in Seq(Byte),
           NEW i \in 1 .. Len(a) + 1, NEW j \in i - 1 .. Len(a)
    PROVE  SubSeq(a \o b, i, j) = SubSeq(a, i, j)
  <1> DEFINE c == a \o b
             d == SubSeq(c, i, j)
             e == SubSeq(a, i, j)
  <1>1. /\ c \in Seq(Byte) /\ Len(c) = Len(a) + Len(b) /\ Len(a) \in Nat /\ Len(b) \in Nat
        /\ \A k \in 1 .. Len(a) : c[k] = a[k]
    OBVIOUS
  <1> HIDE DEF c
  <1>2. i \in 1 .. Len(c) + 1 /\ j \in i - 1 .. Len(c) /\ i \in Int /\ j \in Int
    BY <1>1
  <1>3. d \in Seq(Byte) /\ Len(d) = j - i + 1 /\ \A k \in 1 .. j - i + 1 : d[k] = c[i + k - 1]
    BY <1>1, <1>2, SubSeqIs
  <1>4. e \in Seq(Byte) /\ Len(e) = j - i + 1 /\ \A k \in 1 .. j - i + 1 : e[k] = a[i + k - 1]
    BY SubSeqIs
  <1> HIDE DEF d, e
  <1>5. \A k \in 1 .. j - i + 1 : d[k] = e[k]
    <2> SUFFICES ASSUME NEW k \in 1 .. j - i + 1 PROVE d[k] = e[k]
      OBVIOUS
    <2>1. i + k - 1 \in 1 .. Len(a)
      BY <1>1, <1>2
    <2> QED BY <1>1, <1>3, <1>4, <2>1
  <1>6. d = e
    BY <1>3, <1>4, <1>5, SeqEqual
  <1> QED BY <1>6 DEF c, d, e

LEMMA SubSeqOfBack ==
    ASSUME NEW a \in Seq(Byte), NEW b \in Seq(Byte),
           NEW i \in 1 .. Len(b) + 1, NEW j \in i - 1 .. Len(b)
    PROVE  SubSeq(a \o b, Len(a) + i, Len(a) + j) = SubSeq(b, i, j)
  <1> DEFINE c == a \o b
             x == Len(a) + i
             y == Len(a) + j
             d == SubSeq(c, x, y)
             e == SubSeq(b, i, j)
  <1>1. /\ c \in Seq(Byte) /\ Len(c) = Len(a) + Len(b) /\ Len(a) \in Nat /\ Len(b) \in Nat
        /\ \A k \in 1 .. Len(b) : c[Len(a) + k] = b[k]
    OBVIOUS
  <1> HIDE DEF c
  <1>2. x \in 1 .. Len(c) + 1 /\ y \in x - 1 .. Len(c) /\ i \in Int /\ j \in Int /\ y - x + 1 = j - i + 1
    BY <1>1
  <1>3. d \in Seq(Byte) /\ Len(d) = j - i + 1 /\ \A k \in 1 .. j - i + 1 : d[k] = c[x + k - 1]
    <2> HIDE DEF x, y
    <2>1. d \in Seq(Byte) /\ Len(d) = y - x + 1 /\ \A k \in 1 .. y - x + 1 : d[k] = c[x + k - 1]
      BY <1>1, <1>2, SubSeqIs
    <2> QED BY <1>2, <2>1
  <1>4. e \in Seq(Byte) /\ Len(e) = j - i + 1 /\ \A k \in 1 .. j - i + 1 : e[k] = b[i + k - 1]
    BY SubSeqIs
  <1> HIDE DEF d, e
  <1>5. \A k \in 1 .. j - i + 1 : d[k] = e[k]
    <2> SUFFICES ASSUME NEW k \in 1 .. j - i + 1 PROVE d[k] = e[k]
      OBVIOUS
    <2>1. i + k - 1 \in 1 .. Len(b) /\ x + k - 1 = Len(a) + (i + k - 1)
      BY <1>1, <1>2
    <2> QED BY <1>1, <1>3, <1>4, <2>1
  <1>6. d = e
    BY <1>3, <1>4, <1>5, SeqEqual
  <1> QED BY <1>6 DEF c, d, e, x, y

-----------------------------------------------------------------------------
(* s is made of the first n fields, each closed by a semicolon; field i ends *)
(* in front of place E[i].                                                   *)
Closed(s, fields, n, E) ==
    /\ s \in Seq(Byte)
    /\ E \in [0 .. n -> Nat] /\ E[0] = 0 /\ E[n] = Len(s)
    /\ \A i \in 1 .. n : /\ E[i - 1] < E[i] /\ E[i] <= Len(s) /\ s[E[i]] = Semicolon
                         /\ SubSeq(s, E[i - 1] + 1, E[i] - 1) = fields[i]
    /\ \A p \in 1 .. Len(s) : /\ s[p] # Colon
                              /\ s[p] = Semicolon => \E i \in 1 .. n : p = E[i]

LEMMA ClosedStep ==
    ASSUME NEW n \in Nat, NEW s, NEW fields, NEW E, Closed(s, fields, n, E),
           fields[n + 1] \in Seq(Byte), Free(fields[n + 1], {Colon, Semicolon})
    PROVE  \E F : Closed(s \o (fields[n + 1] \o <<Semicolon>>), fields, n + 1, F)
  <1> DEFINE f == fields[n + 1]
             g == f \o <<Semicolon>>
             t == s \o g
             F == [i \in 0 .. n + 1 |-> IF i = n + 1 THEN Len(t) ELSE E[i]]
  <1>0. f \in Seq(Byte) /\ Free(f, {Colon, Semicolon})
    OBVIOUS
  <1>f. \A x : x = f => x = fields[n + 1]
    OBVIOUS
  <1> HIDE DEF f
  <1>1. Semicolon \in Byte /\ <<Semicolon>> \in Seq(Byte) /\ Semicolon # Colon
    BY DEF Semicolon, Byte, Colon
  <1>2. /\ g \in Seq(Byte) /\ Len(g) = Len(f) + 1 /\ Len(f) \in Nat
        /\ \A i \in 1 .. Len(f) : g[i] = f[i]
        /\ g[Len(f) + 1] = Semicolon
    BY <1>0, <1>1
  <1>3. SubSeq(g, 1, Len(f)) = f
    BY <1>0, <1>1, SubSeqFront
  <1> HIDE DEF g
  <1>4. s \in Seq(Byte) /\ Len(s) \in Nat
    BY DEF Closed
  <1>5. /\ t \in Seq(Byte) /\ Len(t) = Len(s) + Len(f) + 1
        /\ \A i \in 1 .. Len(s) : t[i] = s[i]
        /\ \A i \in 1 .. Len(g) : t[Len(s) + i] = g[i]
    <2>1. t \in Seq(Byte) /\ Len(t) = Len(s) + Len(g)
      BY <1>2, <1>4, ConcatIs
    <2>2. (\A i \in 1 .. Len(s) : t[i] = s[i]) /\ \A i \in 1 .. Len(g) : t[Len(s) + i] = g[i]
      BY <1>2, <1>4, ConcatIs
    <2> HIDE DEF t
    <2> QED BY <1>2, <1>4, <2>1, <2>2
  <1>t. t = s \o g
    OBVIOUS
  <1> HIDE DEF t
  <1>6. /\ F \in [0 .. n + 1 -> Nat] /\ F[n + 1] = Len(t)
        /\ \A i \in 0 .. n : F[i] = E[i]
    BY <1>5 DEF Closed
  <1> HIDE DEF F
  <1>7. F[0] = 0 /\ F[n] = Len(s)
    BY <1>6 DEF Closed
  <1>8. ASSUME NEW i \in 1 .. n + 1
        PROVE  /\ F[i - 1] < F[i] /\ F[i] <= Len(t) /\ t[F[i]] = Semicolon
               /\ SubSeq(t, F[i - 1] + 1, F[i] - 1) = fields[i]
    <2>1. CASE i = n + 1
      <3>1. i - 1 = n
        BY <2>1
      <3>2. F[i] = Len(s) + Len(f) + 1 /\ F[i - 1] = Len(s)
        BY <1>5, <1>6, <1>7, <2>1, <3>1
      <3>3. Len(f) + 1 \in 1 .. Len(g) /\ Len(s) + (Len(f) + 1) = Len(s) + Len(f) + 1
        BY <1>2, <1>4
      <3>4. t[F[i]] = Semicolon
        BY <1>2, <1>5, <3>2, <3>3
      <3>5. SubSeq(t, Len(s) + 1, Len(s) + Len(f)) = SubSeq(g, 1, Len(f))
        <4>1. 1 \in 1 .. Len(g) + 1 /\ Len(f) \in 1 - 1 .. Len(g)
          BY <1>2
        <4> QED BY <1>2, <1>4, <1>t, <4>1, SubSeqOfBack
      <3>6. F[i - 1] + 1 = Len(s) + 1 /\ F[i] - 1 = Len(s) + Len(f)
        BY <1>2, <1>4, <3>2
      <3>7. SubSeq(t, F[i - 1] + 1, F[i] - 1) = fields[i]
        BY <1>3, <2>1, <3>5, <3>6 DEF f
      <3>8. F[i - 1] < F[i] /\ F[i] <= Len(t)
        BY <1>2, <1>4, <1>5, <3>2
      <3> QED BY <3>4, <3>7, <3>8
    <2>2. CASE i # n + 1
      <3>1. i \in 1 .. n /\ i \in 0 .. n /\ i - 1 \in 0 .. n
        BY <2>2
      <3>2. F[i] = E[i] /\ F[i - 1] = E[i - 1] /\ E[i] \in Nat /\ E[i - 1] \in Nat
        BY <1>6, <3>1 DEF Closed
      <3>3. /\ E[i - 1] < E[i] /\ E[i] <= Len(s) /\ s[E[i]] = Semicolon
            /\ SubSeq(s, E[i - 1] + 1, E[i] - 1) = fields[i]
        BY <3>1 DEF Closed
      <3>4. SubSeq(t, E[i - 1] + 1, E[i] - 1) = SubSeq(s, E[i - 1] + 1, E[i] - 1)
        <4> DEFINE v == E[i - 1]
                   w == E[i]
                   x == v + 1
                   y == w - 1
        <4>0. v \in Nat /\ w \in Nat /\ v < w /\ w <= Len(s)
          BY <3>2, <3>3
        <4> HIDE DEF v, w
        <4>1. x \in 1 .. Len(s) + 1 /\ y \in x - 1 .. Len(s)
          BY <1>4, <4>0
        <4>2. g \in Seq(Byte) /\ s \in Seq(Byte)
          BY <1>2, <1>4
        <4> HIDE DEF x, y
        <4>3. SubSeq(s \o g, x, y) = SubSeq(s, x, y)
          BY <4>1, <4>2, SubSeqOfFront
        <4> QED BY <1>t, <4>3 DEF v, w, x, y
      <3>5. E[i] \in 1 .. Len(s)
        BY <3>2, <3>3
      <3>6. t[F[i]] = Semicolon
        BY <1>5, <3>2, <3>3, <3>5
      <3>7. F[i] <= Len(t)
        BY <1>2, <1>4, <1>5, <3>2, <3>3
      <3> QED BY <3>2, <3>3, <3>4, <3>6, <3>7
    <2> QED BY <2>1, <2>2
  <1>9. ASSUME NEW p \in 1 .. Len(t)
        PROVE  t[p] # Colon /\ (t[p] = Semicolon => \E i \in 1 .. n + 1 : p = F[i])
    <2>1. CASE p <= Len(s)
      <3>1. p \in 1 .. Len(s) /\ t[p] = s[p]
        BY <1>4, <1>5, <2>1
      <3>2. t[p] # Colon /\ (t[p] = Semicolon => \E i \in 1 .. n : p = E[i])
        BY <3>1 DEF Closed
      <3>3. \A i \in 1 .. n : i \in 1 .. n + 1 /\ F[i] = E[i]
        BY <1>6
      <3> QED BY <3>2, <3>3
    <2>2. CASE p = Len(t)
      <3>1. Len(f) + 1 \in 1 .. Len(g) /\ Len(s) + (Len(f) + 1) = p
        BY <1>2, <1>4, <1>5, <2>2
      <3>2. t[p] = Semicolon
        BY <1>2, <1>5, <3>1
      <3>3. n + 1 \in 1 .. n + 1 /\ p = F[n + 1]
        BY <1>6, <2>2
      <3> QED BY <1>1, <3>2, <3>3
    <2>3. CASE p > Len(s) /\ p # Len(t)
      <3>1. p - Len(s) \in 1 .. Len(f) /\ p - Len(s) \in 1 .. Len(g) /\ Len(s) + (p - Len(s)) = p
        <4>1. p \in Int /\ p <= Len(s) + Len(f) + 1 /\ p # Len(s) + Len(f) + 1 /\ p > Len(s)
          BY <1>5, <2>3
        <4>2. Len(s) \in Nat /\ Len(f) \in Nat /\ Len(g) = Len(f) + 1
          BY <1>2, <1>4
        <4> QED BY <4>1, <4>2
      <3>2. t[p] = f[p - Len(s)]
        BY <1>2, <1>5, <3>1
      <3> QED BY <1>0, <3>1, <3>2 DEF Free
    <2> QED BY <1>4, <1>5, <2>1, <2>2, <2>3
  <1>10. Closed(t, fields, n + 1, F)
    BY <1>5, <1>6, <1>7, <1>8, <1>9 DEF Closed
  <1> QED BY <1>10 DEF t, g, f

LEMMA FlattenIs ==
    ASSUME NEW seqs \in Seq(Seq(Byte)), Len(seqs) > 0
    PROVE  \E u : /\ FlattenSeq(seqs) = u[Len(seqs)]
                  /\ u[1] = seqs[1]
                  /\ \A i \in 2 .. Len(seqs) : u[i] = u[i - 1] \o seqs[i]
  <1> DEFINE n == Len(seqs)
             V == Seq(Byte)
             G(h) == [i \in 1 .. n |-> IF i = 1 THEN seqs[i] ELSE h[i - 1] \o seqs[i]]
             u == CHOOSE h : h = G(h)
             step == [i \in 1 .. n |-> [x \in V |-> x \o seqs[i]]]
  <1>1. FlattenSeq(seqs) = u[n]
    BY DEF FlattenSeq
  <1>2. n \in Nat /\ n > 0 /\ \A i \in 1 .. n : seqs[i] \in V
    BY LenProperties, ElementOfSeq
  <1> HIDE DEF n
  <1>3. <<>> \in V
    OBVIOUS
  <1>4. step \in [1 .. n -> [V -> V]]
    <2>1. ASSUME NEW i \in 1 .. n, NEW x \in V PROVE x \o seqs[i] \in V
      BY <1>2
    <2> HIDE DEF V
    <2> QED BY <2>1
  <1>5. \A i \in 1 .. n, x \in V : step[i][x] = x \o seqs[i]
    OBVIOUS
  <1> HIDE DEF step
  <1>6. PICK g : Iterates(g, n, V, <<>>, step)
    <2> HIDE DEF V
    <2> QED BY <1>2, <1>3, <1>4, RecursionExists
  <1>7. g \in [0 .. n -> V] /\ g[0] = <<>> /\ \A i \in 1 .. n : g[i - 1] \in V /\ g[i] = g[i - 1] \o seqs[i]
    <2> HIDE DEF V
    <2>1. g \in [0 .. n -> V] /\ g[0] = <<>> /\ \A i \in 1 .. n : g[i] = step[i][g[i - 1]]
      BY <1>6 DEF Iterates
    <2>2. \A i \in 1 .. n : i - 1 \in 0 .. n
      BY <1>2
    <2> QED BY <1>5, <2>1, <2>2
  <1>8. g[1] = seqs[1]
    <2>1. 1 \in 1 .. n /\ 1 - 1 = 0
      BY <1>2
    <2>2. g[1] = <<>> \o seqs[1] /\ seqs[1] \in Seq(Byte)
      BY <1>2, <1>7, <2>1
    <2> QED BY <2>2, ConcatEmptySeq
  <1> DEFINE h == [i \in 1 .. n |-> g[i]]
  <1>9. h = G(h)
    <2>1. ASSUME NEW i \in 1 .. n
          PROVE  h[i] = IF i = 1 THEN seqs[i] ELSE h[i - 1] \o seqs[i]
      <3>1. CASE i = 1
        BY <1>8, <3>1
      <3>2. CASE i # 1
        <4>1. i - 1 \in 1 .. n
          BY <1>2, <3>2
        <4> QED BY <1>7, <3>2, <4>1
      <3> QED BY <3>1, <3>2
    <2>2. h = [i \in 1 .. n |-> h[i]]
      OBVIOUS
    <2> HIDE DEF h
    <2> QED BY <2>1, <2>2
  <1> HIDE DEF h
  <1>10. u = G(u)
    <2> HIDE DEF G
    <2> QED BY <1>9, Zenon
  <1> HIDE DEF u
  <1>11. u[1] = seqs[1] /\ \A i \in 2 .. n : u[i] = u[i - 1] \o seqs[i]
    <2>1. ASSUME NEW x, NEW i \in 1 .. n
          PROVE  G(x)[i] = IF i = 1 THEN seqs[i] ELSE x[i - 1] \o seqs[i]
      OBVIOUS
    <2> HIDE DEF G
    <2>2. \A i \in 1 .. n : u[i] = IF i = 1 THEN seqs[i] ELSE u[i - 1] \o seqs[i]
      BY <1>10, <2>1
    <2>3. 1 \in 1 .. n /\ \A i \in 2 .. n : i \in 1 .. n /\ i # 1
      BY <1>2
    <2> QED BY <2>2, <2>3
  <1> QED BY <1>1, <1>11 DEF n

LEMMA FormatBody ==
    ASSUME NEW texts \in Seq(Seq(Byte)),
           \A i \in 1 .. Len(texts) : Free(texts[i], {Colon, Semicolon})
    PROVE  \E E : Closed(FlattenSeq([i \in 1 .. Len(texts) |-> texts[i] \o <<Semicolon>>]),
                         texts, Len(texts), E)
  <1> DEFINE n == Len(texts)
             seqs == [i \in 1 .. n |-> texts[i] \o <<Semicolon>>]
  <1>1. n \in Nat /\ \A i \in 1 .. n : texts[i] \in Seq(Byte)
    BY LenProperties, ElementOfSeq
  <1>2. <<Semicolon>> \in Seq(Byte)
    BY DEF Semicolon, Byte
  <1>3. ASSUME NEW x, Len(x) = 0, x \in Seq(Byte)
        PROVE  \E E : Closed(x, texts, 0, E)
    <2> DEFINE E == [i \in 0 .. 0 |-> 0]
    <2>1. E \in [0 .. 0 -> Nat] /\ E[0] = 0
      OBVIOUS
    <2> HIDE DEF E
    <2>2. Closed(x, texts, 0, E)
      BY <1>3, <2>1 DEF Closed
    <2> QED BY <2>2
  <1> HIDE DEF n
  <1>4. \A i \in 1 .. n : texts[i] \o <<Semicolon>> \in Seq(Byte)
    BY <1>1, <1>2
  <1>5. seqs \in Seq(Seq(Byte)) /\ Len(seqs) = n
    BY <1>1, <1>4
  <1>6. \A i \in 1 .. n : seqs[i] = texts[i] \o <<Semicolon>>
    OBVIOUS
  <1> HIDE DEF seqs
  <1>7. CASE n = 0
    <2>1. FlattenSeq(seqs) = seqs /\ seqs = <<>>
      BY <1>5, <1>7, EmptySeq DEF FlattenSeq
    <2>2. <<>> \in Seq(Byte) /\ Len(<<>>) = 0
      OBVIOUS
    <2> QED BY <1>3, <1>7, <2>1, <2>2 DEF seqs, n
  <1>8. CASE n # 0
    <2>1. Len(seqs) > 0
      BY <1>1, <1>5, <1>8
    <2>2. PICK u : /\ FlattenSeq(seqs) = u[n] /\ u[1] = seqs[1]
                   /\ \A i \in 2 .. n : u[i] = u[i - 1] \o seqs[i]
      <3> HIDE DEF n
      <3>1. \E u : /\ FlattenSeq(seqs) = u[Len(seqs)] /\ u[1] = seqs[1]
                   /\ \A i \in 2 .. Len(seqs) : u[i] = u[i - 1] \o seqs[i]
        BY <1>5, <2>1, FlattenIs
      <3> QED BY <1>5, <3>1
    <2> DEFINE S == {k \in Nat : k + 1 <= n => \E E : Closed(u[k + 1], texts, k + 1, E)}
    <2>3. 0 \in S
      <3>1. \E E : Closed(<<>>, texts, 0, E)
        <4>1. <<>> \in Seq(Byte) /\ Len(<<>>) = 0
          OBVIOUS
        <4> QED BY <1>3, <4>1
      <3>2. PICK E : Closed(<<>>, texts, 0, E)
        BY <3>1
      <3>3. 1 \in 1 .. n
        BY <1>1, <1>8
      <3>4. texts[0 + 1] \in Seq(Byte) /\ Free(texts[0 + 1], {Colon, Semicolon}) /\ 0 + 1 = 1 /\ 0 \in Nat
        <4>1. texts[1] \in Seq(Byte)
          BY <1>1, <3>3
        <4>2. Free(texts[1], {Colon, Semicolon})
          BY <3>3 DEF n
        <4>3. 0 + 1 = 1
          OBVIOUS
        <4> HIDE DEF S
        <4> QED BY <4>1, <4>2, <4>3
      <3>5. \E F : Closed(<<>> \o (texts[0 + 1] \o <<Semicolon>>), texts, 0 + 1, F)
        <4> HIDE DEF S
        <4> QED BY <3>2, <3>4, ClosedStep
      <3>6. <<>> \o (texts[1] \o <<Semicolon>>) = u[1]
        BY <1>4, <1>6, <2>2, <3>3, ConcatEmptySeq
      <3> QED BY <3>4, <3>5, <3>6
    <2>4. ASSUME NEW k \in Nat, k \in S PROVE k + 1 \in S
      <3> SUFFICES ASSUME (k + 1) + 1 <= n PROVE \E E : Closed(u[(k + 1) + 1], texts, (k + 1) + 1, E)
        OBVIOUS
      <3> DEFINE j == k + 1
      <3>1. j \in Nat /\ j + 1 <= n /\ j + 1 \in 2 .. n /\ j + 1 \in 1 .. n /\ (j + 1) - 1 = j /\ j <= n
        BY <1>1
      <3>2. PICK E : Closed(u[j], texts, j, E)
        BY <2>4, <3>1
      <3> HIDE DEF j, S
      <3>3. texts[j + 1] \in Seq(Byte) /\ Free(texts[j + 1], {Colon, Semicolon})
        BY <1>1, <3>1 DEF n
      <3>4. \E F : Closed(u[j] \o (texts[j + 1] \o <<Semicolon>>), texts, j + 1, F)
        BY <3>1, <3>2, <3>3, ClosedStep
      <3>5. u[j + 1] = u[j] \o (texts[j + 1] \o <<Semicolon>>)
        BY <1>6, <2>2, <3>1
      <3>6. \E F : Closed(u[j + 1], texts, j + 1, F)
        BY <3>4, <3>5
      <3> QED BY <3>6 DEF j
    <2>5. S = Nat
      <3>1. S \in SUBSET Nat
        OBVIOUS
      <3> HIDE DEF S
      <3> QED BY <2>3, <2>4, <3>1, NatSetInduction
    <2>6. n - 1 \in Nat /\ (n - 1) + 1 = n
      BY <1>1, <1>8
    <2>7. \E E : Closed(u[n], texts, n, E)
      <3>1. n - 1 \in S
        BY <2>5, <2>6
      <3> QED BY <2>6, <3>1
    <2> QED BY <2>2, <2>7 DEF seqs, n
  <1> QED BY <1>7, <1>8

-----------------------------------------------------------------------------
(* m is a message of this type and payload. *)
Message(m, type, payload) ==
    /\ m \in Seq(Byte) /\ payload \in Seq(Byte)
    /\ Len(m) = 3 + Len(payload) /\ MsgLen(m) = Len(m)
    /\ MsgSize(m) = Len(payload) /\ MsgType(m) = type
    /\ \A i \in 1 .. Len(payload) : m[3 + i] = payload[i]

LEMMA WordFits ==
    ASSUME NEW n \in Nat, n <= MaxPayload
    PROVE  n % 256 \in Byte /\ n \div 256 \in Byte /\ n = (n % 256) + 256 * (n \div 256)
  <1>1. n <= 65535
    BY PayloadAssumption
  <1>2. n = (n % 256) + 256 * (n \div 256) /\ n % 256 \in 0 .. 255 /\ n \div 256 \in Nat
    BY SMTT(30)
  <1>3. n \div 256 \in 0 .. 255
    BY <1>1, <1>2, SMTT(30)
  <1>4. n % 256 \in Byte /\ n \div 256 \in Byte
    BY <1>2, <1>3 DEF Byte
  <1> QED BY <1>2, <1>4

LEMMA SerializedIs ==
    ASSUME NEW type \in Byte, NEW payload \in Seq(Byte), Len(payload) <= MaxPayload
    PROVE  Message(Serialized(type, payload), type, payload)
  <1> DEFINE m == Serialized(type, payload)
             h == Header(Len(payload), type)
             n == Len(payload)
  <1>1. n \in Nat /\ n <= MaxPayload
    BY LenProperties
  <1>2. m = h \o payload
    BY DEF Serialized
  <1>3. h \in Seq(Byte) /\ Len(h) = 3 /\ h[1] = n % 256 /\ h[2] = n \div 256 /\ h[3] = type
    <2>1. n % 256 \in Byte /\ n \div 256 \in Byte
      BY <1>1, WordFits
    <2> HIDE DEF n
    <2> QED BY <2>1 DEF Header, n
  <1> HIDE DEF m, h
  <1>4. /\ m \in Seq(Byte) /\ Len(m) = 3 + Len(payload)
        /\ m[1] = n % 256 /\ m[2] = n \div 256 /\ m[3] = type
        /\ \A i \in 1 .. Len(payload) : m[3 + i] = payload[i]
    <2>1. /\ m \in Seq(Byte) /\ Len(m) = 3 + n
          /\ \A i \in 1 .. 3 + n : m[i] = IF i <= 3 THEN h[i] ELSE payload[i - 3]
      <3>1. /\ m \in Seq(Byte) /\ Len(m) = Len(h) + Len(payload)
            /\ \A i \in 1 .. Len(h) + Len(payload) : m[i] = IF i <= Len(h) THEN h[i] ELSE payload[i - Len(h)]
        <4>1. h \in Seq(Byte)
          BY <1>3
        <4>2. /\ h \o payload \in Seq(Byte) /\ Len(h \o payload) = Len(h) + Len(payload)
              /\ \A i \in 1 .. Len(h) + Len(payload) :
                   (h \o payload)[i] = IF i <= Len(h) THEN h[i] ELSE payload[i - Len(h)]
          BY <4>1, ConcatProperties
        <4> QED BY <1>2, <4>2
      <3> QED BY <1>3, <3>1
    <2> HIDE DEF n
    <2>2. 1 \in 1 .. 3 + n /\ 2 \in 1 .. 3 + n /\ 3 \in 1 .. 3 + n
      BY <1>1
    <2>3. \A i \in 1 .. n : 3 + i \in 1 .. 3 + n /\ ~ (3 + i <= 3) /\ (3 + i) - 3 = i
      BY <1>1
    <2>4. \A i \in 1 .. n : m[3 + i] = payload[i]
      BY <2>1, <2>3
    <2> QED BY <1>3, <2>1, <2>2, <2>4 DEF n
  <1>5. MsgSize(m) = n
    <2> HIDE DEF n
    <2> QED BY <1>1, <1>4, WordFits DEF MsgSize
  <1> QED BY <1>4, <1>5 DEF Message, MsgType, MsgLen, HeaderLen, m

LEMMA PayloadIs ==
    ASSUME NEW m, NEW type, NEW payload, Message(m, type, payload),
           NEW i \in Nat, NEW j \in Nat, i + j <= Len(payload)
    PROVE  Payload(m, i, j) = SubSeq(payload, i + 1, i + j)
  <1> DEFINE x == 3 + i + 1
             y == 3 + i + j
             u == i + 1
             v == i + j
             d == SubSeq(m, x, y)
             e == SubSeq(payload, u, v)
  <1>1. /\ m \in Seq(Byte) /\ payload \in Seq(Byte) /\ Len(payload) \in Nat
        /\ Len(m) = 3 + Len(payload) /\ \A k \in 1 .. Len(payload) : m[3 + k] = payload[k]
    BY LenProperties DEF Message
  <1>2. /\ x \in 1 .. Len(m) + 1 /\ y \in x - 1 .. Len(m) /\ u \in 1 .. Len(payload) + 1 /\ v \in u - 1 .. Len(payload)
        /\ y - x + 1 = j /\ v - u + 1 = j /\ x = 3 + u
    BY <1>1
  <1> HIDE DEF x, y, u, v
  <1>3. d \in Seq(Byte) /\ Len(d) = j /\ \A k \in 1 .. j : d[k] = m[x + k - 1]
    <2>1. /\ d \in Seq(Byte) /\ Len(d) = y - x + 1 /\ \A k \in 1 .. y - x + 1 : d[k] = m[x + k - 1]
      BY <1>1, <1>2, SubSeqIs
    <2> QED BY <1>2, <2>1
  <1>4. e \in Seq(Byte) /\ Len(e) = j /\ \A k \in 1 .. j : e[k] = payload[u + k - 1]
    <2>1. /\ e \in Seq(Byte) /\ Len(e) = v - u + 1 /\ \A k \in 1 .. v - u + 1 : e[k] = payload[u + k - 1]
      BY <1>1, <1>2, SubSeqIs
    <2> QED BY <1>2, <2>1
  <1> HIDE DEF d, e
  <1>5. \A k \in 1 .. j : d[k] = e[k]
    <2> SUFFICES ASSUME NEW k \in 1 .. j PROVE d[k] = e[k]
      OBVIOUS
    <2>1. u + k - 1 \in 1 .. Len(payload) /\ 3 + (u + k - 1) = x + k - 1
      BY <1>1, <1>2
    <2> QED BY <1>1, <1>3, <1>4, <2>1
  <1>6. d = e
    BY <1>3, <1>4, <1>5, SeqEqual
  <1> QED BY <1>6 DEF Payload, HeaderLen, d, e, x, y, u, v

LEMMA ClosedGrows ==
    ASSUME NEW n \in Nat, NEW s, NEW fields, NEW E, Closed(s, fields, n, E),
           NEW i \in 0 .. n, NEW j \in 0 .. n, i < j
    PROVE  E[i] < E[j]
  <1> DEFINE S == {k \in Nat : k <= n => \A a \in 0 .. n : a < k => E[a] < E[k]}
  <1>1. 0 \in S
    OBVIOUS
  <1>2. ASSUME NEW k \in Nat, k \in S PROVE k + 1 \in S
    <2> SUFFICES ASSUME k + 1 <= n, NEW a \in 0 .. n, a < k + 1 PROVE E[a] < E[k + 1]
      OBVIOUS
    <2>1. k + 1 \in 1 .. n /\ (k + 1) - 1 = k /\ k \in 0 .. n /\ k + 1 \in 0 .. n
      OBVIOUS
    <2>2. E[k] < E[k + 1] /\ E[k] \in Nat /\ E[k + 1] \in Nat /\ E[a] \in Nat
      BY <2>1 DEF Closed
    <2>3. CASE a = k
      BY <2>2, <2>3
    <2>4. CASE a < k
      <3>1. E[a] < E[k]
        BY <1>2, <2>4, <2>1
      <3> QED BY <2>2, <3>1
    <2> QED BY <2>3, <2>4
  <1>3. S = Nat
    <2>1. S \in SUBSET Nat
      OBVIOUS
    <2> HIDE DEF S
    <2> QED BY <1>1, <1>2, <2>1, NatSetInduction
  <1>4. j \in S
    BY <1>3
  <1> QED BY <1>4

(* Texts that can be the fields of a format. *)
FormatTexts(texts) ==
    /\ texts \in Seq(Seq(Byte))
    /\ \A i \in 1 .. Len(texts) : /\ Free(texts[i], {Colon, Semicolon})
                                  /\ FieldOutcome(texts[i]) = Parsed

FormatBytes(name, texts) ==
    name \o <<Colon>> \o FlattenSeq([i \in 1 .. Len(texts) |-> texts[i] \o <<Semicolon>>])

(* Where the semicolons of a format are. *)
FormatEnds(str, c) == {e \in Positions(str, Semicolon) : e > c}

LEMMA FormatBytesAre ==
    ASSUME NEW name \in Seq(Byte), Free(name, {Colon, Semicolon}), NEW texts, FormatTexts(texts)
    PROVE  \E E, body :
             /\ Closed(body, texts, Len(texts), E)
             /\ Divides(FormatBytes(name, texts), name, Colon, body)
  <1> DEFINE body == FlattenSeq([i \in 1 .. Len(texts) |-> texts[i] \o <<Semicolon>>])
             s == FormatBytes(name, texts)
  <1>1. PICK E : Closed(body, texts, Len(texts), E)
    <2>1. texts \in Seq(Seq(Byte)) /\ \A i \in 1 .. Len(texts) : Free(texts[i], {Colon, Semicolon})
      BY DEF FormatTexts
    <2> QED BY <2>1, FormatBody
  <1>2. s = name \o <<Colon>> \o body
    BY DEF FormatBytes
  <1> HIDE DEF body, s
  <1>3. body \in Seq(Byte) /\ Colon \in Byte /\ Free(name, {Colon})
    BY <1>1 DEF Closed, Colon, Byte, Free
  <1>4. Divides(s, name, Colon, body)
    BY <1>2, <1>3, Divided
  <1> QED BY <1>1, <1>4 DEF s

LEMMA FormatEndsAre ==
    ASSUME NEW name \in Seq(Byte), NEW texts, NEW body, NEW E, NEW n \in Nat,
           Closed(body, texts, n, E), NEW s, Divides(s, name, Colon, body)
    PROVE  FormatEnds(s, Len(name) + 1) = {Len(name) + 1 + E[i] : i \in 1 .. n}
  <1> DEFINE c == Len(name) + 1
  <1>1. Len(name) \in Nat /\ c \in Nat
    OBVIOUS
  <1>2. /\ s \in Seq(Byte) /\ Len(s) = c + Len(body) /\ Len(body) \in Nat
        /\ \A i \in 1 .. Len(body) : s[c + i] = body[i]
    BY LenProperties DEF Divides, Closed
  <1>c. c = Len(name) + 1
    OBVIOUS
  <1> HIDE DEF c
  <1>3. ASSUME NEW e \in FormatEnds(s, c) PROVE \E i \in 1 .. n : e = c + E[i]
    <2>1. e \in 1 .. Len(s) /\ s[e] = Semicolon /\ e > c
      BY DEF FormatEnds, Positions
    <2>2. e - c \in 1 .. Len(body) /\ c + (e - c) = e
      <3> DEFINE k == Len(s)
                 l == Len(body)
      <3>1. e \in 1 .. k /\ e > c /\ k = c + l /\ l \in Nat /\ c \in Nat
        BY <1>1, <1>2, <2>1
      <3> HIDE DEF k, l
      <3>2. e - c \in 1 .. l /\ c + (e - c) = e
        BY <3>1
      <3> QED BY <3>2 DEF l
    <2>3. body[e - c] = Semicolon
      BY <1>2, <2>1, <2>2
    <2>4. PICK i \in 1 .. n : e - c = E[i]
      BY <2>2, <2>3 DEF Closed
    <2>5. e = c + E[i]
      BY <1>1, <2>1, <2>4, <2>2
    <2> QED BY <2>5
  <1>4. ASSUME NEW i \in 1 .. n PROVE c + E[i] \in FormatEnds(s, c)
    <2>1. i - 1 \in 0 .. n /\ i \in 0 .. n
      OBVIOUS
    <2>2. E[i] \in Nat /\ E[i - 1] \in Nat /\ E[i - 1] < E[i] /\ E[i] <= Len(body) /\ body[E[i]] = Semicolon
      BY <2>1 DEF Closed
    <2>3. E[i] \in 1 .. Len(body) /\ c + E[i] \in 1 .. Len(s) /\ c + E[i] > c
      <3> DEFINE w == E[i]
                 l == Len(body)
      <3>1. w \in Nat /\ w > 0 /\ w <= l /\ l \in Nat /\ c \in Nat /\ Len(s) = c + l
        <4>1. E[i - 1] \in Nat /\ E[i] \in Nat /\ E[i - 1] < E[i] => E[i] > 0
          OBVIOUS
        <4> QED BY <1>1, <1>2, <2>2, <4>1
      <3> HIDE DEF w, l
      <3>2. w \in 1 .. l /\ c + w \in 1 .. c + l /\ c + w > c
        BY <3>1
      <3> QED BY <3>1, <3>2 DEF w, l
    <2>4. s[c + E[i]] = Semicolon
      BY <1>2, <2>2, <2>3
    <2> QED BY <2>3, <2>4 DEF FormatEnds, Positions
  <1>5. FormatEnds(s, c) = {c + E[i] : i \in 1 .. n}
    BY <1>3, <1>4
  <1> QED BY <1>5 DEF c

LEMMA FormatParsed ==
    ASSUME NEW name \in Seq(Byte), Free(name, {Colon, Semicolon}), NEW texts, FormatTexts(texts),
           NEW m, Message(m, FORMAT, FormatBytes(name, texts))
    PROVE  FormatOutcome(m) = Parsed /\ FormatName(m) = name
  <1> DEFINE s == FormatBytes(name, texts)
             n == Len(texts)
             c == Len(name) + 1
  <1>1. PICK E, body : Closed(body, texts, n, E) /\ Divides(s, name, Colon, body)
    BY FormatBytesAre
  <1>2. n \in Nat /\ Len(name) \in Nat /\ c \in Nat /\ Len(body) \in Nat
    BY <1>1, LenProperties DEF FormatTexts, Closed
  <1>3. Message(m, FORMAT, s)
    OBVIOUS
  <1>4. FormatEnds(s, c) = {c + E[i] : i \in 1 .. n}
    <2> HIDE DEF s, n
    <2> QED BY <1>1, <1>2, FormatEndsAre
  <1>5. /\ s \in Seq(Byte) /\ Len(s) = c + Len(body)
        /\ Positions(s, Colon) # {} /\ First(Positions(s, Colon)) = c
        /\ \A i \in 1 .. Len(name) : s[i] = name[i]
        /\ s[c] = Colon
        /\ \A i \in 1 .. Len(body) : s[c + i] = body[i]
        /\ SubSeq(s, 1, Len(name)) = name
    BY <1>1 DEF Divides
  <1>6. \A i \in 1 .. n : Free(texts[i], {Colon, Semicolon}) /\ FieldOutcome(texts[i]) = Parsed
    BY DEF FormatTexts
  <1>c. c = Len(name) + 1
    OBVIOUS
  <1> HIDE DEF s, n, c
  <1>7. ASSUME NEW i \in 0 .. n, NEW j \in 0 .. n, i < j PROVE E[i] < E[j]
    BY <1>1, <1>2, <1>7, ClosedGrows
  <1>8. \A i \in 0 .. n : E[i] \in Nat /\ E[i] <= Len(body)
    <2> SUFFICES ASSUME NEW i \in 0 .. n PROVE E[i] \in Nat /\ E[i] <= Len(body)
      OBVIOUS
    <2>1. E[i] \in Nat /\ E[n] = Len(body)
      BY <1>1 DEF Closed
    <2>2. i < n => E[i] < E[n]
      BY <1>2, <1>7
    <2>3. i = n \/ i < n
      BY <1>2
    <2> QED BY <2>1, <2>2, <2>3
  <1>9. E[0] = 0 /\ E[n] = Len(body)
    BY <1>1 DEF Closed
  <1> DEFINE ends == FormatEnds(s, c)
             begin(e) == Final({c} \union {f \in ends : f < e}) + 1
             outcome(e) == FieldOutcome(SubSeq(s, begin(e), e - 1))
  <1>10. ASSUME NEW e \in ends PROVE outcome(e) = Parsed
    <2>1. PICK i \in 1 .. n : e = c + E[i]
      BY <1>4
    <2> DEFINE B == {c} \union {f \in ends : f < e}
               b == c + E[i - 1]
    <2>2. i - 1 \in 0 .. n /\ i \in 0 .. n /\ E[i - 1] \in Nat /\ E[i] \in Nat /\ E[i - 1] < E[i]
      <3>1. i - 1 \in 0 .. n /\ i \in 0 .. n /\ i - 1 < i
        BY <1>2
      <3> QED BY <1>7, <1>8, <3>1
    <2>3. b \in B
      <3>1. CASE i = 1
        <4>1. i - 1 = 0
          BY <3>1
        <4> QED BY <1>2, <1>9, <4>1
      <3>2. CASE i # 1
        <4>1. i - 1 \in 1 .. n
          BY <1>2, <3>2
        <4>2. b \in ends
          BY <1>4, <4>1
        <4>3. b < e
          BY <1>2, <2>1, <2>2
        <4> QED BY <4>2, <4>3
      <3> QED BY <3>1, <3>2
    <2>4. ASSUME NEW f \in B PROVE f <= b
      <3>1. CASE f = c
        BY <1>2, <2>2, <3>1
      <3>2. CASE f \in ends /\ f < e
        <4>1. PICK j \in 1 .. n : f = c + E[j]
          BY <1>4, <3>2
        <4>2. j \in 0 .. n /\ E[j] \in Nat /\ E[j] < E[i]
          <5>1. j \in 0 .. n
            BY <1>2
          <5> QED BY <1>2, <1>8, <2>1, <2>2, <3>2, <4>1, <5>1
        <4>3. j < i
          <5>1. i < j => E[i] < E[j]
            BY <1>7, <2>2, <4>2
          <5> QED BY <2>2, <4>2, <5>1
        <4>4. j <= i - 1
          BY <4>3
        <4>5. E[j] <= E[i - 1]
          <5>1. j < i - 1 => E[j] < E[i - 1]
            BY <1>7, <2>2, <4>2
          <5> QED BY <2>2, <4>2, <4>4, <5>1
        <4> QED BY <1>2, <2>2, <4>1, <4>2, <4>5
      <3> QED BY <3>1, <3>2
    <2>5. B \in SUBSET Int
      <3>1. \A f \in ends : f \in Int
        BY <1>4, <1>2, <1>8
      <3> QED BY <1>2, <3>1
    <2>6. begin(e) = b + 1
      <3> HIDE DEF B, b
      <3>1. Final(B) = b
        BY <2>3, <2>4, <2>5, FinalIs
      <3> QED BY <3>1 DEF B
    <2>7. SubSeq(s, b + 1, e - 1) = SubSeq(body, E[i - 1] + 1, E[i] - 1)
      <3> DEFINE x == E[i - 1] + 1
                 y == E[i] - 1
                 a == SubSeq(s, 1, c)
                 p == b + 1
                 q == e - 1
                 d == SubSeq(s, p, q)
                 g == SubSeq(body, x, y)
      <3>0. body \in Seq(Byte) /\ E[i] <= Len(body)
        BY <1>1, <1>8, <2>2 DEF Closed
      <3>1. /\ x \in 1 .. Len(body) + 1 /\ y \in x - 1 .. Len(body)
            /\ p \in 1 .. Len(s) + 1 /\ q \in p - 1 .. Len(s)
            /\ q - p + 1 = y - x + 1 /\ p = c + x /\ q = c + y
        <4> DEFINE z == E[i]
                   w == E[i - 1]
        <4>1. w \in Nat /\ z \in Nat /\ w < z /\ z <= Len(body) /\ e = c + z /\ b = c + w
          BY <2>1, <2>2, <3>0
        <4>2. Len(s) = c + Len(body) /\ c \in Nat /\ Len(body) \in Nat
          BY <1>2, <1>5
        <4> HIDE DEF z, w, b
        <4>3. w + 1 \in 1 .. Len(body) + 1 /\ z - 1 \in (w + 1) - 1 .. Len(body)
          BY <4>1, <4>2
        <4>4. b + 1 \in 1 .. Len(s) + 1 /\ e - 1 \in (b + 1) - 1 .. Len(s)
          <5>1. b \in Nat /\ e \in Nat /\ b < e /\ e <= Len(s) /\ Len(s) \in Nat
            BY <4>1, <4>2
          <5> QED BY <5>1
        <4>5. (e - 1) - (b + 1) + 1 = (z - 1) - (w + 1) + 1 /\ b + 1 = c + (w + 1) /\ e - 1 = c + (z - 1)
          BY <4>1, <4>2
        <4> QED BY <4>3, <4>4, <4>5 DEF z, w
      <3> HIDE DEF x, y, p, q
      <3>2. d \in Seq(Byte) /\ Len(d) = q - p + 1 /\ \A k \in 1 .. q - p + 1 : d[k] = s[p + k - 1]
        BY <1>5, <3>1, SubSeqIs
      <3>3. g \in Seq(Byte) /\ Len(g) = y - x + 1 /\ \A k \in 1 .. y - x + 1 : g[k] = body[x + k - 1]
        BY <3>0, <3>1, SubSeqIs
      <3> HIDE DEF d, g
      <3>4. \A k \in 1 .. y - x + 1 : d[k] = g[k]
        <4> SUFFICES ASSUME NEW k \in 1 .. y - x + 1 PROVE d[k] = g[k]
          OBVIOUS
        <4>1. x + k - 1 \in 1 .. Len(body) /\ c + (x + k - 1) = p + k - 1
          BY <1>2, <3>1
        <4>2. d[k] = s[p + k - 1]
          BY <3>1, <3>2
        <4>3. g[k] = body[x + k - 1]
          BY <3>3
        <4>4. s[c + (x + k - 1)] = body[x + k - 1]
          BY <1>5, <4>1
        <4> QED BY <4>1, <4>2, <4>3, <4>4
      <3>5. d = g
        BY <3>1, <3>2, <3>3, <3>4, SeqEqual
      <3> QED BY <3>5 DEF d, g, p, q, x, y
    <2>8. SubSeq(body, E[i - 1] + 1, E[i] - 1) = texts[i]
      BY <1>1 DEF Closed
    <2> HIDE DEF b, ends
    <2> QED BY <1>6, <2>6, <2>7, <2>8
  <1>11. Final({c} \union ends) = Len(s)
    <2> DEFINE B == {c} \union ends
    <2>1. B \in SUBSET Int
      <3>1. \A f \in ends : f \in Int
        BY <1>4, <1>2, <1>8
      <3> QED BY <1>2, <3>1
    <2>2. Len(s) \in B
      <3>1. CASE n = 0
        BY <1>2, <1>5, <1>9, <3>1
      <3>2. CASE n # 0
        <4>1. n \in 1 .. n
          BY <1>2, <3>2
        <4> QED BY <1>4, <1>5, <1>9, <4>1
      <3> QED BY <3>1, <3>2
    <2>3. ASSUME NEW f \in B PROVE f <= Len(s)
      <3>1. CASE f = c
        BY <1>2, <1>5, <3>1
      <3>2. CASE f \in ends
        <4>1. PICK j \in 1 .. n : f = c + E[j]
          BY <1>4, <3>2
        <4>2. j \in 0 .. n
          BY <1>2
        <4> QED BY <1>2, <1>5, <1>8, <4>1, <4>2
      <3> QED BY <3>1, <3>2
    <2> HIDE DEF B
    <2>4. Final(B) = Len(s)
      BY <2>1, <2>2, <2>3, FinalIs
    <2> QED BY <2>4 DEF B
  <1>12. Payload(m, 0, MsgSize(m)) = s
    <2>1. MsgSize(m) = Len(s) /\ 0 \in Nat /\ Len(s) \in Nat /\ 0 + Len(s) = Len(s) /\ 0 + 1 = 1
      BY <1>2, <1>3, <1>5 DEF Message
    <2>2. 0 + Len(s) <= Len(s)
      BY <2>1
    <2>3. Payload(m, 0, Len(s)) = SubSeq(s, 0 + 1, 0 + Len(s))
      BY <1>3, <2>1, <2>2, PayloadIs
    <2>4. SubSeq(s, 1, Len(s)) = s
      BY <1>5, SubSeqFull
    <2> QED BY <2>1, <2>3, <2>4
  <1>13. FormatOutcome(m) =
           LET bad == {e \in ends : outcome(e) # Parsed}
           IN  IF Positions(s, Colon) = {} THEN Rejected
               ELSE IF bad # {} THEN outcome(First(bad))
               ELSE IF Final({c} \union ends) # Len(s) THEN Rejected
               ELSE Parsed
    BY <1>5, <1>12, ZenonT(30) DEF FormatOutcome, FormatEnds
  <1>14. FormatOutcome(m) = Parsed
    <2>1. {e \in ends : outcome(e) # Parsed} = {}
      <3> HIDE DEF outcome, ends
      <3> QED BY <1>10
    <2> HIDE DEF ends, outcome
    <2> QED BY <1>5, <1>11, <1>13, <2>1
  <1>15. ColonOf(m) = 3 + c
    <2> DEFINE B == Positions(m, Colon) \ 1 .. 3
    <2>1. m \in Seq(Byte) /\ Len(m) = 3 + Len(s) /\ Len(s) \in Nat /\ \A i \in 1 .. Len(s) : m[3 + i] = s[i]
      BY <1>2, <1>3, <1>5 DEF Message
    <2>2. c \in 1 .. Len(s) /\ 3 + c \in 1 .. Len(m)
      BY <1>2, <1>5, <1>c, <2>1
    <2>3. 3 + c \in B
      BY <1>5, <2>1, <2>2 DEF Positions
    <2>4. ASSUME NEW p \in B PROVE 3 + c <= p
      <3>1. p \in 1 .. Len(m) /\ p > 3 /\ m[p] = Colon
        BY DEF Positions
      <3>2. p - 3 \in 1 .. Len(s) /\ 3 + (p - 3) = p
        BY <2>1, <3>1
      <3>3. s[p - 3] = Colon
        BY <2>1, <3>1, <3>2
      <3>4. ~ (p - 3 \in 1 .. Len(name))
        BY <1>5, <3>3 DEF Free
      <3> QED BY <1>2, <1>c, <3>1, <3>2, <3>4
    <2>5. B \in SUBSET Int
      BY DEF Positions
    <2> HIDE DEF B
    <2>6. First(B) = 3 + c
      BY <2>3, <2>4, <2>5, FirstIs
    <2> QED BY <2>6 DEF B, ColonOf, HeaderLen
  <1>16. FormatName(m) = name
    <2>1. Payload(m, 0, Len(name)) = SubSeq(s, 0 + 1, 0 + Len(name))
      <3>1. 0 + Len(name) <= Len(s) /\ 0 \in Nat /\ Len(name) \in Nat
        BY <1>2, <1>5, <1>c
      <3> QED BY <1>3, <3>1, PayloadIs
    <2>2. /\ 0 + 1 = 1 /\ 0 + Len(name) = Len(name) /\ 3 + 0 + 1 = 3 + 1 /\ 3 + 0 + Len(name) = (3 + c) - 1
      BY <1>2, <1>c
    <2>3. FormatName(m) = SubSeq(m, 3 + 1, (3 + c) - 1)
      BY <1>15 DEF FormatName, HeaderLen
    <2>4. Payload(m, 0, Len(name)) = SubSeq(m, 3 + 0 + 1, 3 + 0 + Len(name))
      BY DEF Payload, HeaderLen
    <2>5. SubSeq(m, 3 + 0 + 1, 3 + 0 + Len(name)) = SubSeq(s, 1, Len(name))
      BY <2>1, <2>2, <2>4
    <2> QED BY <1>5, <2>2, <2>3, <2>5
  <1> QED BY <1>14, <1>16

-----------------------------------------------------------------------------
(* A message the reader builds an object from. *)
Good(m) == m \in Seq(Byte) /\ Len(m) = MsgLen(m) /\ ~ Empty(m) /\ ParseOutcome(m) = Parsed

LEMMA SerializedLen ==
    ASSUME NEW type \in Byte, NEW payload \in Seq(Byte)
    PROVE  Len(Serialized(type, payload)) = 3 + Len(payload)
  <1> DEFINE n == Len(payload)
             h == Header(n, type)
  <1>1. n \in Nat
    BY LenProperties
  <1>2. h \in Seq(Nat) /\ Len(h) = 3
    <2>1. n % 256 \in Nat /\ n \div 256 \in Nat /\ type \in Nat
      <3> HIDE DEF n
      <3> QED BY <1>1 DEF Byte
    <2> HIDE DEF n
    <2> QED BY <2>1 DEF Header, n
  <1>3. payload \in Seq(Nat)
    <2>1. Byte \subseteq Nat
      BY DEF Byte
    <2> QED BY <2>1, SeqMonotonic
  <1> HIDE DEF h
  <1>4. Len(h \o payload) = Len(h) + Len(payload)
    BY <1>2, <1>3, ConcatProperties
  <1> QED BY <1>2, <1>4 DEF Serialized, h, n

Parts(p, a, f, v) ==
    /\ p \in Seq(Byte) /\ Len(p) = 1 + Len(f) + Len(v)
    /\ p[1] = a
    /\ \A i \in 1 .. Len(f) : p[1 + i] = f[i]
    /\ SubSeq(p, 2, 1 + Len(f)) = f
    /\ SubSeq(p, 2 + Len(f), Len(p)) = v

LEMMA PartsAre ==
    ASSUME NEW a \in Byte, NEW f \in Seq(Byte), NEW v \in Seq(Byte)
    PROVE  Parts(<<a>> \o f \o v, a, f, v)
  <1> DEFINE h == <<a>> \o f
             p == h \o v
  <1>1. /\ h \in Seq(Byte) /\ Len(h) = 1 + Len(f) /\ Len(f) \in Nat /\ Len(v) \in Nat
        /\ h[1] = a /\ \A i \in 1 .. Len(f) : h[1 + i] = f[i]
    OBVIOUS
  <1>2. SubSeq(h, 2, 1 + Len(f)) = f
    <2> DEFINE b == <<a>>
    <2>1. b \in Seq(Byte) /\ Len(b) = 1 /\ 1 \in 1 .. Len(f) + 1 /\ Len(f) \in (1 - 1) .. Len(f) /\ Len(f) \in Nat
      OBVIOUS
    <2>2. h = b \o f
      OBVIOUS
    <2> HIDE DEF b, h
    <2>3. SubSeq(b \o f, Len(b) + 1, Len(b) + Len(f)) = f
      BY <2>1, SubSeqFront
    <2>4. Len(b) + 1 = 2 /\ Len(b) + Len(f) = 1 + Len(f)
      BY <2>1
    <2> QED BY <2>2, <2>3, <2>4
  <1> HIDE DEF h
  <1>3. p \in Seq(Byte) /\ Len(p) = Len(h) + Len(v) /\ \A i \in 1 .. Len(h) : p[i] = h[i]
    <2>1. h \in Seq(Byte)
      BY <1>1
    <2> QED BY <2>1, ConcatIs
  <1>4. SubSeq(p, 2, 1 + Len(f)) = SubSeq(h, 2, 1 + Len(f))
    <2>1. 2 \in 1 .. Len(h) + 1 /\ 1 + Len(f) \in (2 - 1) .. Len(h)
      BY <1>1
    <2> DEFINE y == 1 + Len(f)
    <2> HIDE DEF y
    <2>2. SubSeq(h \o v, 2, y) = SubSeq(h, 2, y)
      BY <1>1, <2>1, SubSeqOfFront DEF y
    <2> QED BY <2>2 DEF y
  <1>5. SubSeq(p, 2 + Len(f), Len(p)) = v
    <2>1. SubSeq(h \o v, Len(h) + 1, Len(h) + Len(v)) = v
      BY <1>1, SubSeqFront
    <2>2. Len(h) + 1 = 2 + Len(f) /\ Len(h) + Len(v) = Len(p)
      BY <1>1, <1>3
    <2> QED BY <2>1, <2>2
  <1> HIDE DEF p
  <1>6. p[1] = a /\ \A i \in 1 .. Len(f) : p[1 + i] = f[i]
    BY <1>1, <1>3
  <1>7. Parts(p, a, f, v)
    BY <1>1, <1>2, <1>3, <1>4, <1>5, <1>6 DEF Parts
  <1> QED BY <1>7 DEF p, h

LEMMA MinSizesAre ==
    /\ DOMAIN MinSize = {ADD_LOGGED_MSG, LOGGING, LOGGING_TAGGED, DATA, DROPOUT, SYNC}
    /\ MinSize[ADD_LOGGED_MSG] = 4 /\ MinSize[LOGGING] = 10 /\ MinSize[DATA] = 3
  <1>1. DOMAIN MinSize = {ADD_LOGGED_MSG, LOGGING, LOGGING_TAGGED, DATA, DROPOUT, SYNC}
    BY DEF MinSize
  <1>2. MinSize[ADD_LOGGED_MSG] = 4
    BY DEF MinSize, ADD_LOGGED_MSG, LOGGING, LOGGING_TAGGED, DATA, DROPOUT, SYNC
  <1>3. MinSize[LOGGING] = 10
    BY DEF MinSize, ADD_LOGGED_MSG, LOGGING, LOGGING_TAGGED, DATA, DROPOUT, SYNC
  <1>4. MinSize[DATA] = 3
    BY DEF MinSize, ADD_LOGGED_MSG, LOGGING, LOGGING_TAGGED, DATA, DROPOUT, SYNC
  <1> QED BY <1>1, <1>2, <1>3, <1>4

LEMMA ParseOutcomeIs ==
    ASSUME NEW m
    PROVE  /\ MsgType(m) \in {INFO, PARAMETER} => ParseOutcome(m) = KeyedOutcome(m, 2, 1, m[4])
           /\ MsgType(m) = FORMAT => ParseOutcome(m) = FormatOutcome(m)
           /\ MsgType(m) \in {ADD_LOGGED_MSG, LOGGING, DATA} /\ ~ (MsgSize(m) < MinSize[MsgType(m)])
                => ParseOutcome(m) = Parsed
  <1> DEFINE t == MsgType(m)
             A == KeyedOutcome(m, 2, 1, m[4])
             B == IF MsgSize(m) < 3 THEN Rejected ELSE KeyedOutcome(m, 3, 2, m[5])
             C == FormatOutcome(m)
             small == MsgSize(m) < MinSize[t]
             magic == Payload(m, 0, 8) # SyncMagicBytes
             D == IF small \/ (t = SYNC /\ magic) THEN Rejected ELSE Parsed
             keyed == t \in {INFO, PARAMETER}
             prefixed == t \in {INFO_MULTIPLE, PARAMETER_DEFAULT}
             format == t = FORMAT
             sized == t \in DOMAIN MinSize
  <1>1. ParseOutcome(m) = CASE keyed -> A
                            [] prefixed -> B
                            [] format -> C
                            [] sized -> D
                            [] OTHER -> Parsed
    BY DEF ParseOutcome
  <1>2. keyed => ~ prefixed /\ ~ format /\ ~ sized
    BY MinSizesAre DEF INFO, PARAMETER, INFO_MULTIPLE, PARAMETER_DEFAULT, FORMAT, ADD_LOGGED_MSG, LOGGING, LOGGING_TAGGED, DATA, DROPOUT, SYNC
  <1>3. format => ~ prefixed /\ ~ keyed /\ ~ sized
    BY MinSizesAre DEF INFO, PARAMETER, INFO_MULTIPLE, PARAMETER_DEFAULT, FORMAT, ADD_LOGGED_MSG, LOGGING, LOGGING_TAGGED, DATA, DROPOUT, SYNC
  <1>4. t \in {ADD_LOGGED_MSG, LOGGING, DATA} => sized /\ ~ prefixed /\ ~ keyed /\ ~ format /\ t # SYNC
    BY MinSizesAre DEF INFO, PARAMETER, INFO_MULTIPLE, PARAMETER_DEFAULT, FORMAT, ADD_LOGGED_MSG, LOGGING, LOGGING_TAGGED, DATA, DROPOUT, SYNC
  <1>5. t \in {ADD_LOGGED_MSG, LOGGING, DATA} /\ ~ small => D = Parsed
    BY <1>4
  <1> HIDE DEF A, B, C, D, keyed, prefixed, format, sized
  <1>6. keyed => ParseOutcome(m) = A
    BY <1>1, <1>2
  <1>7. format => ParseOutcome(m) = C
    BY <1>1, <1>3
  <1>8. sized /\ ~ prefixed /\ ~ keyed /\ ~ format => ParseOutcome(m) = D
    BY <1>1
  <1>9. t \in {ADD_LOGGED_MSG, LOGGING, DATA} /\ ~ small => ParseOutcome(m) = Parsed
    BY <1>4, <1>5, <1>8
  <1> QED BY <1>6, <1>7, <1>9 DEF keyed, format, A, C

LEMMA SerializedFits ==
    ASSUME NEW type \in Byte \ {0}, NEW p \in Seq(Byte), Len(p) >= 1, NEW m, m = Serialized(type, p), Fits(m)
    PROVE  Message(m, type, p) /\ ~ Empty(m) /\ Len(p) <= MaxPayload
  <1>1. Len(p) \in Nat /\ type \in Byte /\ type # 0
    BY LenProperties
  <1>2. Len(m) = 3 + Len(p)
    BY <1>1, SerializedLen
  <1>3. Len(m) - 3 <= MaxPayload
    BY DEF Fits, HeaderLen
  <1>4. Len(p) <= MaxPayload
    BY <1>1, <1>2, <1>3
  <1>5. Message(m, type, p)
    BY <1>1, <1>4, SerializedIs
  <1>6. ~ Empty(m)
    BY <1>1, <1>5 DEF Message, Empty
  <1> QED BY <1>4, <1>5, <1>6

(* MessageInfo, ParameterDefault: an info or parameter of a field that can  *)
(* be parsed and any value is parsed, when it fits its size field.          *)
THEOREM KeyedGood ==
    ASSUME NEW type \in {INFO, PARAMETER}, NEW field \in Seq(Byte), NEW value \in Seq(Byte),
           FieldOutcome(field) = Parsed, Len(field) \in 2 .. 255,
           NEW m, m = KeyedMessage(type, field, value), Fits(m)
    PROVE  Good(m) /\ MsgType(m) = type
  <1> DEFINE p == <<Len(field)>> \o field \o value
  <1>1. Len(field) \in Byte /\ type \in Byte \ {0}
    <2>1. \A k \in 2 .. 255 : k \in Byte
      BY DEF Byte
    <2>2. type \in Byte \ {0}
      BY DEF Byte, INFO, PARAMETER
    <2> QED BY <2>1, <2>2
  <1>2. Parts(p, Len(field), field, value)
    BY <1>1, PartsAre
  <1>3. m = Serialized(type, p)
    BY DEF KeyedMessage
  <1> HIDE DEF p
  <1>4. /\ p \in Seq(Byte) /\ Len(p) \in Nat /\ Len(p) = 1 + Len(field) + Len(value)
        /\ Len(value) \in Nat /\ Len(field) \in Nat /\ Len(p) >= 1
    <2>1. p \in Seq(Byte) /\ Len(p) = 1 + Len(field) + Len(value)
      BY <1>2 DEF Parts
    <2>2. Len(value) \in Nat /\ Len(field) \in Nat
      BY LenProperties
    <2> QED BY <2>1, <2>2
  <1>5. Message(m, type, p) /\ ~ Empty(m)
    BY <1>1, <1>3, <1>4, SerializedFits
  <1>6. MsgSize(m) = Len(p) /\ MsgType(m) = type /\ m \in Seq(Byte) /\ Len(m) = MsgLen(m)
    BY <1>5 DEF Message
  <1>7. m[4] = Len(field)
    <2>1. 1 \in 1 .. Len(p) /\ 3 + 1 = 4
      BY <1>4
    <2> QED BY <1>2, <1>5, <2>1 DEF Message, Parts
  <1>8. Payload(m, 1, Len(field)) = field
    <2>1. 1 + Len(field) <= Len(p) /\ 1 \in Nat /\ 1 + 1 = 2
      BY <1>4
    <2>2. Payload(m, 1, Len(field)) = SubSeq(p, 1 + 1, 1 + Len(field))
      <3> DEFINE k == Len(field)
      <3>1. k \in Nat /\ 1 \in Nat /\ 1 + k <= Len(p)
        BY <1>4, <2>1
      <3> HIDE DEF k
      <3>2. Payload(m, 1, k) = SubSeq(p, 1 + 1, 1 + k)
        BY <1>5, <3>1, PayloadIs
      <3> QED BY <3>2 DEF k
    <2>3. SubSeq(p, 2, 1 + Len(field)) = field
      BY <1>2 DEF Parts
    <2> QED BY <2>1, <2>2, <2>3
  <1>9. ~ (MsgSize(m) < 2) /\ ~ (m[4] > MsgSize(m) - 1)
    <2> DEFINE k == Len(field)
               l == Len(value)
    <2>1. k \in 2 .. 255 /\ l \in Nat /\ MsgSize(m) = 1 + k + l /\ m[4] = k
      BY <1>4, <1>6, <1>7
    <2> HIDE DEF k, l
    <2>2. ~ (1 + k + l < 2) /\ ~ (k > (1 + k + l) - 1)
      BY <2>1
    <2> QED BY <2>1, <2>2
  <1>10. KeyedOutcome(m, 2, 1, m[4]) = Parsed
    BY <1>7, <1>8, <1>9 DEF KeyedOutcome
  <1>11. ParseOutcome(m) = KeyedOutcome(m, 2, 1, m[4])
    <2>1. MsgType(m) \in {INFO, PARAMETER}
      BY <1>6
    <2> QED BY <2>1, ParseOutcomeIs
  <1> QED BY <1>5, <1>6, <1>10, <1>11 DEF Good

(* MessageFormat: the format written for a name and fields, when it fits    *)
(* its size field, is parsed, and has the name it was written with.         *)
THEOREM FormatGood ==
    ASSUME NEW name \in Seq(Byte), Free(name, {Colon, Semicolon}), NEW texts, FormatTexts(texts),
           NEW m, m = FormatMessage(name, texts), Fits(m)
    PROVE  Good(m) /\ MsgType(m) = FORMAT /\ FormatName(m) = name
  <1> DEFINE p == FormatBytes(name, texts)
  <1>1. m = Serialized(FORMAT, p)
    BY DEF FormatMessage, FormatBytes
  <1>2. PICK E, body : Closed(body, texts, Len(texts), E) /\ Divides(p, name, Colon, body)
    BY FormatBytesAre
  <1>3. p \in Seq(Byte) /\ Len(p) >= 1
    <2>1. p \in Seq(Byte) /\ Len(p) = Len(name) + 1 + Len(body) /\ body \in Seq(Byte)
      BY <1>2 DEF Divides, Closed
    <2>2. Len(name) \in Nat /\ Len(body) \in Nat
      BY <2>1, LenProperties
    <2> QED BY <2>1, <2>2
  <1>4. FORMAT \in Byte \ {0}
    BY DEF FORMAT, Byte
  <1>5. Message(m, FORMAT, p) /\ ~ Empty(m)
    <2> HIDE DEF p
    <2> QED BY <1>1, <1>3, <1>4, SerializedFits
  <1>6. FormatOutcome(m) = Parsed /\ FormatName(m) = name
    BY <1>5, FormatParsed
  <1>7. MsgType(m) = FORMAT /\ m \in Seq(Byte) /\ Len(m) = MsgLen(m)
    BY <1>5 DEF Message
  <1>8. ParseOutcome(m) = Parsed
    BY <1>6, <1>7, ParseOutcomeIs
  <1> QED BY <1>5, <1>6, <1>7, <1>8 DEF Good

IdLimit == 65536

LEMMA IdWord ==
    ASSUME NEW id \in Nat, id < IdLimit
    PROVE  id % 256 \in Byte /\ id \div 256 \in Byte /\ id = (id % 256) + 256 * (id \div 256)
  BY SMT DEF Byte, IdLimit

(* AddLoggedMessage: a subscription is parsed and has the id it was written *)
(* with, if that is one of 16 bits.                                         *)
THEOREM AddGood ==
    ASSUME NEW multi \in Byte, NEW id \in Nat, id < IdLimit, NEW name \in Seq(Byte), name # <<>>,
           NEW m, m = AddMessage(multi, id, name), Fits(m)
    PROVE  Good(m) /\ MsgType(m) = ADD_LOGGED_MSG /\ AddedId(m) = id
  <1> DEFINE w == Word(id)
             p == <<multi>> \o w \o name
             t == ADD_LOGGED_MSG
  <1>1. id % 256 \in Byte /\ id \div 256 \in Byte /\ id = (id % 256) + 256 * (id \div 256)
    BY IdWord
  <1>2. w \in Seq(Byte) /\ Len(w) = 2 /\ w[1] = id % 256 /\ w[2] = id \div 256
    BY <1>1 DEF Word
  <1>3. m = Serialized(t, p)
    BY DEF AddMessage
  <1> HIDE DEF w
  <1>4. Parts(p, multi, w, name)
    BY <1>2, PartsAre
  <1> HIDE DEF p
  <1>5. p \in Seq(Byte) /\ Len(p) = 3 + Len(name) /\ Len(name) \in Nat /\ Len(name) >= 1
    <2>1. p \in Seq(Byte) /\ Len(p) = 1 + Len(w) + Len(name)
      BY <1>4 DEF Parts
    <2>2. Len(name) \in Nat /\ Len(name) # 0
      BY LenProperties, EmptySeq
    <2> QED BY <1>2, <2>1, <2>2
  <1>6. t \in Byte \ {0}
    BY DEF ADD_LOGGED_MSG, Byte
  <1>7. Message(m, t, p) /\ ~ Empty(m)
    <2>1. Len(p) >= 1
      BY <1>5
    <2> HIDE DEF t
    <2> QED BY <1>3, <1>5, <1>6, <2>1, SerializedFits
  <1>8. p[2] = id % 256 /\ p[3] = id \div 256
    <2>1. \A i \in 1 .. Len(w) : p[1 + i] = w[i]
      BY <1>4 DEF Parts
    <2>2. 1 \in 1 .. Len(w) /\ 2 \in 1 .. Len(w) /\ 1 + 1 = 2 /\ 1 + 2 = 3
      BY <1>2
    <2>3. p[1 + 1] = w[1] /\ p[1 + 2] = w[2]
      BY <2>1, <2>2
    <2> QED BY <1>2, <2>2, <2>3
  <1>9. m[5] = p[2] /\ m[6] = p[3]
    <2>1. 2 \in 1 .. Len(p) /\ 3 \in 1 .. Len(p) /\ 3 + 2 = 5 /\ 3 + 3 = 6
      BY <1>5
    <2>2. m[3 + 2] = p[2] /\ m[3 + 3] = p[3]
      BY <1>7, <2>1 DEF Message
    <2> QED BY <2>1, <2>2
  <1>10. AddedId(m) = id
    BY <1>1, <1>8, <1>9 DEF AddedId
  <1>11. MsgType(m) = t /\ MsgSize(m) = Len(p) /\ m \in Seq(Byte) /\ Len(m) = MsgLen(m)
    BY <1>7 DEF Message
  <1>12. ParseOutcome(m) = Parsed
    <2>1. ~ (MsgSize(m) < MinSize[MsgType(m)])
      BY <1>5, <1>11, MinSizesAre
    <2> QED BY <1>11, <2>1, ParseOutcomeIs
  <1> QED BY <1>7, <1>10, <1>11, <1>12 DEF Good

(* Logging: a text of a byte at least is parsed.                            *)
THEOREM TextGood ==
    ASSUME NEW level \in Byte, NEW stamp \in Seq(Byte), Len(stamp) = 8, NEW text \in Seq(Byte), text # <<>>,
           NEW m, m = TextMessage(LOGGING, level, stamp, text), Fits(m)
    PROVE  Good(m) /\ MsgType(m) = LOGGING
  <1> DEFINE p == <<level>> \o stamp \o text
             t == LOGGING
  <1>1. Parts(p, level, stamp, text)
    BY PartsAre
  <1>2. m = Serialized(t, p)
    BY DEF TextMessage
  <1> HIDE DEF p
  <1>3. p \in Seq(Byte) /\ Len(p) = 9 + Len(text) /\ Len(text) \in Nat /\ Len(text) >= 1
    <2>1. p \in Seq(Byte) /\ Len(p) = 1 + Len(stamp) + Len(text)
      BY <1>1 DEF Parts
    <2>2. Len(text) \in Nat /\ Len(text) # 0
      BY LenProperties, EmptySeq
    <2> QED BY <2>1, <2>2
  <1>4. t \in Byte \ {0}
    BY DEF LOGGING, Byte
  <1>5. Message(m, t, p) /\ ~ Empty(m)
    <2>1. Len(p) >= 1
      BY <1>3
    <2> HIDE DEF t
    <2> QED BY <1>2, <1>3, <1>4, <2>1, SerializedFits
  <1>6. MsgType(m) = t /\ MsgSize(m) = Len(p) /\ m \in Seq(Byte) /\ Len(m) = MsgLen(m)
    BY <1>5 DEF Message
  <1>7. ParseOutcome(m) = Parsed
    <2>1. ~ (MsgSize(m) < MinSize[MsgType(m)])
      BY <1>3, <1>6, MinSizesAre
    <2> QED BY <1>6, <2>1, ParseOutcomeIs
  <1> QED BY <1>5, <1>6, <1>7 DEF Good

(* Data: data of a byte at least is parsed and has its subscription's id.   *)
THEOREM DataGood ==
    ASSUME NEW id \in Nat, id < IdLimit, NEW bytes \in Seq(Byte), Len(bytes) >= 1,
           NEW m, m = DataMessage(id, bytes), Fits(m)
    PROVE  Good(m) /\ MsgType(m) = DATA /\ MessageId(m) = id
  <1> DEFINE w == Word(id)
             p == w \o bytes
             t == DATA
  <1>1. id % 256 \in Byte /\ id \div 256 \in Byte /\ id = (id % 256) + 256 * (id \div 256)
    BY IdWord
  <1>2. w \in Seq(Byte) /\ Len(w) = 2 /\ w[1] = id % 256 /\ w[2] = id \div 256
    BY <1>1 DEF Word
  <1>3. m = Serialized(t, p)
    BY DEF DataMessage
  <1> HIDE DEF w
  <1>4. p \in Seq(Byte) /\ Len(p) = Len(w) + Len(bytes) /\ \A i \in 1 .. Len(w) : p[i] = w[i]
    <2>1. w \in Seq(Byte) /\ bytes \in Seq(Byte)
      BY <1>2
    <2> QED BY <2>1, ConcatIs, SMTT(30)
  <1> HIDE DEF p
  <1>5. Len(p) = 2 + Len(bytes) /\ Len(bytes) \in Nat
    BY <1>2, <1>4, LenProperties
  <1>6. t \in Byte \ {0}
    BY DEF DATA, Byte
  <1>7. Message(m, t, p) /\ ~ Empty(m)
    <2>1. Len(p) >= 1
      BY <1>5
    <2> HIDE DEF t
    <2> QED BY <1>3, <1>4, <1>6, <2>1, SerializedFits
  <1>8. m[4] = w[1] /\ m[5] = w[2]
    <2>1. 1 \in 1 .. Len(p) /\ 2 \in 1 .. Len(p) /\ 3 + 1 = 4 /\ 3 + 2 = 5 /\ 1 \in 1 .. Len(w) /\ 2 \in 1 .. Len(w)
      BY <1>2, <1>5
    <2>2. m[3 + 1] = p[1] /\ m[3 + 2] = p[2]
      BY <1>7, <2>1 DEF Message
    <2> QED BY <1>4, <2>1, <2>2
  <1>9. MessageId(m) = id
    BY <1>1, <1>2, <1>8 DEF MessageId
  <1>10. MsgType(m) = t /\ MsgSize(m) = Len(p) /\ m \in Seq(Byte) /\ Len(m) = MsgLen(m)
    BY <1>7 DEF Message
  <1>11. ParseOutcome(m) = Parsed
    <2>1. ~ (MsgSize(m) < MinSize[MsgType(m)])
      BY <1>5, <1>10, MinSizesAre
    <2> QED BY <1>10, <2>1, ParseOutcomeIs
  <1> QED BY <1>7, <1>9, <1>10, <1>11 DEF Good
==============================================================================
