-------------------------- MODULE ParametersProofs --------------------------
(***************************************************************************)
(* Proofs about the command line: what util.cpp does with any text, and    *)
(* the properties of module ParametersProperties for all command lines.    *)
(***************************************************************************)
EXTENDS ParametersProperties, DataLemmas

-----------------------------------------------------------------------------
(* Numbers and digits *)

LEMMA Digits ==
  /\ \A n \in 0..9 : DigitOf(n) \in Digit
  /\ \A m, n \in 0..9 : DigitOf(m) = DigitOf(n) => m = n
  /\ \A digit \in Digit : ValueOf(digit) \in 0..9 /\ DigitOf(ValueOf(digit)) = digit
  <1>1. \A n \in 0..9 : DigitOf(n) \in Digit
    BY DEF DigitOf, Digit
  <1>2. \A m, n \in 0..9 : DigitOf(m) = DigitOf(n) => m = n
    BY DEF DigitOf
  <1>3. ASSUME NEW digit \in Digit
        PROVE  ValueOf(digit) \in 0..9 /\ DigitOf(ValueOf(digit)) = digit
    <2>1. \E n \in 0..9 : DigitOf(n) = digit
      <3>1. /\ DigitOf(0) = "0" /\ DigitOf(1) = "1" /\ DigitOf(2) = "2" /\ DigitOf(3) = "3"
            /\ DigitOf(4) = "4" /\ DigitOf(5) = "5" /\ DigitOf(6) = "6" /\ DigitOf(7) = "7"
            /\ DigitOf(8) = "8" /\ DigitOf(9) = "9"
        BY DEF DigitOf
      <3>2. QED
        BY <3>1 DEF Digit
    <2>2. QED
      BY <2>1, Zenon DEF ValueOf
  <1>4. QED
    BY <1>1, <1>2, <1>3

\* The recursive function in Number exists.
LEMMA NumberType ==
  ASSUME NEW digits \in Seq(Digit)
  PROVE  Number(digits) \in Nat
  <1> DEFINE n == Len(digits)
             Solves(f) == f = [m \in 0..n |-> IF m = 0 THEN 0
                                              ELSE 10 * f[m - 1] + ValueOf(digits[m])]
             value == CHOOSE f : Solves(f)
             places == 0..n
             first == {0}
             rank == [m \in 0..n |-> m]
             next == [m \in 0..n |-> IF m = 0 THEN 0 ELSE m - 1]
             init == [m \in 0..n |-> 0]
             step == [x \in (0..n) \X Nat |->
                        IF x[1] = 0 THEN 0 ELSE 10 * x[2] + ValueOf(digits[x[1]])]
  <1>1. n \in Nat /\ \A m \in 1..n : digits[m] \in Digit /\ ValueOf(digits[m]) \in 0..9
    BY Digits
  <1>2. /\ first \in SUBSET places /\ rank \in [places -> Nat] /\ next \in [places -> places]
        /\ init \in [places -> Nat] /\ \A m \in places \ first : rank[next[m]] < rank[m]
    BY <1>1
  <1>3. step \in [places \X Nat -> Nat]
    <2>1. ASSUME NEW m \in places, NEW v \in Nat, m # 0
          PROVE  10 * v + ValueOf(digits[m]) \in Nat
      <3>1. ValueOf(digits[m]) \in Nat
        BY <1>1, <2>1
      <3>2. QED
        BY <3>1
    <2>2. QED
      BY <2>1
  <1>4. PICK f : /\ f \in [places -> Nat]
                 /\ \A m \in places : f[m] = IF m \in first THEN init[m]
                                             ELSE step[<<m, f[next[m]]>>]
    <2> HIDE DEF places, first, rank, next, init, step
    <2>1. Terminates(places, Nat, first, rank, next, init, step)
      BY <1>2, <1>3 DEF Terminates
    <2>2. QED
      BY <2>1, Recursion DEF Computes
  <1>5. ASSUME NEW m \in 0..n
        PROVE  f[m] = IF m = 0 THEN 0 ELSE 10 * f[m - 1] + ValueOf(digits[m])
    <2>1. CASE m = 0
      BY <1>4, <2>1
    <2>2. CASE m # 0
      <3>1. next[m] = m - 1 /\ m - 1 \in 0..n
        BY <2>2, <1>1
      <3>2. f[m] = step[<<m, f[m - 1]>>]
        BY <1>4, <2>2, <3>1
      <3>3. f[m - 1] \in Nat
        BY <1>4, <3>1
      <3>4. QED
        BY <2>2, <3>2, <3>3
    <2>3. QED
      BY <2>1, <2>2
  <1>6. Solves(f)
    BY <1>4, <1>5
  <1>7. Solves(value)
    <2>1. \E g : Solves(g)
      BY <1>6
    <2> HIDE DEF Solves
    <2>2. QED
      BY <2>1, Zenon
  <1>8. Number(digits) = value[n]
    BY DEF Number
  <1> DEFINE typed == {m \in 0..n : value[m] \in Nat}
  <1> HIDE DEF value
  <1>9. ASSUME NEW m \in 0..n
        PROVE  value[m] = IF m = 0 THEN 0 ELSE 10 * value[m - 1] + ValueOf(digits[m])
    BY <1>7
  <1>10. ASSUME NEW m \in 1..n, value[m - 1] \in Nat
         PROVE  value[m] \in Nat
    <2>1. m \in 0..n /\ m # 0 /\ ValueOf(digits[m]) \in Nat
      BY <1>1
    <2>2. value[m] = 10 * value[m - 1] + ValueOf(digits[m])
      BY <1>9, <2>1
    <2>3. QED
      BY <1>10, <2>1, <2>2
  <1>11. value[n] \in Nat
    <2> DEFINE bad == {m \in 0..n : value[m] \notin Nat}
    <2>1. SUFFICES ASSUME bad # {} PROVE FALSE
      BY <1>1
    <2>2. bad \in SUBSET Nat
      OBVIOUS
    <2>3. PICK m \in bad : \A k \in bad : m <= k
      BY <2>1, <2>2, MinProperties
    <2>4. m # 0
      BY <2>3, <1>9, <1>1
    <2>5. m \in 1..n /\ m - 1 \in 0..n /\ m - 1 \notin bad
      BY <2>3, <2>4, <1>1
    <2>6. QED
      BY <1>10, <2>3, <2>5
  <1>12. QED
    BY <1>8, <1>11

\* The recursive function Decimal exists: the last digit, and those before it.
LEMMA DecimalEquation ==
  ASSUME NEW n \in Nat
  PROVE  /\ Decimal[n] \in Seq(Digit)
         /\ n < 10 => Decimal[n] = <<DigitOf(n)>>
         /\ n >= 10 => Decimal[n] = Decimal[n \div 10] \o <<DigitOf(n % 10)>>
  <1> DEFINE Solves(f) == f = [m \in Nat |-> IF m < 10 THEN <<DigitOf(m)>>
                                             ELSE f[m \div 10] \o <<DigitOf(m % 10)>>]
             small == 0..9
             texts == Seq(Digit)
             rank == [m \in Nat |-> m]
             next == [m \in Nat |-> m \div 10]
             init == [m \in Nat |-> <<DigitOf(m % 10)>>]
             step == [x \in Nat \X Seq(Digit) |-> x[2] \o <<DigitOf(x[1] % 10)>>]
  <1>1. \A m \in Nat : /\ m % 10 \in 0..9 /\ m \div 10 \in Nat
                       /\ m < 10 => m % 10 = m /\ m \in 0..9
                       /\ m >= 10 => m \div 10 < m
    OBVIOUS
  <1>2. \A m \in Nat : <<DigitOf(m % 10)>> \in Seq(Digit)
    BY <1>1, Digits
  <1>3. /\ small \in SUBSET Nat /\ rank \in [Nat -> Nat] /\ next \in [Nat -> Nat]
        /\ \A m \in Nat \ small : rank[next[m]] < rank[m]
    BY <1>1
  <1>4. init \in [Nat -> texts]
    BY <1>2
  <1>5. step \in [Nat \X texts -> texts]
    BY <1>2, ConcatProperties
  <1>6. PICK f : /\ f \in [Nat -> texts]
                 /\ \A m \in Nat : f[m] = IF m \in small THEN init[m]
                                          ELSE step[<<m, f[next[m]]>>]
    <2> HIDE DEF small, texts, rank, next, init, step
    <2>1. Terminates(Nat, texts, small, rank, next, init, step)
      BY <1>3, <1>4, <1>5 DEF Terminates
    <2>2. QED
      BY <2>1, Recursion DEF Computes
  <1>7. ASSUME NEW m \in Nat
        PROVE  f[m] = IF m < 10 THEN <<DigitOf(m)>> ELSE f[m \div 10] \o <<DigitOf(m % 10)>>
    <2>1. CASE m < 10
      <3>1. f[m] = init[m] /\ m % 10 = m
        BY <1>1, <1>6, <2>1
      <3>2. QED
        BY <2>1, <3>1
    <2>2. CASE m >= 10
      <3>1. next[m] = m \div 10 /\ m \div 10 \in Nat /\ m \notin 0..9 /\ ~(m < 10)
        BY <2>2, <1>1
      <3>2. f[m] = step[<<m, f[m \div 10]>>]
        BY <1>6, <3>1
      <3>3. f[m \div 10] \in Seq(Digit)
        BY <1>6, <3>1
      <3>4. step[<<m, f[m \div 10]>>] = f[m \div 10] \o <<DigitOf(m % 10)>>
        BY <3>3
      <3>5. QED
        BY <3>1, <3>2, <3>4
    <2>3. QED
      BY <2>1, <2>2
  <1>8. Solves(f)
    BY <1>6, <1>7
  <1>9. Solves(Decimal)
    <2>1. \E g : Solves(g)
      BY <1>8
    <2>2. QED
      BY <2>1, Zenon DEF Decimal
  <1>10. ASSUME NEW m \in Nat
         PROVE  /\ m < 10 => Decimal[m] = <<DigitOf(m)>>
                /\ m >= 10 => Decimal[m] = Decimal[m \div 10] \o <<DigitOf(m % 10)>>
    <2>1. Decimal[m] = IF m < 10 THEN <<DigitOf(m)>>
                       ELSE Decimal[m \div 10] \o <<DigitOf(m % 10)>>
      BY <1>9
    <2>2. m >= 10 => ~(m < 10)
      OBVIOUS
    <2>3. QED
      BY <2>1, <2>2, Zenon
  <1>11. Decimal[n] \in Seq(Digit)
    <2> DEFINE bad == {m \in Nat : Decimal[m] \notin Seq(Digit)}
    <2>1. SUFFICES ASSUME bad # {} PROVE FALSE
      OBVIOUS
    <2>2. bad \in SUBSET Nat
      OBVIOUS
    <2>3. PICK m \in bad : \A k \in bad : m <= k
      BY <2>1, <2>2, MinProperties
    <2>4. ~(m < 10)
      <3>1. SUFFICES ASSUME m < 10 PROVE FALSE
        OBVIOUS
      <3>2. Decimal[m] = <<DigitOf(m)>> /\ m % 10 = m
        BY <1>1, <1>10, <3>1
      <3>3. QED
        BY <1>2, <2>3, <3>2
    <2>5. m \div 10 \in Nat /\ m \div 10 < m
      BY <1>1, <2>4
    <2>6. Decimal[m \div 10] \in Seq(Digit)
      BY <2>3, <2>5
    <2>7. Decimal[m] \in Seq(Digit)
      <3>1. m \in Nat /\ m >= 10
        BY <2>3, <2>4
      <3>2. Decimal[m] = Decimal[m \div 10] \o <<DigitOf(m % 10)>>
        BY <1>10, <3>1
      <3>3. <<DigitOf(m % 10)>> \in Seq(Digit)
        BY <1>2, <3>1
      <3>4. QED
        BY <2>6, <3>2, <3>3, ConcatProperties
    <2>8. QED
      BY <2>3, <2>7
  <1>12. QED
    BY <1>10, <1>11, Zenon

-----------------------------------------------------------------------------
(* Frame parameters *)

LEMMA AfterDigitsProperties ==
  ASSUME NEW T, NEW s \in Seq(T), NEW p \in 1..Len(s) + 1
  PROVE  /\ AfterDigits(s, p) \in p..Len(s) + 1
         /\ \A q \in p..AfterDigits(s, p) - 1 : q \in 1..Len(s) /\ s[q] \in Digit
         /\ AfterDigits(s, p) <= Len(s) => s[AfterDigits(s, p)] \notin Digit
  <1> DEFINE others == {q \in p..Len(s) + 1 : q > Len(s) \/ s[q] \notin Digit}
             first == Min(others)
  <1>1. Len(s) \in Nat
    OBVIOUS
  <1>2. others \in SUBSET Nat /\ Len(s) + 1 \in others
    BY <1>1
  <1>3. first \in others /\ \A q \in others : first <= q
    BY <1>2, MinProperties
  <1> HIDE DEF first
  <1>4. \A q \in p..first - 1 : q \in 1..Len(s) /\ s[q] \in Digit
    BY <1>1, <1>3
  <1>5. AfterDigits(s, p) = first
    BY DEF AfterDigits, first
  <1>6. QED
    BY <1>1, <1>3, <1>4, <1>5

\* A parameter is at the positions i to j.
ParameterAt(s, i, j) ==
  /\ i < j /\ s[i] = "%" /\ s[j] = "d"
  /\ j # i + 1 => s[i + 1] = "0" /\ \A n \in i+1..j-1 : s[n] \in Digit

LEMMA ParametersAt ==
  ASSUME NEW T, NEW s \in Seq(T), NEW i \in 1..Len(s), NEW j \in 1..Len(s)
  PROVE  IsParameter(SubSeq(s, i, j)) <=> ParameterAt(s, i, j)
  <1> DEFINE t == SubSeq(s, i, j)
  <1>1. /\ Len(t) = IF i <= j THEN j - i + 1 ELSE 0
        /\ \A n \in 1..j-i+1 : t[n] = s[i + n - 1]
    BY SubSeqProperties
  <1> SUFFICES IsParameter(t) <=> ParameterAt(s, i, j)
    OBVIOUS
  <1> HIDE DEF t
  <1>2. CASE j <= i
    BY <1>1, <1>2 DEF IsParameter, ParameterAt
  <1>3. CASE i < j
    <2>1. Len(t) = j - i + 1 /\ Len(t) >= 2 /\ t[1] = s[i] /\ t[2] = s[i + 1] /\ t[Len(t)] = s[j]
          /\ (Len(t) > 2 <=> j # i + 1)
      <3>1. i \in Int /\ j \in Int /\ Len(t) = j - i + 1 /\ Len(t) >= 2 /\ (Len(t) > 2 <=> j # i + 1)
        BY <1>1, <1>3
      <3>2. /\ 1 \in 1..j-i+1 /\ 2 \in 1..j-i+1 /\ j - i + 1 \in 1..j-i+1
            /\ i + 1 - 1 = i /\ i + 2 - 1 = i + 1 /\ i + (j - i + 1) - 1 = j
        BY <1>3, <3>1
      <3>3. t[1] = s[i + 1 - 1] /\ t[2] = s[i + 2 - 1] /\ t[j - i + 1] = s[i + (j - i + 1) - 1]
        BY <1>1, <3>2, Zenon
      <3>4. QED
        BY <3>1, <3>2, <3>3
    <2>2. (\A n \in 2..Len(t) - 1 : t[n] \in Digit) <=> (\A n \in i+1..j-1 : s[n] \in Digit)
      <3>1. ASSUME \A n \in 2..Len(t) - 1 : t[n] \in Digit, NEW n \in i+1..j-1
            PROVE  s[n] \in Digit
        <4>1. n - i + 1 \in 2..Len(t) - 1 /\ t[n - i + 1] = s[n]
          <5>1. n - i + 1 \in 2..Len(t) - 1 /\ n - i + 1 \in 1..j-i+1 /\ i + (n - i + 1) - 1 = n
            <6>1. i \in Int /\ j \in Int /\ n \in Int /\ i + 1 <= n /\ n <= j - 1 /\ Len(t) = j - i + 1
              BY <2>1
            <6>2. QED
              BY <6>1
          <5>2. t[n - i + 1] = s[i + (n - i + 1) - 1]
            BY <1>1, <5>1
          <5>3. QED
            BY <5>1, <5>2
        <4>2. QED
          BY <3>1, <4>1
      <3>2. ASSUME \A n \in i+1..j-1 : s[n] \in Digit, NEW n \in 2..Len(t) - 1
            PROVE  t[n] \in Digit
        <4>1. i + n - 1 \in i+1..j-1 /\ t[n] = s[i + n - 1]
          BY <1>1, <2>1
        <4>2. QED
          BY <3>2, <4>1
      <3>3. QED
        BY <3>1, <3>2
    <2>3. IsParameter(t) <=> /\ s[i] = "%" /\ s[j] = "d"
                             /\ j # i + 1 => /\ s[i + 1] = "0"
                                             /\ \A n \in 2..Len(t) - 1 : t[n] \in Digit
      BY <2>1 DEF IsParameter
    <2>4. QED
      BY <1>3, <2>2, <2>3 DEF ParameterAt
  <1>4. QED
    BY <1>2, <1>3

\* Where a match that begins at b ends, and what find_parameter() makes of it.
MatchEnd(s, b) ==
  IF b + 1 <= Len(s) /\ s[b + 1] \in {"0", "d"} THEN AfterDigits(s, b + 1) ELSE b + 1

Matches(s, b) == MatchEnd(s, b) <= Len(s) /\ s[MatchEnd(s, b)] = "d"

LEMMA MatchProperties ==
  ASSUME NEW T, NEW s \in Seq(T), NEW b \in 1..Len(s), s[b] = "%"
  PROVE  /\ MatchEnd(s, b) \in b+1..Len(s)+1
         /\ \A q \in b+1..MatchEnd(s, b)-1 : q \in 1..Len(s) /\ s[q] \in Digit
         /\ Matches(s, b) => /\ ParameterAt(s, b, MatchEnd(s, b))
                             /\ SubSeq(s, b + 1, MatchEnd(s, b) - 1) \in Seq(Digit)
         /\ ~Matches(s, b) => \A j \in 1..Len(s) : ~ParameterAt(s, b, j)
         /\ \A j \in 1..Len(s) : ParameterAt(s, b, j) => j = MatchEnd(s, b)
  <1> DEFINE e == MatchEnd(s, b)
             end == AfterDigits(s, b + 1)
  <1>1. Len(s) \in Nat /\ b + 1 \in 1..Len(s)+1 /\ "d" \notin Digit /\ "0" \in Digit
    BY DEF Digit
  <1>2. /\ end \in b+1..Len(s)+1
        /\ \A q \in b+1..end-1 : q \in 1..Len(s) /\ s[q] \in Digit
        /\ end <= Len(s) => s[end] \notin Digit
    BY <1>1, AfterDigitsProperties
  <1>3. e = IF b + 1 <= Len(s) /\ s[b + 1] \in {"0", "d"} THEN end ELSE b + 1
    BY DEF MatchEnd
  <1>4. Matches(s, b) <=> e <= Len(s) /\ s[e] = "d"
    BY DEF Matches
  <1> HIDE DEF end, e
  <1>5. /\ e \in b+1..Len(s)+1
        /\ \A q \in b+1..e-1 : q \in 1..Len(s) /\ s[q] \in Digit
    BY <1>1, <1>2, <1>3
  <1>6. ASSUME Matches(s, b)
        PROVE  ParameterAt(s, b, e) /\ SubSeq(s, b + 1, e - 1) \in Seq(Digit)
    <2>1. e <= Len(s) /\ s[e] = "d"
      BY <1>4, <1>6
    <2>2. e # b + 1 => s[b + 1] = "0"
      <3>1. SUFFICES ASSUME e # b + 1 PROVE s[b + 1] = "0"
        OBVIOUS
      <3>2. e = end /\ s[b + 1] \in {"0", "d"} /\ b + 1 \in b+1..end-1
        BY <1>2, <1>3, <3>1
      <3>3. s[b + 1] \in Digit
        BY <1>2, <3>2
      <3>4. QED
        BY <1>1, <3>2, <3>3
    <2>3. ParameterAt(s, b, e)
      BY <1>5, <2>1, <2>2 DEF ParameterAt
    <2>4. SubSeq(s, b + 1, e - 1) \in Seq(Digit)
      BY <1>5, SubSeqProperties
    <2>5. QED
      BY <2>3, <2>4
  <1>7. ASSUME NEW j \in 1..Len(s), ParameterAt(s, b, j)
        PROVE  Matches(s, b) /\ j = e
    <2>1. b < j /\ s[j] = "d"
          /\ (j # b + 1 => s[b + 1] = "0" /\ \A n \in b+1..j-1 : s[n] \in Digit)
      BY <1>7 DEF ParameterAt
    <2>2. CASE j = b + 1
      <3>1. s[b + 1] = "d" /\ b + 1 <= Len(s) /\ e = end
        BY <1>3, <2>1, <2>2
      <3>2. ~(b + 1 \in b+1..end-1)
        BY <1>1, <1>2, <3>1
      <3>3. end = b + 1
        BY <1>2, <3>2
      <3>4. QED
        BY <1>4, <2>1, <2>2, <3>1, <3>3
    <2>3. CASE j # b + 1
      <3>1. e = end /\ s[b + 1] = "0"
        BY <1>1, <1>3, <2>1, <2>3
      <3>2. ~(j < end)
        <4>1. SUFFICES ASSUME j < end PROVE FALSE
          OBVIOUS
        <4>2. j \in b+1..end-1
          BY <2>1, <4>1, <1>2
        <4>3. QED
          BY <1>1, <1>2, <2>1, <4>2
      <3>3. ~(end < j)
        <4>1. SUFFICES ASSUME end < j PROVE FALSE
          OBVIOUS
        <4>2. end \in b+1..j-1 /\ end <= Len(s)
          BY <1>2, <4>1
        <4>3. QED
          BY <1>2, <2>1, <2>3, <4>2
      <3>4. j = end
        BY <3>2, <3>3, <1>2
      <3>5. QED
        BY <1>4, <2>1, <3>1, <3>4
    <2>4. QED
      BY <2>2, <2>3
  <1>8. QED
    BY <1>5, <1>6, <1>7 DEF e

\* What find_parameter() returns for the parameter at b to e, and for a search
\* from position p on.
Parameter(s, b, e) == [begin |-> b, end |-> e + 1, width |-> Number(SubSeq(s, b + 1, e - 1))]

FirstParameter(s, p, found) ==
  \/ /\ found = NotFound
     /\ \A i \in p..Len(s), j \in 1..Len(s) : ~ParameterAt(s, i, j)
  \/ \E b \in p..Len(s), e \in 1..Len(s) :
       /\ found = Parameter(s, b, e)
       /\ ParameterAt(s, b, e)
       /\ \A i \in p..b-1, j \in 1..Len(s) : ~ParameterAt(s, i, j)

\* The search passes over no parameter, although it goes on behind what it
\* has consumed.
LEMMA FindParameter ==
  ASSUME NEW T, NEW s \in Seq(T)
  PROVE  FirstParameter(s, 1, find_parameter(s))
  <1> DEFINE percents(p) == {q \in p..Len(s) : s[q] = "%"}
             first(p) == Min(percents(p))
             Body(f, p) ==
               LET begins == {q \in p..Len(s) : s[q] = "%"}
                   begin == Min(begins)
                   after == begin + 1
                   end == IF after <= Len(s) /\ s[after] \in {"0", "d"} THEN AfterDigits(s, after)
                          ELSE after
               IN  IF begins = {} THEN NotFound
                   ELSE IF end <= Len(s) /\ s[end] = "d"
                   THEN [begin |-> begin, end |-> end + 1,
                         width |-> Number(SubSeq(s, after, end - 1))]
                   ELSE f[end]
             places == 1..Len(s) + 1
             from == CHOOSE f : f = [p \in places |-> Body(f, p)]
             Result(f, p) ==
               IF percents(p) = {} THEN NotFound
               ELSE IF Matches(s, first(p)) THEN Parameter(s, first(p), MatchEnd(s, first(p)))
               ELSE f[MatchEnd(s, first(p))]
             stops == {p \in places : percents(p) = {} \/ Matches(s, first(p))}
             rank == [p \in places |-> Len(s) + 1 - p]
             next == [p \in places |-> IF p \in stops THEN p ELSE MatchEnd(s, first(p))]
             init == [p \in places |-> IF percents(p) = {} THEN NotFound
                                       ELSE Parameter(s, first(p), MatchEnd(s, first(p)))]
             results == {init[p] : p \in places}
             step == [x \in places \X results |-> x[2]]
  <1>1. Len(s) \in Nat
    OBVIOUS
  <1>2. find_parameter(s) = from[1]
    BY DEF find_parameter
  <1>3. ASSUME NEW f, NEW p
        PROVE  Body(f, p) = Result(f, p)
    BY DEF Matches, MatchEnd, Parameter
  <1>4. ASSUME NEW p \in places, percents(p) # {}
        PROVE  /\ first(p) \in p..Len(s) /\ s[first(p)] = "%"
               /\ \A q \in p..first(p)-1 : s[q] # "%"
    <2>1. percents(p) \in SUBSET Nat
      BY <1>1
    <2>2. first(p) \in percents(p) /\ \A q \in percents(p) : first(p) <= q
      BY <1>4, <2>1, MinProperties
    <2> HIDE DEF first
    <2>3. QED
      BY <1>1, <2>2
  <1> HIDE DEF first, percents, Body
  <1>5. ASSUME NEW p \in places, percents(p) # {}
        PROVE  /\ MatchEnd(s, first(p)) \in first(p)+1..Len(s)+1 /\ first(p) \in 1..Len(s)
               /\ MatchEnd(s, first(p)) \in places
               /\ Len(s) + 1 - MatchEnd(s, first(p)) < Len(s) + 1 - p
    <2>1. first(p) \in p..Len(s) /\ first(p) \in 1..Len(s) /\ s[first(p)] = "%"
      BY <1>1, <1>4, <1>5
    <2>2. MatchEnd(s, first(p)) \in first(p)+1..Len(s)+1
      BY <2>1, MatchProperties
    <2>3. QED
      BY <1>1, <2>1, <2>2
  <1>6. PICK f : \A p \in places : f[p] = Result(f, p)
    <2>1. stops \in SUBSET places /\ rank \in [places -> Nat] /\ init \in [places -> results]
      BY <1>1
    <2>2. next \in [places -> places] /\ \A p \in places \ stops : rank[next[p]] < rank[p]
      BY <1>5
    <2>3. step \in [places \X results -> results]
      OBVIOUS
    <2>4. PICK f : /\ f \in [places -> results]
                   /\ \A p \in places : f[p] = IF p \in stops THEN init[p]
                                               ELSE step[<<p, f[next[p]]>>]
      <3> HIDE DEF places, results, stops, rank, next, init, step
      <3>1. Terminates(places, results, stops, rank, next, init, step)
        BY <2>1, <2>2, <2>3 DEF Terminates
      <3>2. QED
        BY <3>1, Recursion DEF Computes
    <2>5. ASSUME NEW p \in places
          PROVE  f[p] = Result(f, p)
      <3>1. CASE p \in stops
        <4>1. f[p] = init[p] /\ (percents(p) = {} \/ Matches(s, first(p)))
          BY <2>4, <3>1
        <4>2. QED
          BY <4>1
      <3>2. CASE p \notin stops
        <4>1. /\ percents(p) # {} /\ ~Matches(s, first(p))
              /\ next[p] = MatchEnd(s, first(p)) /\ next[p] \in places
          BY <2>2, <3>2
        <4>2. f[p] = step[<<p, f[next[p]]>>] /\ f[next[p]] \in results
          BY <2>4, <3>2, <4>1
        <4>3. step[<<p, f[next[p]]>>] = f[next[p]]
          BY <4>2
        <4>4. QED
          BY <4>1, <4>2, <4>3
      <3>3. QED
        BY <3>1, <3>2
    <2>6. QED
      BY <2>5
  <1>7. ASSUME NEW p \in places
        PROVE  from[p] = Result(from, p)
    <2> DEFINE g == [r \in places |-> f[r]]
    <2>1. g = [r \in places |-> Body(g, r)]
      <3>1. ASSUME NEW q \in places
            PROVE  g[q] = Body(g, q)
        <4>1. g[q] = Result(f, q)
          BY <1>6
        <4>2. percents(q) # {} => g[MatchEnd(s, first(q))] = f[MatchEnd(s, first(q))]
          BY <1>5
        <4> HIDE DEF g, places
        <4>3. Result(f, q) = Result(g, q)
          BY <4>2
        <4>4. QED
          BY <1>3, <4>1, <4>3
      <3>2. g = [q \in places |-> g[q]]
        OBVIOUS
      <3> HIDE DEF g, places
      <3>3. QED
        BY <3>1, <3>2
    <2> HIDE DEF g, places
    <2>2. \E h : h = [q \in places |-> Body(h, q)]
      BY <2>1
    <2>3. from = [q \in places |-> Body(from, q)]
      BY <2>2, Zenon
    <2> HIDE DEF from
    <2>4. from[p] = Body(from, p)
      BY <2>3
    <2>5. QED
      BY <1>3, <2>4
  <1> HIDE DEF from
  <1> DEFINE wrong == {n \in 0..Len(s) : ~FirstParameter(s, Len(s) + 1 - n, from[Len(s) + 1 - n])}
  <1>8. ASSUME NEW p \in places, percents(p) = {}
        PROVE  FirstParameter(s, p, from[p])
    <2>1. from[p] = NotFound
      BY <1>7, <1>8
    <2>2. \A i \in p..Len(s), j \in 1..Len(s) : ~ParameterAt(s, i, j)
      BY <1>8 DEF percents, ParameterAt
    <2>3. QED
      BY <2>1, <2>2 DEF FirstParameter
  <1>9. ASSUME NEW p \in places, percents(p) # {}, Matches(s, first(p))
        PROVE  FirstParameter(s, p, from[p])
    <2> DEFINE b == first(p)
               e == MatchEnd(s, first(p))
    <2>1. from[p] = Parameter(s, b, e)
      BY <1>7, <1>9
    <2>2. b \in p..Len(s) /\ b \in 1..Len(s) /\ s[b] = "%" /\ \A q \in p..b-1 : s[q] # "%"
      BY <1>4, <1>5, <1>9
    <2>3. ParameterAt(s, b, e) /\ e \in 1..Len(s)
      <3>1. ParameterAt(s, b, e)
        BY <1>9, <2>2, MatchProperties
      <3>2. e <= Len(s) /\ e \in places
        BY <1>5, <1>9 DEF Matches
      <3>3. QED
        BY <1>1, <3>1, <3>2
    <2>4. \A i \in p..b-1, j \in 1..Len(s) : ~ParameterAt(s, i, j)
      BY <2>2 DEF ParameterAt
    <2> HIDE DEF b, e
    <2>5. QED
      BY <2>1, <2>2, <2>3, <2>4 DEF FirstParameter
  <1>10. ASSUME NEW p \in places, percents(p) # {}, ~Matches(s, first(p)),
                FirstParameter(s, MatchEnd(s, first(p)), from[MatchEnd(s, first(p))])
         PROVE  FirstParameter(s, p, from[p])
    <2> DEFINE b == first(p)
               e == MatchEnd(s, first(p))
    <2>1. from[p] = from[e]
      BY <1>7, <1>10
    <2>2. b \in p..Len(s) /\ b \in 1..Len(s) /\ s[b] = "%" /\ \A q \in p..b-1 : s[q] # "%"
      BY <1>4, <1>5, <1>10
    <2>3. /\ e \in b+1..Len(s)+1 /\ \A j \in 1..Len(s) : ~ParameterAt(s, b, j)
          /\ \A q \in b+1..e-1 : q \in 1..Len(s) /\ s[q] \in Digit
      BY <1>10, <2>2, MatchProperties
    <2> HIDE DEF b, e
    <2>4. ASSUME NEW i \in p..e-1, NEW j \in 1..Len(s)
          PROVE  ~ParameterAt(s, i, j)
      <3>1. CASE i < b
        <4>1. i \in p..b-1
          BY <2>2, <3>1
        <4>2. QED
          BY <2>2, <4>1 DEF ParameterAt
      <3>2. CASE i = b
        BY <2>3, <3>2
      <3>3. CASE i > b
        <4>1. i \in b+1..e-1 /\ "%" \notin Digit
          BY <2>2, <2>3, <3>3 DEF Digit
        <4>2. QED
          BY <2>3, <4>1 DEF ParameterAt
      <3>4. QED
        BY <2>2, <3>1, <3>2, <3>3
    <2>5. FirstParameter(s, e, from[e])
      BY <1>10 DEF e
    <2>6. CASE from[e] = NotFound /\ \A i \in e..Len(s), j \in 1..Len(s) : ~ParameterAt(s, i, j)
      <3>1. ASSUME NEW i \in p..Len(s), NEW j \in 1..Len(s)
            PROVE  ~ParameterAt(s, i, j)
        <4>1. i \in p..e-1 \/ i \in e..Len(s)
          BY <1>1, <2>2, <2>3
        <4>2. QED
          BY <2>4, <2>6, <4>1
      <3>2. QED
        BY <2>1, <2>6, <3>1 DEF FirstParameter
    <2>7. ASSUME NEW b1 \in e..Len(s), NEW e1 \in 1..Len(s),
                 /\ from[e] = Parameter(s, b1, e1)
                 /\ ParameterAt(s, b1, e1)
                 /\ \A i \in e..b1-1, j \in 1..Len(s) : ~ParameterAt(s, i, j)
          PROVE  FirstParameter(s, p, from[p])
      <3>1. ASSUME NEW i \in p..b1-1, NEW j \in 1..Len(s)
            PROVE  ~ParameterAt(s, i, j)
        <4>1. i \in p..e-1 \/ i \in e..b1-1
          BY <1>1, <2>2, <2>3
        <4>2. QED
          BY <2>4, <2>7, <4>1
      <3>2. b1 \in p..Len(s)
        BY <1>1, <2>2, <2>3
      <3>3. QED
        BY <2>1, <2>7, <3>1, <3>2 DEF FirstParameter
    <2>8. QED
      BY <2>5, <2>6, <2>7 DEF FirstParameter
  <1>11. wrong = {}
    <2>1. SUFFICES ASSUME wrong # {} PROVE FALSE
      OBVIOUS
    <2>2. wrong \in SUBSET Nat
      BY <1>1
    <2>3. PICK n \in wrong : \A k \in wrong : n <= k
      BY <2>1, <2>2, MinProperties
    <2> DEFINE p == Len(s) + 1 - n
    <2>4. p \in places /\ n \in 0..Len(s) /\ ~FirstParameter(s, p, from[p])
      BY <1>1, <2>3
    <2>5. percents(p) # {} /\ ~Matches(s, first(p))
      BY <1>8, <1>9, <2>4
    <2> DEFINE e == MatchEnd(s, first(p))
               k == Len(s) + 1 - e
    <2>6. e \in places /\ k < n /\ k \in 0..Len(s) /\ Len(s) + 1 - k = e
      <3>1. e \in places /\ k < Len(s) + 1 - p
        BY <1>5, <2>4, <2>5
      <3> HIDE DEF e
      <3>2. QED
        BY <1>1, <2>4, <3>1
    <2>7. k \notin wrong
      BY <2>3, <2>6
    <2>8. FirstParameter(s, e, from[e])
      BY <2>6, <2>7
    <2>9. QED
      BY <1>10, <2>4, <2>5, <2>8
  <1>12. FirstParameter(s, 1, from[1])
    <2>1. Len(s) \in 0..Len(s) /\ Len(s) + 1 - Len(s) = 1
      BY <1>1
    <2>2. QED
      BY <1>11, <2>1
  <1>13. QED
    BY <1>2, <1>12

-----------------------------------------------------------------------------
(* Substitution *)

Zeros(k) == [n \in 1..k |-> "0"]

LEMMA PaddedProperties ==
  ASSUME NEW v \in Nat, NEW width \in Nat
  PROVE  /\ Len(Decimal[v]) >= 1
         /\ Padded(Decimal[v], width) \in Seq(Digit)
         /\ Len(Padded(Decimal[v], width)) >= Len(Decimal[v])
         /\ Len(Padded(Decimal[v], width)) >= width
         /\ width <= Len(Decimal[v]) => Padded(Decimal[v], width) = Zeros(0) \o Decimal[v]
         /\ width <= Len(Decimal[v]) => Len(Padded(Decimal[v], width)) = Len(Decimal[v])
         /\ width >= Len(Decimal[v]) => Padded(Decimal[v], width) = Zeros(width - Len(Decimal[v])) \o Decimal[v]
         /\ width >= Len(Decimal[v]) => Len(Padded(Decimal[v], width)) = width
  <1> DEFINE d == Decimal[v]
  <1>1. d \in Seq(Digit) /\ Len(d) \in Nat
    <2>1. d \in Seq(Digit)
      BY DecimalEquation, Zenon
    <2> HIDE DEF d
    <2>2. QED
      BY <2>1
  <1>2. Len(d) >= 1
    <2>1. v \div 10 \in Nat /\ v % 10 \in 0..9
      OBVIOUS
    <2>2. CASE v < 10
      <3>1. d = <<DigitOf(v)>>
        BY <2>2, DecimalEquation
      <3>2. QED
        BY <3>1
    <2>3. CASE v >= 10
      <3>1. d = Decimal[v \div 10] \o <<DigitOf(v % 10)>>
        BY <2>3, DecimalEquation
      <3>2. Decimal[v \div 10] \in Seq(Digit) /\ <<DigitOf(v % 10)>> \in Seq(Digit)
        <4>1. Decimal[v \div 10] \in Seq(Digit)
          BY <2>1, DecimalEquation, Zenon
        <4>2. DigitOf(v % 10) \in Digit
          BY <2>1, Digits
        <4>3. QED
          BY <4>1, <4>2
      <3>3. Len(d) = Len(Decimal[v \div 10]) + 1 /\ Len(Decimal[v \div 10]) \in Nat
        BY <3>1, <3>2, ConcatProperties
      <3>4. QED
        BY <3>3
    <2>4. QED
      BY <2>2, <2>3
  <1> SUFFICES /\ Len(d) >= 1
               /\ Padded(d, width) \in Seq(Digit)
               /\ Len(Padded(d, width)) >= Len(d)
               /\ Len(Padded(d, width)) >= width
               /\ width <= Len(d) => Padded(d, width) = Zeros(0) \o d
               /\ width <= Len(d) => Len(Padded(d, width)) = Len(d)
               /\ width >= Len(d) => Padded(d, width) = Zeros(width - Len(d)) \o d
               /\ width >= Len(d) => Len(Padded(d, width)) = width
    OBVIOUS
  <1> HIDE DEF d
  <1>3. ASSUME NEW k \in Nat
        PROVE  /\ Zeros(k) \in Seq(Digit) /\ Len(Zeros(k)) = k
               /\ Zeros(k) \o d \in Seq(Digit) /\ Len(Zeros(k) \o d) = k + Len(d)
    <2>1. Zeros(k) \in Seq(Digit) /\ Len(Zeros(k)) = k
      BY DEF Zeros, Digit
    <2>2. QED
      BY <1>1, <2>1, ConcatProperties
  <1>4. Padded(d, width) = Zeros(width - Len(d)) \o d
    BY DEF Padded, Zeros
  <1>5. CASE width <= Len(d)
    <2>1. 1..(width - Len(d)) = 1..0
      BY <1>1, <1>5
    <2>2. Zeros(width - Len(d)) = Zeros(0)
      BY <2>1 DEF Zeros
    <2>3. Padded(d, width) = Zeros(0) \o d
      BY <1>4, <2>2
    <2>4. Padded(d, width) \in Seq(Digit) /\ Len(Padded(d, width)) = Len(d)
      BY <1>1, <1>3, <2>3
    <2>5. width = Len(d) => width - Len(d) = 0 /\ Len(d) = width
      BY <1>1
    <2>6. width >= Len(d) => Len(d) = width
      BY <1>1, <1>5
    <2>7. Len(d) >= Len(d) /\ Len(d) >= width
      BY <1>1, <1>5
    <2>8. QED
      BY <1>2, <1>4, <2>3, <2>4, <2>6, <2>7, SMTT(60)
  <1>6. CASE width > Len(d)
    <2>1. width - Len(d) \in Nat /\ (width - Len(d)) + Len(d) = width
      BY <1>1, <1>6
    <2>2. Padded(d, width) \in Seq(Digit) /\ Len(Padded(d, width)) = width
      BY <1>3, <1>4, <2>1
    <2>3. QED
      BY <1>1, <1>2, <1>4, <1>6, <2>2
  <1>7. QED
    BY <1>1, <1>5, <1>6

\* A part of the rest of a text is a part of the text.
LEMMA PartOfRest ==
  ASSUME NEW T, NEW s \in Seq(T), NEW p \in 1..Len(s) + 1,
         NEW i \in 1..Len(s) - p + 2, NEW j \in i-1..Len(s) - p + 1
  PROVE  SubSeq(SubSeq(s, p, Len(s)), i, j) = SubSeq(s, p + i - 1, p + j - 1)
  <1> DEFINE text == SubSeq(s, p, Len(s))
             part == SubSeq(text, i, j)
             whole == SubSeq(s, p + i - 1, p + j - 1)
  <1>1. Len(s) \in Nat /\ i \in Int /\ j \in Int /\ p \in Int
    OBVIOUS
  <1>2. text \in Seq(T) /\ Len(text) = Len(s) - p + 1 /\ \A n \in 1..Len(text) : text[n] = s[p + n - 1]
    BY <1>1, SubSeqProperties
  <1> HIDE DEF text
  <1>3. \A n \in i..j : n \in 1..Len(text) /\ text[n] \in T
    BY <1>1, <1>2
  <1>4. part \in Seq(T) /\ Len(part) = j - i + 1 /\ \A n \in 1..j-i+1 : part[n] = text[i + n - 1]
    BY <1>1, <1>3, SubSeqProperties
  <1>5. \A n \in p+i-1..p+j-1 : s[n] \in T
    BY <1>1
  <1>6. whole \in Seq(T) /\ Len(whole) = j - i + 1
        /\ \A n \in 1..j-i+1 : whole[n] = s[p + i - 1 + n - 1]
    <2>1. p + i - 1 \in Int /\ p + j - 1 \in Int
          /\ (p + j - 1) - (p + i - 1) + 1 = j - i + 1 /\ j - i + 1 >= 0
      BY <1>1
    <2>2. QED
      BY <1>5, <2>1, SubSeqProperties
  <1> HIDE DEF part, whole
  <1>7. ASSUME NEW n \in 1..j-i+1
        PROVE  part[n] = whole[n]
    <2>1. i + n - 1 \in 1..Len(text) /\ p + (i + n - 1) - 1 = p + i - 1 + n - 1
      BY <1>1, <1>2
    <2>2. QED
      BY <1>2, <1>4, <1>6, <2>1
  <1>8. part = whole
    BY <1>4, <1>6, <1>7, SeqEqual
  <1>9. QED
    BY <1>8 DEF part, whole, text

\* The first parameter of the rest of a text, from position p on.
FirstOfRest(s, p, b, e) ==
  /\ b < e /\ ParameterAt(s, b, e)
  /\ \A i \in p..b-1, j \in 1..Len(s) : ~ParameterAt(s, i, j)
  /\ SubSeq(s, b + 1, e - 1) \in Seq(Digit)

NoneInRest(s, p) == \A i \in p..Len(s), j \in 1..Len(s) : ~ParameterAt(s, i, j)

FoundInRest(s, p, found) ==
  \/ found = NotFound /\ NoneInRest(s, p)
  \/ \E b \in p..Len(s), e \in 1..Len(s) :
       /\ FirstOfRest(s, p, b, e)
       /\ found = [begin |-> b - p + 1, end |-> e - p + 2,
                   width |-> Number(SubSeq(s, b + 1, e - 1))]

LEMMA FindInRest ==
  ASSUME NEW T, NEW s \in Seq(T), NEW p \in 1..Len(s) + 1
  PROVE  FoundInRest(s, p, find_parameter(SubSeq(s, p, Len(s))))
  <1> DEFINE text == SubSeq(s, p, Len(s))
             found == find_parameter(text)
  <1>1. Len(s) \in Nat /\ p \in Nat
    OBVIOUS
  <1>2. text \in Seq(T) /\ Len(text) = Len(s) - p + 1 /\ \A n \in 1..Len(text) : text[n] = s[p + n - 1]
    BY <1>1, SubSeqProperties
  <1> SUFFICES FoundInRest(s, p, found)
    OBVIOUS
  <1>3. ASSUME NEW i \in 1..Len(text), NEW j \in 1..Len(text)
        PROVE  ParameterAt(text, i, j) <=> ParameterAt(s, p + i - 1, p + j - 1)
    <2>1. i \in Int /\ j \in Int /\ text[i] = s[p + i - 1] /\ text[j] = s[p + j - 1]
      BY <1>1, <1>2
    <2>2. i < j => text[i + 1] = s[p + i - 1 + 1]
      <3>1. i < j => i + 1 \in 1..Len(text) /\ p + (i + 1) - 1 = p + i - 1 + 1
        BY <1>1, <1>2
      <3>2. QED
        BY <1>2, <3>1
    <2>3. ASSUME i < j, \A n \in i+1..j-1 : text[n] \in Digit,
                 NEW n \in (p + i - 1)+1..(p + j - 1)-1
          PROVE  s[n] \in Digit
      <3>1. n - p + 1 \in i+1..j-1 /\ n - p + 1 \in 1..Len(text) /\ p + (n - p + 1) - 1 = n
        BY <1>1, <1>2
      <3>2. text[n - p + 1] = s[p + (n - p + 1) - 1]
        BY <1>2, <3>1
      <3>3. QED
        BY <2>3, <3>1, <3>2
    <2>4. ASSUME i < j, \A n \in (p + i - 1)+1..(p + j - 1)-1 : s[n] \in Digit,
                 NEW n \in i+1..j-1
          PROVE  text[n] \in Digit
      <3>1. p + n - 1 \in (p + i - 1)+1..(p + j - 1)-1 /\ n \in 1..Len(text)
        BY <1>1, <1>2
      <3>2. QED
        BY <1>2, <2>4, <3>1
    <2>5. (i < j <=> p + i - 1 < p + j - 1) /\ (j = i + 1 <=> p + j - 1 = p + i - 1 + 1)
      BY <1>1, <2>1
    <2>6. CASE i < j
      <3>1. (\A n \in i+1..j-1 : text[n] \in Digit) <=>
            (\A n \in (p + i - 1)+1..(p + j - 1)-1 : s[n] \in Digit)
        BY <2>3, <2>4, <2>6
      <3>2. QED
        BY <2>1, <2>2, <2>5, <2>6, <3>1 DEF ParameterAt
    <2>7. CASE ~(i < j)
      BY <2>5, <2>7 DEF ParameterAt
    <2>8. QED
      BY <2>6, <2>7
  <1>4. FirstParameter(text, 1, found)
    <2> HIDE DEF text
    <2>1. QED
      BY <1>2, FindParameter
  <1>9. ASSUME NEW i \in 1..Len(s) - p + 2, NEW j \in i-1..Len(s) - p + 1
        PROVE  SubSeq(text, i, j) = SubSeq(s, p + i - 1, p + j - 1)
    BY PartOfRest
  <1> HIDE DEF text, found
  <1>5. CASE found = NotFound /\ \A i \in 1..Len(text), j \in 1..Len(text) : ~ParameterAt(text, i, j)
    <2>1. ASSUME NEW i \in p..Len(s), NEW j \in 1..Len(s), ParameterAt(s, i, j)
          PROVE  FALSE
      <3>1. i < j /\ i \in Int /\ j \in Int
        BY <1>1, <2>1 DEF ParameterAt
      <3>2. i - p + 1 \in 1..Len(text) /\ j - p + 1 \in 1..Len(text)
            /\ p + (i - p + 1) - 1 = i /\ p + (j - p + 1) - 1 = j
        BY <1>1, <1>2, <3>1
      <3>3. ParameterAt(text, i - p + 1, j - p + 1)
        BY <1>3, <2>1, <3>2
      <3>4. QED
        BY <1>5, <3>2, <3>3
    <2>2. QED
      BY <1>5, <2>1 DEF NoneInRest, FoundInRest
  <1>6. ASSUME NEW b \in 1..Len(text), NEW e \in 1..Len(text),
               /\ found = Parameter(text, b, e)
               /\ ParameterAt(text, b, e)
               /\ \A i \in 1..b-1, j \in 1..Len(text) : ~ParameterAt(text, i, j)
        PROVE  \E c \in p..Len(s), d \in 1..Len(s) :
                 /\ FirstOfRest(s, p, c, d)
                 /\ found = [begin |-> c - p + 1, end |-> d - p + 2,
                             width |-> Number(SubSeq(s, c + 1, d - 1))]
    <2> DEFINE c == p + b - 1
               d == p + e - 1
    <2>1. b \in Int /\ e \in Int /\ b < e
      BY <1>6 DEF ParameterAt
    <2>2. c \in p..Len(s) /\ c \in 1..Len(s) /\ d \in c+1..Len(s) /\ d \in 1..Len(s)
          /\ b = c - p + 1 /\ e + 1 = d - p + 2
      BY <1>1, <1>2, <2>1
    <2>3. ParameterAt(s, c, d)
      BY <1>3, <1>6
    <2>4. SubSeq(text, b + 1, e - 1) = SubSeq(s, c + 1, d - 1)
      <3>1. b + 1 \in 1..Len(s) - p + 2 /\ e - 1 \in (b + 1) - 1..Len(s) - p + 1
            /\ p + (b + 1) - 1 = c + 1 /\ p + (e - 1) - 1 = d - 1
        BY <1>1, <1>2, <2>1
      <3>2. SubSeq(text, b + 1, e - 1) = SubSeq(s, p + (b + 1) - 1, p + (e - 1) - 1)
        BY <1>9, <3>1
      <3>3. QED
        BY <3>1, <3>2
    <2> HIDE DEF c, d
    <2>5. SubSeq(s, c + 1, d - 1) \in Seq(Digit)
      <3>1. s[c] = "%"
        BY <2>3 DEF ParameterAt
      <3>2. d = MatchEnd(s, c) /\ Matches(s, c)
        BY <2>2, <2>3, <3>1, MatchProperties
      <3>3. QED
        BY <2>2, <3>1, <3>2, MatchProperties
    <2>6. ASSUME NEW i \in p..c-1, NEW j \in 1..Len(s), ParameterAt(s, i, j)
          PROVE  FALSE
      <3>1. i < j /\ i \in Int /\ j \in Int
        BY <1>1, <2>6 DEF ParameterAt
      <3>2. i - p + 1 \in 1..b-1 /\ i - p + 1 \in 1..Len(text) /\ j - p + 1 \in 1..Len(text)
            /\ p + (i - p + 1) - 1 = i /\ p + (j - p + 1) - 1 = j
        <4>1. /\ p <= i /\ i < c /\ j <= Len(s) /\ c \in Int /\ c <= Len(s) /\ b = c - p + 1
              /\ Len(text) = Len(s) - p + 1 /\ Len(s) \in Int /\ p \in Int
          BY <1>1, <1>2, <2>2
        <4>2. QED
          BY <2>1, <3>1, <4>1
      <3>3. ParameterAt(text, i - p + 1, j - p + 1)
        BY <1>3, <2>6, <3>2
      <3>4. QED
        BY <1>6, <3>2, <3>3
    <2>7. FirstOfRest(s, p, c, d)
      BY <2>2, <2>3, <2>5, <2>6 DEF FirstOfRest
    <2>8. found = [begin |-> c - p + 1, end |-> d - p + 2, width |-> Number(SubSeq(s, c + 1, d - 1))]
      BY <1>6, <2>2, <2>4 DEF Parameter
    <2>9. QED
      BY <2>2, <2>7, <2>8
  <1>7. QED
    BY <1>4, <1>5, <1>6 DEF FirstParameter, FoundInRest

\* What substitute_parameter() makes of the rest of a text.
SubstitutedRest(s, v, p, f) ==
  \/ /\ v < 0 \/ NoneInRest(s, p)
     /\ f[p] = SubSeq(s, p, Len(s))
  \/ /\ v >= 0
     /\ \E b \in p..Len(s), e \in 1..Len(s) :
          /\ FirstOfRest(s, p, b, e)
          /\ f[p] = SubSeq(s, p, b - 1) \o
                    Padded(Decimal[v], Number(SubSeq(s, b + 1, e - 1))) \o f[e + 1]

LEMMA Substitution ==
  ASSUME NEW T, NEW s \in Seq(T), NEW v \in Int
  PROVE  \E f : /\ f \in [1..Len(s)+1 -> Seq(T \cup Digit)]
                /\ substitute_parameter(s, v) = f[1]
                /\ \A p \in 1..Len(s)+1 : SubstitutedRest(s, v, p, f)
  <1> DEFINE places == 1..Len(s) + 1
             text(p) == SubSeq(s, p, Len(s))
             found(p) == find_parameter(text(p))
             Body(f, p) ==
               LET t == SubSeq(s, p, Len(s))
                   parameter == find_parameter(t)
               IN  IF v >= 0 /\ parameter # NotFound
                   THEN SubSeq(t, 1, parameter.begin - 1) \o Padded(Decimal[v], parameter.width) \o
                        f[p + parameter.end - 1]
                   ELSE t
             substituted == CHOOSE f : f = [p \in places |-> Body(f, p)]
             More(p) == v >= 0 /\ found(p) # NotFound
             before(p) == SubSeq(text(p), 1, found(p).begin - 1) \o Padded(Decimal[v], found(p).width)
             after(p) == p + found(p).end - 1
             texts == Seq(T \cup Digit)
             stops == {p \in places : ~More(p)}
             rank == [p \in places |-> Len(s) + 1 - p]
             next == [p \in places |-> IF p \in stops THEN p ELSE after(p)]
             init == [p \in places |-> text(p)]
             step == [x \in places \X texts |-> IF More(x[1]) THEN before(x[1]) \o x[2] ELSE x[2]]
  <1>1. Len(s) \in Nat
    OBVIOUS
  <1>2. substitute_parameter(s, v) = substituted[1]
    BY DEF substitute_parameter
  <1>3. ASSUME NEW f, NEW p
        PROVE  Body(f, p) = IF More(p) THEN before(p) \o f[after(p)] ELSE text(p)
    OBVIOUS
  <1>4. ASSUME NEW p \in places
        PROVE  text(p) \in Seq(T) /\ text(p) \in texts
    <2>1. text(p) \in Seq(T)
      BY <1>1, SubSeqProperties
    <2> HIDE DEF text
    <2>2. QED
      BY <2>1, SeqMonotonic
  <1>5. ASSUME NEW p \in places, More(p)
        PROVE  \E b \in p..Len(s), e \in 1..Len(s) :
                 /\ FirstOfRest(s, p, b, e) /\ after(p) = e + 1
                 /\ before(p) = SubSeq(s, p, b - 1) \o
                                Padded(Decimal[v], Number(SubSeq(s, b + 1, e - 1)))
                 /\ before(p) \in texts
    <2>1. PICK b \in p..Len(s), e \in 1..Len(s) :
            /\ FirstOfRest(s, p, b, e)
            /\ found(p) = [begin |-> b - p + 1, end |-> e - p + 2,
                           width |-> Number(SubSeq(s, b + 1, e - 1))]
      <3>1. FoundInRest(s, p, found(p))
        BY FindInRest
      <3> HIDE DEF found
      <3>2. QED
        BY <1>5, <3>1 DEF FoundInRest
    <2> HIDE DEF text, found
    <2>2. /\ found(p).begin = b - p + 1 /\ found(p).end = e - p + 2
          /\ found(p).width = Number(SubSeq(s, b + 1, e - 1))
      BY <2>1
    <2>3. after(p) = e + 1
      BY <1>1, <2>2
    <2>4. SubSeq(text(p), 1, found(p).begin - 1) = SubSeq(s, p, b - 1)
      <3>1. 1 \in 1..Len(s) - p + 2 /\ b - p \in 1-1..Len(s) - p + 1
            /\ p + 1 - 1 = p /\ p + (b - p) - 1 = b - 1 /\ (b - p + 1) - 1 = b - p
        BY <1>1
      <3>2. SubSeq(SubSeq(s, p, Len(s)), 1, b - p) = SubSeq(s, p + 1 - 1, p + (b - p) - 1)
        BY <3>1, PartOfRest
      <3>3. QED
        BY <2>2, <3>1, <3>2 DEF text
    <2>5. SubSeq(s, p, b - 1) \in texts
      <3>1. SubSeq(s, p, b - 1) \in Seq(T)
        BY <1>1, SubSeqProperties
      <3>2. QED
        BY <3>1, SeqMonotonic
    <2>6. Padded(Decimal[v], Number(SubSeq(s, b + 1, e - 1))) \in texts
      <3>1. Number(SubSeq(s, b + 1, e - 1)) \in Nat /\ v \in Nat
        <4>1. SubSeq(s, b + 1, e - 1) \in Seq(Digit)
          BY <2>1 DEF FirstOfRest
        <4>2. v \in Nat
          BY <1>5
        <4>3. QED
          BY <4>1, <4>2, NumberType
      <3>2. Padded(Decimal[v], Number(SubSeq(s, b + 1, e - 1))) \in Seq(Digit)
        BY <3>1, PaddedProperties
      <3>3. QED
        BY <3>2, SeqMonotonic
    <2>7. before(p) = SubSeq(s, p, b - 1) \o Padded(Decimal[v], Number(SubSeq(s, b + 1, e - 1)))
      BY <2>2, <2>4
    <2>8. before(p) \in texts
      BY <2>5, <2>6, <2>7, ConcatProperties
    <2>9. QED
      BY <2>1, <2>3, <2>7, <2>8
  <1>6. ASSUME NEW p \in places, ~More(p)
        PROVE  v < 0 \/ NoneInRest(s, p)
    <2>1. SUFFICES ASSUME found(p) = NotFound PROVE NoneInRest(s, p)
      BY <1>6
    <2>2. ASSUME NEW b \in p..Len(s), NEW e \in 1..Len(s),
                 found(p) = [begin |-> b - p + 1, end |-> e - p + 2,
                             width |-> Number(SubSeq(s, b + 1, e - 1))]
          PROVE  FALSE
      <3>1. NotFound.begin = 0
        BY DEF NotFound
      <3> HIDE DEF found
      <3>2. found(p).begin = b - p + 1
        BY <2>2
      <3>3. QED
        BY <1>1, <2>1, <3>1, <3>2
    <2>3. QED
      <3>1. FoundInRest(s, p, found(p))
        BY FindInRest
      <3> HIDE DEF found
      <3>2. QED
        BY <2>1, <2>2, <3>1 DEF FoundInRest
  <1> HIDE DEF More, before, after, text, found, Body
  <1>7. PICK f : /\ f \in [places -> texts]
                 /\ \A p \in places : f[p] = IF More(p) THEN before(p) \o f[after(p)] ELSE text(p)
    <2>1. ASSUME NEW p \in places, More(p)
          PROVE  after(p) \in places /\ Len(s) + 1 - after(p) < Len(s) + 1 - p /\ before(p) \in texts
      <3>1. PICK b \in p..Len(s), e \in 1..Len(s) : b < e /\ after(p) = e + 1 /\ before(p) \in texts
        BY <1>5, <2>1 DEF FirstOfRest
      <3>2. QED
        BY <1>1, <3>1
    <2>2. stops \in SUBSET places /\ rank \in [places -> Nat] /\ init \in [places -> texts]
      BY <1>1, <1>4
    <2>3. next \in [places -> places] /\ \A p \in places \ stops : rank[next[p]] < rank[p]
      BY <2>1
    <2>4. step \in [places \X texts -> texts]
      <3>1. ASSUME NEW p \in places, NEW t \in texts, More(p)
            PROVE  before(p) \o t \in texts
        BY <2>1, <3>1, ConcatProperties
      <3> HIDE DEF texts
      <3>2. QED
        BY <3>1
    <2>5. PICK f : /\ f \in [places -> texts]
                   /\ \A p \in places : f[p] = IF p \in stops THEN init[p]
                                               ELSE step[<<p, f[next[p]]>>]
      <3> HIDE DEF places, texts, stops, rank, next, init, step
      <3>1. Terminates(places, texts, stops, rank, next, init, step)
        BY <2>2, <2>3, <2>4 DEF Terminates
      <3>2. QED
        BY <3>1, Recursion DEF Computes
    <2>6. ASSUME NEW p \in places
          PROVE  f[p] = IF More(p) THEN before(p) \o f[after(p)] ELSE text(p)
      <3>1. CASE ~More(p)
        BY <2>5, <3>1
      <3>2. CASE More(p)
        <4>1. next[p] = after(p) /\ after(p) \in places /\ p \notin stops
          BY <2>1, <3>2
        <4>2. f[p] = step[<<p, f[after(p)]>>] /\ f[after(p)] \in texts
          BY <2>5, <4>1
        <4>3. step[<<p, f[after(p)]>>] = before(p) \o f[after(p)]
          BY <3>2, <4>2
        <4>4. QED
          BY <3>2, <4>2, <4>3
      <3>3. QED
        BY <3>1, <3>2
    <2>7. QED
      BY <2>5, <2>6
  <1>8. f = [p \in places |-> Body(f, p)]
    <2>1. \A p \in places : f[p] = Body(f, p)
      BY <1>3, <1>7
    <2> HIDE DEF places
    <2>2. QED
      BY <1>7, <2>1
  <1>9. substituted = [p \in places |-> Body(substituted, p)]
    <2> HIDE DEF places
    <2>1. \E g : g = [p \in places |-> Body(g, p)]
      BY <1>8
    <2>2. QED
      BY <2>1, Zenon
  <1> HIDE DEF substituted
  <1>10. ASSUME NEW p \in places
         PROVE  substituted[p] = IF More(p) THEN before(p) \o substituted[after(p)] ELSE text(p)
    <2>1. substituted[p] = Body(substituted, p)
      BY <1>9
    <2>2. QED
      BY <1>3, <2>1
  <1> DEFINE wrong == {n \in 0..Len(s) : substituted[Len(s) + 1 - n] \notin texts}
  <1>11. wrong = {}
    <2>1. SUFFICES ASSUME wrong # {} PROVE FALSE
      OBVIOUS
    <2>2. wrong \in SUBSET Nat
      BY <1>1
    <2>3. PICK n \in wrong : \A k \in wrong : n <= k
      BY <2>1, <2>2, MinProperties
    <2> DEFINE p == Len(s) + 1 - n
    <2>4. p \in places /\ n \in 0..Len(s) /\ substituted[p] \notin texts
      BY <1>1, <2>3
    <2>5. CASE ~More(p)
      BY <1>4, <1>10, <2>4, <2>5
    <2>6. CASE More(p)
      <3> HIDE DEF p
      <3>1. PICK b \in p..Len(s), e \in 1..Len(s) : b < e /\ after(p) = e + 1 /\ before(p) \in texts
        BY <1>5, <2>4, <2>6 DEF FirstOfRest
      <3> DEFINE k == Len(s) - e
      <3>2. k \in 0..Len(s) /\ k < n /\ Len(s) + 1 - k = after(p)
        BY <1>1, <2>4, <3>1 DEF p
      <3>3. substituted[after(p)] \in texts
        BY <2>3, <3>2
      <3>4. before(p) \o substituted[after(p)] \in texts
        BY <3>1, <3>3, ConcatProperties
      <3>5. QED
        BY <1>10, <2>4, <2>6, <3>4
    <2>7. QED
      BY <2>5, <2>6
  <1>12. substituted \in [places -> texts]
    <2>1. ASSUME NEW p \in places
          PROVE  substituted[p] \in texts
      <3>1. Len(s) + 1 - p \in 0..Len(s) /\ Len(s) + 1 - (Len(s) + 1 - p) = p
        BY <1>1
      <3>2. QED
        BY <1>11, <3>1
    <2> HIDE DEF places, texts
    <2>2. QED
      BY <1>9, <2>1
  <1>13. ASSUME NEW p \in places
         PROVE  SubstitutedRest(s, v, p, substituted)
    <2>1. CASE ~More(p)
      <3>1. substituted[p] = SubSeq(s, p, Len(s)) /\ (v < 0 \/ NoneInRest(s, p))
        BY <1>6, <1>10, <2>1 DEF text
      <3>2. QED
        BY <3>1 DEF SubstitutedRest
    <2>2. CASE More(p)
      <3>1. PICK b \in p..Len(s), e \in 1..Len(s) :
              /\ FirstOfRest(s, p, b, e) /\ after(p) = e + 1
              /\ before(p) = SubSeq(s, p, b - 1) \o
                             Padded(Decimal[v], Number(SubSeq(s, b + 1, e - 1)))
        BY <1>5, <2>2
      <3>2. substituted[p] = SubSeq(s, p, b - 1) \o
                             Padded(Decimal[v], Number(SubSeq(s, b + 1, e - 1))) \o substituted[e + 1]
        BY <1>10, <2>2, <3>1
      <3>3. v >= 0
        BY <2>2 DEF More
      <3>4. QED
        BY <3>1, <3>2, <3>3 DEF SubstitutedRest
    <2>3. QED
      BY <2>1, <2>2
  <1>14. QED
    BY <1>2, <1>12, <1>13

-----------------------------------------------------------------------------
(* What substitution does to pathnames and names *)

LEMMA LocalPathname ==
  ASSUME NEW T, NEW s \in Seq(T)
  PROVE  is_pathname_local(s) <=>
           /\ Len(s) = 0 \/ s[1] # "/"
           /\ \A n \in 1..Len(s)-1 : ~(s[n] = "." /\ s[n + 1] = ".")
  <1>1. ASSUME NEW n \in 1..Len(s)-1
        PROVE  SubSeq(s, n, n + 1) = <<".", ".">> <=> s[n] = "." /\ s[n + 1] = "."
    <2>1. n \in Int /\ n + 1 \in Int /\ \A i \in n..n+1 : s[i] \in T
      OBVIOUS
    <2>2. /\ SubSeq(s, n, n + 1) \in Seq(T) /\ Len(SubSeq(s, n, n + 1)) = 2
          /\ SubSeq(s, n, n + 1)[1] = s[n] /\ SubSeq(s, n, n + 1)[2] = s[n + 1]
      BY <2>1, SubSeqProperties
    <2> DEFINE t == SubSeq(s, n, n + 1)
               u == <<s[n], s[n + 1]>>
    <2>3. u \in Seq(T) /\ Len(u) = 2 /\ u[1] = s[n] /\ u[2] = s[n + 1]
      BY <2>1
    <2> HIDE DEF t, u
    <2>4. t = u
      <3>1. t \in Seq(T) /\ Len(t) = 2 /\ t[1] = s[n] /\ t[2] = s[n + 1]
        BY <2>2 DEF t
      <3>2. \A i \in 1..Len(t) : t[i] = u[i]
        BY <2>3, <3>1
      <3>3. QED
        BY <2>3, <3>1, <3>2, SeqEqual
    <2>5. QED
      BY <2>4 DEF t, u
  <1>2. s = <<>> <=> Len(s) = 0
    BY EmptySeq
  <1>3. QED
    BY <1>1, <1>2 DEF is_pathname_local

NoTwoDots(t) == \A n \in 1..Len(t)-1 : ~(t[n] = "." /\ t[n + 1] = ".")

\* No two dots meet where digits are put in.
LEMMA DigitsBetween ==
  ASSUME NEW T, NEW x \in Seq(T), NEW d \in Seq(T), NEW y \in Seq(T), Len(d) >= 1,
         \A n \in 1..Len(d) : d[n] \in Digit, NoTwoDots(x), NoTwoDots(y)
  PROVE  /\ NoTwoDots(x \o d \o y)
         /\ (x \o d \o y)[1] = IF Len(x) = 0 THEN d[1] ELSE x[1]
  <1> DEFINE w == x \o d
             z == x \o d \o y
  <1>1. /\ w \in Seq(T) /\ Len(w) = Len(x) + Len(d)
        /\ \A n \in 1..Len(x)+Len(d) : w[n] = IF n <= Len(x) THEN x[n] ELSE d[n - Len(x)]
    BY ConcatProperties
  <1>2. z = w \o y
    OBVIOUS
  <1> SUFFICES NoTwoDots(z) /\ z[1] = IF Len(x) = 0 THEN d[1] ELSE x[1]
    OBVIOUS
  <1> HIDE DEF w, z
  <1>3. /\ z \in Seq(T) /\ Len(z) = Len(w) + Len(y)
        /\ \A n \in 1..Len(w)+Len(y) : z[n] = IF n <= Len(w) THEN w[n] ELSE y[n - Len(w)]
    <2>1. w \in Seq(T)
      BY <1>1
    <2>2. /\ w \o y \in Seq(T) /\ Len(w \o y) = Len(w) + Len(y)
          /\ \A n \in 1..Len(w)+Len(y) : (w \o y)[n] = IF n <= Len(w) THEN w[n] ELSE y[n - Len(w)]
      BY <2>1, ConcatProperties
    <2>3. QED
      BY <1>2, <2>2, Zenon
  <1>4. Len(x) \in Nat /\ Len(d) \in Nat /\ Len(y) \in Nat /\ Len(w) \in Nat
    BY <1>1
  <1>5. ASSUME NEW n \in 1..Len(z)
        PROVE  z[n] = IF n <= Len(x) THEN x[n]
                      ELSE IF n <= Len(x) + Len(d) THEN d[n - Len(x)]
                      ELSE y[n - (Len(x) + Len(d))]
    BY <1>1, <1>3, <1>4
  <1>6. ASSUME NEW n \in 1..Len(z)-1, z[n] = ".", z[n + 1] = "."
        PROVE  FALSE
    <2>1. "." \notin Digit
      BY DEF Digit
    <2>2. n \in 1..Len(z) /\ n + 1 \in 1..Len(z) /\ Len(z) = Len(x) + Len(d) + Len(y)
      BY <1>1, <1>3, <1>4
    <2>3. CASE n + 1 <= Len(x)
      <3>1. z[n] = x[n] /\ z[n + 1] = x[n + 1] /\ n \in 1..Len(x)-1
        BY <1>4, <1>5, <2>2, <2>3
      <3>2. QED
        BY <1>6, <3>1 DEF NoTwoDots
    <2>4. CASE n = Len(x)
      <3>1. z[n + 1] = d[1] /\ 1 \in 1..Len(d)
        <4>1. ~(n + 1 <= Len(x)) /\ n + 1 <= Len(x) + Len(d) /\ (n + 1) - Len(x) = 1
          BY <1>4, <2>4
        <4>2. z[n + 1] = d[(n + 1) - Len(x)]
          BY <1>5, <2>2, <4>1
        <4>3. QED
          BY <1>4, <4>1, <4>2
      <3>2. QED
        BY <1>6, <2>1, <3>1
    <2>5. CASE Len(x) < n /\ n <= Len(x) + Len(d)
      <3>1. z[n] = d[n - Len(x)] /\ n - Len(x) \in 1..Len(d)
        BY <1>4, <1>5, <2>2, <2>5
      <3>2. QED
        BY <1>6, <2>1, <3>1
    <2>6. CASE n > Len(x) + Len(d)
      <3> DEFINE m == n - (Len(x) + Len(d))
      <3>1. m \in 1..Len(y)-1 /\ (n + 1) - (Len(x) + Len(d)) = m + 1
        BY <1>4, <2>2, <2>6
      <3>2. z[n] = y[m]
        BY <1>4, <1>5, <2>2, <2>6
      <3>3. z[n + 1] = y[(n + 1) - (Len(x) + Len(d))]
        BY <1>4, <1>5, <2>2, <2>6
      <3>4. QED
        BY <1>6, <3>1, <3>2, <3>3 DEF NoTwoDots
    <2>7. QED
      BY <1>4, <2>2, <2>3, <2>4, <2>5, <2>6
  <1>7. z[1] = IF Len(x) = 0 THEN d[1] ELSE x[1]
    <2>1. 1 \in 1..Len(z)
      BY <1>1, <1>3, <1>4
    <2>2. CASE Len(x) = 0
      <3>1. ~(1 <= Len(x)) /\ 1 <= Len(x) + Len(d) /\ 1 - Len(x) = 1
        BY <1>4, <2>2
      <3>2. z[1] = d[1 - Len(x)]
        BY <1>5, <2>1, <3>1
      <3>3. QED
        BY <2>2, <3>1, <3>2
    <2>3. CASE Len(x) # 0
      BY <1>4, <1>5, <2>1, <2>3
    <2>4. QED
      BY <2>2, <2>3
  <1>8. QED
    BY <1>6, <1>7 DEF NoTwoDots

\* A local pathname stays local for every frame.
LEMMA SubstitutedLocal ==
  ASSUME NEW T, NEW s \in Seq(T), is_pathname_local(s), NEW v \in Int
  PROVE  is_pathname_local(substitute_parameter(s, v))
  <1> DEFINE U == T \cup Digit
             places == 1..Len(s)+1
  <1>1. PICK f : /\ f \in [places -> Seq(U)]
                 /\ substitute_parameter(s, v) = f[1]
                 /\ \A p \in places : SubstitutedRest(s, v, p, f)
    BY Substitution
  <1>2. Len(s) \in Nat
    OBVIOUS
  <1>3. (Len(s) = 0 \/ s[1] # "/") /\ NoTwoDots(s)
    BY LocalPathname DEF NoTwoDots
  <1>4. ASSUME NEW p \in places, NEW q \in p-1..Len(s)
        PROVE  /\ SubSeq(s, p, q) \in Seq(U) /\ Len(SubSeq(s, p, q)) = q - p + 1
               /\ NoTwoDots(SubSeq(s, p, q))
               /\ \A n \in 1..q-p+1 : SubSeq(s, p, q)[n] = s[p + n - 1]
    <2> DEFINE t == SubSeq(s, p, q)
    <2>1. p \in Int /\ q \in Int /\ (p <= q \/ q - p + 1 = 0) /\ \A i \in p..q : s[i] \in U
      BY <1>2
    <2>2. t \in Seq(U) /\ Len(t) = q - p + 1 /\ \A n \in 1..q-p+1 : t[n] = s[p + n - 1]
      BY <2>1, SubSeqProperties
    <2> HIDE DEF t
    <2>3. NoTwoDots(t)
      <3>1. ASSUME NEW n \in 1..Len(t)-1
            PROVE  ~(t[n] = "." /\ t[n + 1] = ".")
        <4>1. n \in 1..q-p+1 /\ n + 1 \in 1..q-p+1 /\ p + n - 1 \in 1..Len(s)-1
              /\ p + (n + 1) - 1 = (p + n - 1) + 1
          BY <1>2, <2>1, <2>2
        <4>2. QED
          BY <1>3, <2>2, <4>1 DEF NoTwoDots
      <3>2. QED
        BY <3>1 DEF NoTwoDots
    <2>4. QED
      BY <2>2, <2>3 DEF t
  <1> DEFINE Parts(p, b, e, d) ==
               /\ b \in p..Len(s) /\ e \in 1..Len(s) /\ b < e
               /\ d \in Seq(U) /\ Len(d) >= 1 /\ \A n \in 1..Len(d) : d[n] \in Digit
               /\ f[p] = SubSeq(s, p, b - 1) \o d \o f[e + 1]
  <1>5. ASSUME NEW p \in places
        PROVE  f[p] = SubSeq(s, p, Len(s)) \/ \E b, e, d : Parts(p, b, e, d)
    <2>1. SUFFICES ASSUME v >= 0, NEW b \in p..Len(s), NEW e \in 1..Len(s),
                          FirstOfRest(s, p, b, e),
                          f[p] = SubSeq(s, p, b - 1) \o
                                 Padded(Decimal[v], Number(SubSeq(s, b + 1, e - 1))) \o f[e + 1]
                   PROVE  \E c, d, t : Parts(p, c, d, t)
      BY <1>1 DEF SubstitutedRest
    <2> DEFINE w == Number(SubSeq(s, b + 1, e - 1))
               d == Padded(Decimal[v], w)
    <2>2. b < e /\ SubSeq(s, b + 1, e - 1) \in Seq(Digit)
      BY <2>1 DEF FirstOfRest
    <2>3. w \in Nat /\ v \in Nat
      <3>1. SubSeq(s, b + 1, e - 1) \in Seq(Digit)
        BY <2>2
      <3>2. w \in Nat
        BY <3>1, NumberType
      <3>3. QED
        BY <2>1, <3>2
    <2> HIDE DEF w
    <2>4. d \in Seq(Digit) /\ Len(d) >= 1
      <3>1. /\ d \in Seq(Digit) /\ Len(Decimal[v]) >= 1 /\ Len(d) >= Len(Decimal[v])
        BY <2>3, PaddedProperties
      <3>2. Len(d) \in Nat /\ Len(Decimal[v]) \in Nat
        BY <2>3, <3>1, DecimalEquation, LenProperties
      <3>3. QED
        BY <3>1, <3>2
    <2>5. f[p] = SubSeq(s, p, b - 1) \o d \o f[e + 1]
      BY <2>1 DEF w
    <2> HIDE DEF d
    <2>6. d \in Seq(U) /\ \A n \in 1..Len(d) : d[n] \in Digit
      BY <2>4
    <2>7. Parts(p, b, e, d)
      BY <2>2, <2>4, <2>5, <2>6
    <2>8. QED
      BY <2>7
  <1>6. ASSUME NEW p \in places, NEW b, NEW e, NEW d, Parts(p, b, e, d), NoTwoDots(f[e + 1])
        PROVE  NoTwoDots(f[p]) /\ f[p][1] = IF b = p THEN d[1] ELSE s[p]
    <2> DEFINE x == SubSeq(s, p, b - 1)
               y == f[e + 1]
    <2>1. b - 1 \in p-1..Len(s) /\ e + 1 \in places
      BY <1>2, <1>6
    <2>2. x \in Seq(U) /\ Len(x) = b - p /\ NoTwoDots(x) /\ (b # p => x[1] = s[p])
      <3>1. (b - 1) - p + 1 = b - p /\ (b # p => 1 \in 1..(b - 1) - p + 1) /\ p + 1 - 1 = p
        BY <1>2, <1>6
      <3>2. QED
        BY <1>4, <2>1, <3>1
    <2>3. y \in Seq(U) /\ NoTwoDots(y)
      BY <1>1, <1>6, <2>1
    <2>4. f[p] = x \o d \o y
      BY <1>6
    <2> HIDE DEF x, y
    <2>5. /\ f[p][1] = IF Len(x) = 0 THEN d[1] ELSE x[1]
          /\ NoTwoDots(f[p])
      <3>1. d \in Seq(U) /\ Len(d) >= 1 /\ \A n \in 1..Len(d) : d[n] \in Digit
        BY <1>6
      <3>2. x \in Seq(U) /\ y \in Seq(U) /\ NoTwoDots(x) /\ NoTwoDots(y)
        BY <2>2, <2>3
      <3> HIDE DEF U
      <3>3. NoTwoDots(x \o d \o y) /\ (x \o d \o y)[1] = IF Len(x) = 0 THEN d[1] ELSE x[1]
        BY <3>1, <3>2, DigitsBetween
      <3>4. QED
        BY <2>4, <3>3
    <2>6. b = p <=> Len(x) = 0
      BY <1>2, <1>6, <2>2
    <2>7. QED
      BY <2>2, <2>5, <2>6
  <1>7. ASSUME NEW p \in places, f[p] = SubSeq(s, p, Len(s))
        PROVE  NoTwoDots(f[p])
    BY <1>2, <1>4, <1>7

  <1> DEFINE wrong == {n \in 0..Len(s) : ~NoTwoDots(f[Len(s) + 1 - n])}
  <1>8. wrong = {}
    <2>1. SUFFICES ASSUME wrong # {} PROVE FALSE
      OBVIOUS
    <2>2. wrong \in SUBSET Nat
      BY <1>2
    <2>3. PICK n \in wrong : \A k \in wrong : n <= k
      BY <2>1, <2>2, MinProperties
    <2> DEFINE p == Len(s) + 1 - n
    <2>4. p \in places /\ n \in 0..Len(s) /\ ~NoTwoDots(f[p])
      BY <1>2, <2>3
    <2>5. n = Len(s) + 1 - p
      BY <1>2, <2>4
    <2> HIDE DEF p
    <2>6. PICK b, e, d : Parts(p, b, e, d)
      BY <1>5, <1>7, <2>4
    <2> DEFINE k == Len(s) - e
    <2>7. k \in 0..Len(s) /\ k < n /\ Len(s) + 1 - k = e + 1
      BY <1>2, <2>4, <2>5, <2>6
    <2>8. NoTwoDots(f[e + 1])
      BY <2>3, <2>7
    <2>9. QED
      BY <1>6, <2>4, <2>6, <2>8
  <1>9. ASSUME NEW p \in places
        PROVE  NoTwoDots(f[p])
    <2>1. Len(s) + 1 - p \in 0..Len(s) /\ Len(s) + 1 - (Len(s) + 1 - p) = p
      BY <1>2
    <2>2. QED
      BY <1>8, <2>1
  <1>10. 1 \in places
    BY <1>2
  <1>11. Len(f[1]) = 0 \/ f[1][1] # "/"
    <2>1. CASE f[1] = SubSeq(s, 1, Len(s))
      <3>1. f[1] = s
        BY <2>1, SubSeqFull
      <3>2. QED
        BY <1>3, <3>1
    <2>2. ASSUME NEW b, NEW e, NEW d, Parts(1, b, e, d)
          PROVE  f[1][1] # "/"
      <3>1. e + 1 \in places /\ "/" \notin Digit /\ d[1] \in Digit /\ Len(s) # 0
        BY <1>2, <2>2 DEF Digit
      <3>2. f[1][1] = IF b = 1 THEN d[1] ELSE s[1]
        BY <1>6, <1>9, <1>10, <2>2, <3>1
      <3>3. QED
        BY <1>3, <3>1, <3>2
    <2>3. QED
      BY <1>5, <1>10, <2>1, <2>2
  <1>12. f[1] \in Seq(U) /\ NoTwoDots(f[1])
    BY <1>1, <1>9, <1>10
  <1>13. is_pathname_local(f[1])
    BY <1>11, <1>12, LocalPathname DEF NoTwoDots
  <1>14. QED
    BY <1>1, <1>13

\* A number has at least as many digits as a smaller one, and no two numbers
\* have the same, whatever zeros come before them.
LEMMA DecimalMonotone ==
  \A n \in Nat : \A m \in 0..n : Len(Decimal[m]) <= Len(Decimal[n])
  <1> DEFINE Shorter(m, n) == Len(Decimal[m]) <= Len(Decimal[n])
             wrong == {n \in Nat : \E m \in 0..n : ~Shorter(m, n)}
  <1>1. \A n \in Nat : Len(Decimal[n]) \in Nat /\ Len(Decimal[n]) >= 1
    <2>1. ASSUME NEW n \in Nat
          PROVE  Len(Decimal[n]) \in Nat /\ Len(Decimal[n]) >= 1
      <3>1. Decimal[n] \in Seq(Digit)
        BY DecimalEquation, Zenon
      <3>2. Len(Decimal[n]) >= 1
        BY PaddedProperties
      <3>3. QED
        BY <3>1, <3>2, LenProperties
    <2>2. QED
      BY <2>1
  <1>2. ASSUME NEW n \in Nat, n >= 10
        PROVE  n \div 10 \in Nat /\ n \div 10 < n /\ Len(Decimal[n]) = Len(Decimal[n \div 10]) + 1
    <2>1. n \div 10 \in Nat /\ n \div 10 < n /\ n % 10 \in 0..9
      BY <1>2
    <2>2. Decimal[n] = Decimal[n \div 10] \o <<DigitOf(n % 10)>>
      BY <1>2, DecimalEquation
    <2>3. Decimal[n \div 10] \in Seq(Digit)
      BY <2>1, DecimalEquation, Zenon
    <2>4. DigitOf(n % 10) \in Digit
      BY <2>1, Digits
    <2>5. <<DigitOf(n % 10)>> \in Seq(Digit) /\ Len(<<DigitOf(n % 10)>>) = 1
      BY <2>4
    <2>6. Len(Decimal[n]) = Len(Decimal[n \div 10]) + 1
      BY <2>2, <2>3, <2>5, ConcatProperties
    <2>7. QED
      BY <2>1, <2>6
  <1>3. wrong = {}
    <2>1. SUFFICES ASSUME wrong # {} PROVE FALSE
      OBVIOUS
    <2>2. wrong \in SUBSET Nat
      OBVIOUS
    <2>3. PICK n \in wrong : \A k \in wrong : n <= k
      BY <2>1, <2>2, MinProperties
    <2>4. PICK m \in 0..n : ~Shorter(m, n)
      BY <2>3
    <2>5. n \in Nat /\ m \in Nat /\ m <= n
      BY <2>3
    <2>6. m >= 10
      <3>1. SUFFICES ASSUME m < 10 PROVE FALSE
        BY <2>5
      <3>2. Decimal[m] = <<DigitOf(m)>>
        BY <2>5, <3>1, DecimalEquation
      <3>3. Len(Decimal[m]) = 1
        BY <3>2
      <3>4. QED
        BY <1>1, <2>4, <2>5, <3>3
    <2>7. n >= 10 /\ m \div 10 \in 0..(n \div 10)
      <3>1. n >= 10 /\ m \div 10 \in Nat /\ n \div 10 \in Nat /\ m \div 10 <= n \div 10
        BY <2>5, <2>6
      <3>2. QED
        BY <3>1
    <2>8. n \div 10 \notin wrong /\ n \div 10 \in Nat
      BY <1>2, <2>3, <2>5, <2>7
    <2>9. Shorter(m \div 10, n \div 10)
      BY <2>7, <2>8
    <2>10. /\ Len(Decimal[m]) = Len(Decimal[m \div 10]) + 1
           /\ Len(Decimal[n]) = Len(Decimal[n \div 10]) + 1
           /\ m \div 10 \in Nat /\ n \div 10 \in Nat
      BY <1>2, <2>5, <2>6, <2>7
    <2>11. QED
      BY <1>1, <2>4, <2>9, <2>10
  <1>4. QED
    BY <1>3

\* The digits of a number after k zeros; the last one and those before it.
ZeroFilled(k, n) == Zeros(k) \o Decimal[n]

LEMMA LastDigit ==
  ASSUME NEW n \in Nat, NEW k \in Nat
  PROVE  /\ ZeroFilled(k, n) \in Seq(Digit)
         /\ Len(ZeroFilled(k, n)) = k + Len(Decimal[n]) /\ Len(ZeroFilled(k, n)) >= 1
         /\ ZeroFilled(k, n)[Len(ZeroFilled(k, n))] = DigitOf(n % 10)
         /\ n < 10 => Len(ZeroFilled(k, n)) = k + 1 /\ \A i \in 1..k : ZeroFilled(k, n)[i] = "0"
         /\ n >= 10 => /\ Len(ZeroFilled(k, n \div 10)) = Len(ZeroFilled(k, n)) - 1
                       /\ \A i \in 1..Len(ZeroFilled(k, n))-1 :
                            ZeroFilled(k, n)[i] = ZeroFilled(k, n \div 10)[i]
  <1> DEFINE z == Zeros(k)
             d == Decimal[n]
             front == Decimal[n \div 10]
             last == <<DigitOf(n % 10)>>
             t == ZeroFilled(k, n)
             y == ZeroFilled(k, n \div 10)
  <1>1. n % 10 \in 0..9 /\ n \div 10 \in Nat /\ (n < 10 => n % 10 = n)
    OBVIOUS
  <1>2. z \in Seq(Digit) /\ Len(z) = k /\ \A i \in 1..k : z[i] = "0"
    BY DEF Zeros, Digit
  <1>3. d \in Seq(Digit) /\ Len(d) >= 1 /\ front \in Seq(Digit)
    <2>1. d \in Seq(Digit) /\ front \in Seq(Digit)
      BY <1>1, DecimalEquation, Zenon
    <2>2. Len(d) >= 1
      BY PaddedProperties
    <2>3. QED
      BY <2>1, <2>2
  <1>4. last \in Seq(Digit) /\ Len(last) = 1 /\ last[1] = DigitOf(n % 10)
    <2>1. DigitOf(n % 10) \in Digit
      BY <1>1, Digits
    <2>2. QED
      BY <2>1
  <1>5. (n < 10 => d = last) /\ (n >= 10 => d = front \o last)
    BY <1>1, DecimalEquation
  <1>6. t = z \o d /\ y = z \o front
    BY DEF ZeroFilled
  <1> SUFFICES /\ t \in Seq(Digit) /\ Len(t) = k + Len(d) /\ Len(t) >= 1
               /\ t[Len(t)] = DigitOf(n % 10)
               /\ n < 10 => Len(t) = k + 1 /\ \A i \in 1..k : t[i] = "0"
               /\ n >= 10 => Len(y) = Len(t) - 1 /\ \A i \in 1..Len(t)-1 : t[i] = y[i]
    OBVIOUS
  <1> HIDE DEF z, d, last, front, t, y
  <1>7. /\ t \in Seq(Digit) /\ Len(t) = k + Len(d)
        /\ \A i \in 1..k+Len(d) : t[i] = IF i <= k THEN z[i] ELSE d[i - k]
    <2>1. z \in Seq(Digit) /\ d \in Seq(Digit)
      BY <1>2, <1>3
    <2>2. /\ z \o d \in Seq(Digit) /\ Len(z \o d) = Len(z) + Len(d)
          /\ \A i \in 1..Len(z)+Len(d) : (z \o d)[i] = IF i <= Len(z) THEN z[i] ELSE d[i - Len(z)]
      BY <2>1, ConcatProperties
    <2>3. Len(z) = k
      BY <1>2
    <2>4. QED
      BY <1>6, <2>2, <2>3, Zenon
  <1>8. CASE n < 10
    <2>1. Len(d) = 1 /\ d[1] = DigitOf(n % 10)
      BY <1>4, <1>5, <1>8
    <2>2. Len(t) = k + 1 /\ t[k + 1] = DigitOf(n % 10) /\ \A i \in 1..k : t[i] = "0"
      <3>1. /\ k + 1 \in 1..k+Len(d) /\ ~(k + 1 <= k) /\ (k + 1) - k = 1
            /\ \A i \in 1..k : i \in 1..k+Len(d) /\ i <= k
        BY <2>1
      <3>2. t[k + 1] = d[1] /\ Len(t) = k + 1
        BY <1>7, <2>1, <3>1
      <3>3. \A i \in 1..k : t[i] = z[i]
        BY <1>7, <3>1
      <3>4. QED
        BY <1>2, <2>1, <3>2, <3>3
    <2>3. QED
      BY <1>3, <1>7, <1>8, <2>2
  <1>9. CASE n >= 10
    <2>1. d = front \o last
      BY <1>5, <1>9
    <2>2. /\ Len(d) = Len(front) + 1 /\ Len(front) \in Nat
          /\ \A i \in 1..Len(front)+1 : d[i] = IF i <= Len(front) THEN front[i] ELSE last[i - Len(front)]
      <3>1. front \in Seq(Digit) /\ last \in Seq(Digit) /\ Len(last) = 1
        BY <1>3, <1>4
      <3>2. /\ Len(front \o last) = Len(front) + Len(last)
            /\ \A i \in 1..Len(front)+Len(last) :
                 (front \o last)[i] = IF i <= Len(front) THEN front[i] ELSE last[i - Len(front)]
        BY <3>1, ConcatProperties
      <3>3. Len(front) \in Nat
        BY <3>1
      <3>4. QED
        BY <2>1, <3>1, <3>2, <3>3, Zenon
    <2>3. /\ Len(y) = k + Len(front)
          /\ \A i \in 1..k+Len(front) : y[i] = IF i <= k THEN z[i] ELSE front[i - k]
      <3>1. z \in Seq(Digit) /\ front \in Seq(Digit) /\ Len(z) = k
        BY <1>2, <1>3
      <3>2. /\ Len(z \o front) = Len(z) + Len(front)
            /\ \A i \in 1..Len(z)+Len(front) :
                 (z \o front)[i] = IF i <= Len(z) THEN z[i] ELSE front[i - Len(z)]
        BY <3>1, ConcatProperties
      <3>3. QED
        BY <1>6, <3>1, <3>2, Zenon
    <2>4. Len(t) = k + Len(front) + 1
      BY <1>7, <2>2
    <2>5. t[Len(t)] = DigitOf(n % 10)
      <3>1. /\ Len(t) \in 1..k+Len(d) /\ ~(Len(t) <= k) /\ Len(t) - k = Len(front) + 1
            /\ Len(front) + 1 \in 1..Len(front)+1 /\ (Len(front) + 1) - Len(front) = 1
            /\ ~(Len(front) + 1 <= Len(front))
        BY <2>2, <2>4
      <3>2. t[Len(t)] = d[Len(front) + 1]
        BY <1>7, <3>1
      <3>3. d[Len(front) + 1] = last[1]
        BY <2>2, <3>1
      <3>4. QED
        BY <1>4, <3>2, <3>3
    <2>6. ASSUME NEW i \in 1..Len(t)-1
          PROVE  t[i] = y[i]
      <3>1. i \in 1..k+Len(d) /\ i \in 1..k+Len(front)
        BY <2>2, <2>4
      <3>2. CASE i <= k
        BY <1>7, <2>3, <3>1, <3>2
      <3>3. CASE i > k
        <4>1. i - k \in 1..Len(front)+1 /\ i - k <= Len(front) /\ ~(i <= k)
          BY <2>2, <3>1, <3>3
        <4>2. QED
          BY <1>7, <2>2, <2>3, <3>1, <4>1
      <3>4. QED
        BY <3>2, <3>3
    <2>7. Len(y) = Len(t) - 1
      BY <2>2, <2>3, <2>4
    <2>8. Len(t) >= 1
      BY <2>2, <2>4
    <2>9. QED
      BY <1>7, <1>9, <2>5, <2>6, <2>7, <2>8
  <1>10. QED
    BY <1>8, <1>9

LEMMA NumbersDiffer ==
  ASSUME NEW m \in Nat, NEW n \in Nat, NEW j \in Nat, NEW k \in Nat,
         ZeroFilled(j, m) = ZeroFilled(k, n)
  PROVE  m = n
  <1> DEFINE Same(a, c, b, d) ==
               /\ Len(ZeroFilled(a, c)) = Len(ZeroFilled(b, d))
               /\ \A i \in 1..Len(ZeroFilled(a, c)) : ZeroFilled(a, c)[i] = ZeroFilled(b, d)[i]
             wrong == {d \in Nat : \E c \in Nat, a \in Nat, b \in Nat : c < d /\ Same(a, c, b, d)}
  <1>1. \A d \in Nat : /\ d % 10 \in 0..9 /\ d \div 10 \in Nat /\ d = 10 * (d \div 10) + (d % 10)
                       /\ d < 10 => d % 10 = d
                       /\ d >= 10 => d \div 10 < d /\ d \div 10 >= 1
    OBVIOUS
  <1>2. wrong = {}
    <2>1. SUFFICES ASSUME wrong # {} PROVE FALSE
      OBVIOUS
    <2>2. wrong \in SUBSET Nat
      OBVIOUS
    <2>3. PICK d \in wrong : \A e \in wrong : d <= e
      BY <2>1, <2>2, MinProperties
    <2>4. PICK c \in Nat, a \in Nat, b \in Nat : c < d /\ Same(a, c, b, d)
      BY <2>3
    <2>5. d \in Nat
      BY <2>3
    <2> DEFINE s == ZeroFilled(a, c)
               t == ZeroFilled(b, d)
    <2>6. /\ Len(s) \in Nat /\ Len(s) >= 1 /\ Len(t) = Len(s) /\ \A i \in 1..Len(s) : s[i] = t[i]
      <3>1. s \in Seq(Digit) /\ Len(s) >= 1
        BY <2>4, LastDigit
      <3>2. QED
        BY <2>4, <3>1
    <2>7. c % 10 = d % 10
      <3>1. s[Len(s)] = DigitOf(c % 10)
        BY <2>4, LastDigit
      <3>2. t[Len(t)] = DigitOf(d % 10)
        BY <2>4, <2>5, LastDigit
      <3>3. s[Len(s)] = t[Len(t)]
        BY <2>6
      <3>4. c % 10 \in 0..9 /\ d % 10 \in 0..9
        BY <1>1, <2>5
      <3>5. QED
        BY <3>1, <3>2, <3>3, <3>4, Digits
    <2>8. d >= 10
      BY <1>1, <2>4, <2>5, <2>7
    <2> DEFINE u == ZeroFilled(b, d \div 10)
    <2>9. Len(u) = Len(s) - 1 /\ \A i \in 1..Len(s)-1 : u[i] = s[i]
      <3>1. Len(u) = Len(t) - 1 /\ \A i \in 1..Len(t)-1 : t[i] = u[i]
        BY <2>4, <2>5, <2>8, LastDigit
      <3> HIDE DEF s, t, u
      <3>2. QED
        BY <2>6, <3>1
    <2>10. d \div 10 \in Nat /\ d \div 10 < d /\ d \div 10 >= 1 /\ d \div 10 \notin wrong
      <3>1. d \div 10 \in Nat /\ d \div 10 < d /\ d \div 10 >= 1
        BY <1>1, <2>5, <2>8
      <3> DEFINE e == d \div 10
      <3>2. e \in Nat /\ e < d
        BY <3>1
      <3> HIDE DEF e
      <3>3. e \notin wrong
        <4> HIDE DEF wrong
        <4>1. QED
          BY <2>3, <2>5, <3>2
      <3>4. QED
        BY <3>1, <3>3 DEF e
    <2>11. CASE c >= 10
      <3> DEFINE v == ZeroFilled(a, c \div 10)
      <3>1. Len(v) = Len(s) - 1 /\ \A i \in 1..Len(s)-1 : s[i] = v[i]
        BY <2>4, <2>11, LastDigit
      <3>2. Len(v) = Len(u) /\ \A i \in 1..Len(v) : v[i] = u[i]
        <4> HIDE DEF s, u, v
        <4>1. QED
          BY <2>9, <3>1
      <3>3. Same(a, c \div 10, b, d \div 10)
        BY <3>2
      <3>4. c \div 10 \in Nat /\ c \div 10 < d \div 10
        BY <1>1, <2>4, <2>5, <2>7
      <3> HIDE DEF Same
      <3>5. QED
        BY <2>4, <2>10, <3>3, <3>4
    <2>12. CASE c < 10
      <3>1. Len(s) = a + 1 /\ \A i \in 1..a : s[i] = "0"
        BY <2>4, <2>12, LastDigit
      <3>2. Len(u) = a /\ \A i \in 1..a : u[i] = "0"
        <4> HIDE DEF s, u
        <4>1. QED
          BY <2>4, <2>9, <3>1
      <3>3. a >= 1
        <4>1. Len(u) >= 1
          BY <2>4, <2>10, LastDigit
        <4>2. QED
          BY <3>2, <4>1
      <3> DEFINE v == ZeroFilled(a - 1, 0)
      <3>4. a - 1 \in Nat /\ 0 \in Nat /\ 0 % 10 = 0 /\ 0 < 10
        BY <2>4, <3>3
      <3>5. /\ Len(v) = (a - 1) + 1 /\ \A i \in 1..a - 1 : v[i] = "0"
            /\ v[Len(v)] = DigitOf(0)
        <4> DEFINE zero == 0
                   l == a - 1
        <4>1. zero \in Nat /\ zero % 10 = 0 /\ zero < 10 /\ l \in Nat
          BY <3>4
        <4>2. v = ZeroFilled(l, zero)
          OBVIOUS
        <4> HIDE DEF zero, l, v
        <4>3. /\ Len(ZeroFilled(l, zero)) = l + 1 /\ \A i \in 1..l : ZeroFilled(l, zero)[i] = "0"
              /\ ZeroFilled(l, zero)[Len(ZeroFilled(l, zero))] = DigitOf(zero % 10)
          BY <4>1, LastDigit, ZenonT(60)
        <4>4. DigitOf(zero % 10) = DigitOf(0)
          BY <4>1
        <4>5. QED
          BY <4>2, <4>3, <4>4 DEF l
      <3>6. DigitOf(0) = "0"
        BY DEF DigitOf
      <3>7. Len(v) = a /\ \A i \in 1..a : v[i] = "0"
        <4> HIDE DEF v
        <4>1. QED
          BY <2>4, <3>3, <3>5, <3>6
      <3>8. Same(a - 1, 0, b, d \div 10)
        BY <3>2, <3>7
      <3> HIDE DEF Same
      <3>9. QED
        BY <2>4, <2>10, <3>4, <3>8
    <2>13. QED
      BY <2>4, <2>11, <2>12
  <1>3. Same(j, m, k, n) /\ Same(k, n, j, m)
    OBVIOUS
  <1> HIDE DEF Same
  <1>4. ~(m < n) /\ ~(n < m)
    BY <1>2, <1>3
  <1>5. QED
    BY <1>4

LEMMA FirstIsUnique ==
  ASSUME NEW T, NEW s \in Seq(T), NEW p \in 1..Len(s)+1,
         NEW b \in p..Len(s), NEW e \in 1..Len(s), FirstOfRest(s, p, b, e)
  PROVE  /\ ~NoneInRest(s, p)
         /\ b \in 1..Len(s) /\ b < e /\ Number(SubSeq(s, b + 1, e - 1)) \in Nat
         /\ \A c \in p..Len(s), d \in 1..Len(s) : FirstOfRest(s, p, c, d) => c = b /\ d = e
  <1>1. Len(s) \in Nat /\ b \in 1..Len(s)
    OBVIOUS
  <1>2. /\ b < e /\ ParameterAt(s, b, e) /\ SubSeq(s, b + 1, e - 1) \in Seq(Digit)
        /\ \A i \in p..b-1, j \in 1..Len(s) : ~ParameterAt(s, i, j)
    BY DEF FirstOfRest
  <1>3. ASSUME NEW c \in p..Len(s), NEW d \in 1..Len(s), FirstOfRest(s, p, c, d)
        PROVE  c = b /\ d = e
    <2>1. /\ ParameterAt(s, c, d)
          /\ \A i \in p..c-1, j \in 1..Len(s) : ~ParameterAt(s, i, j)
      BY <1>3 DEF FirstOfRest
    <2>2. ~(b < c)
      <3>1. b < c => b \in p..c-1
        BY <1>1
      <3>2. QED
        BY <1>2, <2>1, <3>1
    <2>3. ~(c < b)
      <3>1. c < b => c \in p..b-1
        BY <1>1
      <3>2. QED
        BY <1>2, <2>1, <3>1
    <2>4. c = b
      BY <1>1, <2>2, <2>3
    <2>5. s[b] = "%"
      BY <1>2 DEF ParameterAt
    <2>6. e = MatchEnd(s, b) /\ d = MatchEnd(s, b)
      BY <1>1, <1>2, <2>1, <2>4, <2>5, MatchProperties
    <2>7. QED
      BY <2>4, <2>6
  <1>4. Number(SubSeq(s, b + 1, e - 1)) \in Nat
    <2>1. SubSeq(s, b + 1, e - 1) \in Seq(Digit)
      BY <1>2
    <2>2. QED
      BY <2>1, NumberType
  <1>5. ~NoneInRest(s, p)
    BY <1>2 DEF NoneInRest
  <1>6. QED
    BY <1>1, <1>2, <1>3, <1>4, <1>5

LEMMA HasParameter ==
  ASSUME NEW T, NEW s \in Seq(T)
  PROVE  string_has_parameter(s) <=> ~NoneInRest(s, 1)
  <1>1. FirstParameter(s, 1, find_parameter(s))
    BY FindParameter
  <1>2. CASE find_parameter(s) = NotFound /\ \A i \in 1..Len(s), j \in 1..Len(s) : ~ParameterAt(s, i, j)
    BY <1>2 DEF string_has_parameter, NoneInRest
  <1>3. ASSUME NEW b \in 1..Len(s), NEW e \in 1..Len(s),
               find_parameter(s) = Parameter(s, b, e), ParameterAt(s, b, e)
        PROVE  string_has_parameter(s) /\ ~NoneInRest(s, 1)
    <2>1. NotFound.begin = 0 /\ Parameter(s, b, e).begin = b /\ b # 0
      BY DEF NotFound, Parameter
    <2>2. QED
      BY <1>3, <2>1 DEF string_has_parameter, NoneInRest
  <1>4. QED
    BY <1>1, <1>2, <1>3 DEF FirstParameter

\* What the substitutions of two frames have in common.
ShareParts(s, f, g, p, F, G) ==
  \/ NoneInRest(s, p) /\ F[p] = G[p]
  \/ \E b \in p..Len(s), e \in 1..Len(s), w \in Nat :
       /\ FirstOfRest(s, p, b, e) /\ b < e
       /\ F[p] = SubSeq(s, p, b - 1) \o Padded(Decimal[f], w) \o F[e + 1]
       /\ G[p] = SubSeq(s, p, b - 1) \o Padded(Decimal[g], w) \o G[e + 1]

LEMMA SameParts ==
  ASSUME NEW T, NEW s \in Seq(T), NEW f \in Nat, NEW g \in Nat, NEW F, NEW G,
         NEW p \in 1..Len(s)+1, SubstitutedRest(s, f, p, F), SubstitutedRest(s, g, p, G)
  PROVE  ShareParts(s, f, g, p, F, G)
  <1> DEFINE Parts(v, H, b, e) ==
               H[p] = SubSeq(s, p, b - 1) \o Padded(Decimal[v], Number(SubSeq(s, b + 1, e - 1))) \o H[e + 1]
  <1>1. ASSUME NEW v \in Nat, NEW H, SubstitutedRest(s, v, p, H)
        PROVE  \/ NoneInRest(s, p) /\ H[p] = SubSeq(s, p, Len(s))
               \/ \E b \in p..Len(s), e \in 1..Len(s) : FirstOfRest(s, p, b, e) /\ Parts(v, H, b, e)
    <2>1. ~(v < 0)
      OBVIOUS
    <2>2. QED
      BY <1>1, <2>1 DEF SubstitutedRest
  <1>2. CASE NoneInRest(s, p)
    <2>1. F[p] = SubSeq(s, p, Len(s)) /\ G[p] = SubSeq(s, p, Len(s))
      BY <1>1, <1>2, FirstIsUnique
    <2>2. QED
      BY <1>2, <2>1 DEF ShareParts
  <1>3. CASE ~NoneInRest(s, p)
    <2>1. PICK b \in p..Len(s), e \in 1..Len(s) : FirstOfRest(s, p, b, e) /\ Parts(f, F, b, e)
      BY <1>1, <1>3
    <2>2. PICK c \in p..Len(s), d \in 1..Len(s) : FirstOfRest(s, p, c, d) /\ Parts(g, G, c, d)
      BY <1>1, <1>3
    <2>3. c = b /\ d = e /\ b < e /\ Number(SubSeq(s, b + 1, e - 1)) \in Nat
      BY <2>1, <2>2, FirstIsUnique
    <2>4. QED
      BY <2>1, <2>2, <2>3 DEF ShareParts
  <1>4. QED
    BY <1>2, <1>3

\* The parts of a text have the lengths that add up to its length.
LEMMA ThreeParts ==
  ASSUME NEW T, NEW x \in Seq(T), NEW d \in Seq(T), NEW y \in Seq(T)
  PROVE  /\ Len(x \o d \o y) = Len(x) + Len(d) + Len(y)
         /\ \A i \in 1..Len(d) : (x \o d \o y)[Len(x) + i] = d[i]
  <1> DEFINE w == x \o d
  <1>1. /\ w \in Seq(T) /\ Len(w) = Len(x) + Len(d)
        /\ \A n \in 1..Len(x)+Len(d) : w[n] = IF n <= Len(x) THEN x[n] ELSE d[n - Len(x)]
    BY ConcatProperties
  <1> HIDE DEF w
  <1>2. w \in Seq(T)
    BY <1>1
  <1>3. /\ Len(w \o y) = Len(w) + Len(y)
        /\ \A n \in 1..Len(w)+Len(y) : (w \o y)[n] = IF n <= Len(w) THEN w[n] ELSE y[n - Len(w)]
    BY <1>2, ConcatProperties
  <1>4. ASSUME NEW i \in 1..Len(d)
        PROVE  (w \o y)[Len(x) + i] = d[i]
    <2>1. /\ Len(x) + i \in 1..Len(w)+Len(y) /\ Len(x) + i <= Len(w) /\ ~(Len(x) + i <= Len(x))
          /\ Len(x) + i \in 1..Len(x)+Len(d) /\ (Len(x) + i) - Len(x) = i
      BY <1>1
    <2>2. QED
      BY <1>1, <1>3, <2>1
  <1>5. Len(w \o y) = Len(x) + Len(d) + Len(y)
    BY <1>1, <1>3
  <1>6. QED
    BY <1>4, <1>5 DEF w

\* The names of two frames differ in the first parameter, or in their length.
LEMMA LaterFrame ==
  ASSUME NEW T, NEW s \in Seq(T), NEW f \in Nat, NEW g \in Nat, f < g, ~NoneInRest(s, 1)
  PROVE  substitute_parameter(s, f) # substitute_parameter(s, g)
  <1> DEFINE U == T \cup Digit
             places == 1..Len(s)+1
  <1>1. f \in Int /\ g \in Int /\ Len(s) \in Nat /\ 1 \in places
    OBVIOUS
  <1>2. PICK F : /\ F \in [places -> Seq(U)]
                 /\ substitute_parameter(s, f) = F[1]
                 /\ \A p \in places : SubstitutedRest(s, f, p, F)
    BY <1>1, Substitution
  <1>3. PICK G : /\ G \in [places -> Seq(U)]
                 /\ substitute_parameter(s, g) = G[1]
                 /\ \A p \in places : SubstitutedRest(s, g, p, G)
    BY <1>1, Substitution
  <1>4. ASSUME NEW w \in Nat
        PROVE  /\ Padded(Decimal[f], w) \in Seq(Digit) /\ Padded(Decimal[g], w) \in Seq(Digit)
               /\ Len(Padded(Decimal[f], w)) <= Len(Padded(Decimal[g], w))
               /\ \E k \in Nat : Padded(Decimal[f], w) = ZeroFilled(k, f)
               /\ \E k \in Nat : Padded(Decimal[g], w) = ZeroFilled(k, g)
    <2>1. ASSUME NEW v \in Nat
          PROVE  /\ Padded(Decimal[v], w) \in Seq(Digit)
                 /\ Len(Decimal[v]) \in Nat
                 /\ Len(Padded(Decimal[v], w)) = IF w <= Len(Decimal[v]) THEN Len(Decimal[v]) ELSE w
                 /\ \E k \in Nat : Padded(Decimal[v], w) = ZeroFilled(k, v)
      <3> DEFINE d == Decimal[v]
      <3>1. d \in Seq(Digit)
        BY DecimalEquation, Zenon
      <3>2. /\ Padded(d, w) \in Seq(Digit)
            /\ w <= Len(d) => Padded(d, w) = ZeroFilled(0, v) /\ Len(Padded(d, w)) = Len(d)
            /\ w >= Len(d) => Padded(d, w) = ZeroFilled(w - Len(d), v) /\ Len(Padded(d, w)) = w
        BY PaddedProperties DEF ZeroFilled
      <3> HIDE DEF d
      <3>3. Len(d) \in Nat /\ (w >= Len(d) => w - Len(d) \in Nat) /\ (w <= Len(d) \/ w >= Len(d))
        BY <3>1
      <3>4. \E k \in Nat : Padded(d, w) = ZeroFilled(k, v)
        BY <3>2, <3>3
      <3>5. Len(Padded(d, w)) = IF w <= Len(d) THEN Len(d) ELSE w
        BY <3>2, <3>3
      <3>6. QED
        BY <3>2, <3>3, <3>4, <3>5 DEF d
    <2>2. Len(Decimal[f]) <= Len(Decimal[g])
      <3>1. f \in 0..g
        BY <1>1
      <3>2. QED
        BY <3>1, DecimalMonotone
    <2>3. Len(Padded(Decimal[f], w)) <= Len(Padded(Decimal[g], w))
      <3> DEFINE m == Len(Decimal[f])
                 n == Len(Decimal[g])
      <3>1. /\ m \in Nat /\ Len(Padded(Decimal[f], w)) = IF w <= m THEN m ELSE w
            /\ n \in Nat /\ Len(Padded(Decimal[g], w)) = IF w <= n THEN n ELSE w
            /\ m <= n
        BY <2>1, <2>2
      <3> HIDE DEF m, n
      <3>2. QED
        BY <3>1
    <2>4. QED
      BY <2>1, <2>3
  <1> DEFINE Adds(p, b, e, w) ==
               LET x == SubSeq(s, p, b - 1)
                   d == Padded(Decimal[f], w)
                   c == Padded(Decimal[g], w)
               IN  /\ Len(x) \in Nat /\ Len(d) \in Nat /\ Len(c) \in Nat
                   /\ Len(F[e + 1]) \in Nat /\ Len(G[e + 1]) \in Nat
                   /\ Len(F[p]) = Len(x) + Len(d) + Len(F[e + 1])
                   /\ Len(G[p]) = Len(x) + Len(c) + Len(G[e + 1])
                   /\ \A i \in 1..Len(d) : F[p][Len(x) + i] = d[i]
                   /\ \A i \in 1..Len(c) : G[p][Len(x) + i] = c[i]
  <1>5. ASSUME NEW p \in places, NEW b \in p..Len(s), NEW e \in 1..Len(s), NEW w \in Nat, b < e,
               F[p] = SubSeq(s, p, b - 1) \o Padded(Decimal[f], w) \o F[e + 1],
               G[p] = SubSeq(s, p, b - 1) \o Padded(Decimal[g], w) \o G[e + 1]
        PROVE  Adds(p, b, e, w)
    <2> DEFINE x == SubSeq(s, p, b - 1)
               d == Padded(Decimal[f], w)
               c == Padded(Decimal[g], w)
               y == F[e + 1]
               z == G[e + 1]
    <2>1. x \in Seq(U)
      BY <1>1, SubSeqProperties
    <2>2. d \in Seq(U) /\ c \in Seq(U)
      <3>1. d \in Seq(Digit) /\ c \in Seq(Digit)
        BY <1>4
      <3>2. QED
        BY <3>1, SeqMonotonic
    <2>3. y \in Seq(U) /\ z \in Seq(U)
      <3>1. e + 1 \in places
        BY <1>1
      <3>2. QED
        BY <1>2, <1>3, <3>1
    <2>4. F[p] = x \o d \o y /\ G[p] = x \o c \o z
      BY <1>5
    <2> HIDE DEF x, d, c, y, z, U
    <2>5. /\ Len(x \o d \o y) = Len(x) + Len(d) + Len(y)
          /\ \A i \in 1..Len(d) : (x \o d \o y)[Len(x) + i] = d[i]
      <3>1. x \in Seq(U) /\ d \in Seq(U) /\ y \in Seq(U)
        BY <2>1, <2>2, <2>3
      <3>2. QED
        BY <3>1, ThreeParts
    <2>6. /\ Len(x \o c \o z) = Len(x) + Len(c) + Len(z)
          /\ \A i \in 1..Len(c) : (x \o c \o z)[Len(x) + i] = c[i]
      <3>1. x \in Seq(U) /\ c \in Seq(U) /\ z \in Seq(U)
        BY <2>1, <2>2, <2>3
      <3>2. QED
        BY <3>1, ThreeParts
    <2>7. /\ Len(x) \in Nat /\ Len(d) \in Nat /\ Len(c) \in Nat
          /\ Len(y) \in Nat /\ Len(z) \in Nat
      BY <2>1, <2>2, <2>3
    <2>8. /\ Len(F[p]) = Len(x) + Len(d) + Len(y)
          /\ Len(G[p]) = Len(x) + Len(c) + Len(z)
          /\ \A i \in 1..Len(d) : F[p][Len(x) + i] = d[i]
          /\ \A i \in 1..Len(c) : G[p][Len(x) + i] = c[i]
      BY <2>4, <2>5, <2>6, Zenon
    <2>9. QED
      BY <2>7, <2>8 DEF x, d, c, y, z
  <1> DEFINE wrong == {n \in 0..Len(s) : ~(Len(F[Len(s) + 1 - n]) <= Len(G[Len(s) + 1 - n]))}
  <1>6. wrong = {}
    <2>1. SUFFICES ASSUME wrong # {} PROVE FALSE
      OBVIOUS
    <2>2. wrong \in SUBSET Nat
      BY <1>1
    <2>3. PICK n \in wrong : \A k \in wrong : n <= k
      BY <2>1, <2>2, MinProperties
    <2> DEFINE p == Len(s) + 1 - n
    <2>4. p \in places /\ n \in 0..Len(s) /\ ~(Len(F[p]) <= Len(G[p])) /\ n = Len(s) + 1 - p
      BY <1>1, <2>3
    <2> HIDE DEF p
    <2>5. F[p] # G[p]
      <3>1. Len(F[p]) \in Nat
        BY <1>2, <2>4
      <3>2. QED
        BY <2>4, <3>1
    <2>6. PICK b \in p..Len(s), e \in 1..Len(s), w \in Nat :
            /\ b < e
            /\ F[p] = SubSeq(s, p, b - 1) \o Padded(Decimal[f], w) \o F[e + 1]
            /\ G[p] = SubSeq(s, p, b - 1) \o Padded(Decimal[g], w) \o G[e + 1]
      <3>1. ShareParts(s, f, g, p, F, G)
        BY <1>2, <1>3, <2>4, SameParts
      <3>2. QED
        BY <2>5, <3>1 DEF ShareParts
    <2> DEFINE k == Len(s) - e
    <2>7. k \in 0..Len(s) /\ k < n /\ Len(s) + 1 - k = e + 1
      BY <1>1, <2>4, <2>6
    <2>8. Len(F[e + 1]) <= Len(G[e + 1])
      BY <2>3, <2>7
    <2>9. Len(Padded(Decimal[f], w)) <= Len(Padded(Decimal[g], w))
      BY <1>4
    <2>10. Adds(p, b, e, w)
      <3>1. /\ p \in places /\ b \in p..Len(s) /\ e \in 1..Len(s) /\ w \in Nat /\ b < e
            /\ F[p] = SubSeq(s, p, b - 1) \o Padded(Decimal[f], w) \o F[e + 1]
            /\ G[p] = SubSeq(s, p, b - 1) \o Padded(Decimal[g], w) \o G[e + 1]
        BY <2>4, <2>6
      <3> HIDE DEF Adds
      <3>2. QED
        BY <1>5, <3>1
    <2> DEFINE x == Len(SubSeq(s, p, b - 1))
               d == Len(Padded(Decimal[f], w))
               c == Len(Padded(Decimal[g], w))
               y == Len(F[e + 1])
               z == Len(G[e + 1])
    <2>11. /\ Len(F[p]) = x + d + y /\ Len(G[p]) = x + c + z
           /\ x \in Nat /\ d \in Nat /\ c \in Nat /\ y \in Nat /\ z \in Nat /\ y <= z /\ d <= c
      BY <2>8, <2>9, <2>10
    <2> HIDE DEF x, d, c, y, z
    <2>12. QED
      BY <2>4, <2>11
  <1>7. PICK b \in 1..Len(s), e \in 1..Len(s), w \in Nat :
          /\ b < e
          /\ F[1] = SubSeq(s, 1, b - 1) \o Padded(Decimal[f], w) \o F[e + 1]
          /\ G[1] = SubSeq(s, 1, b - 1) \o Padded(Decimal[g], w) \o G[e + 1]
    <2>1. ShareParts(s, f, g, 1, F, G)
      BY <1>1, <1>2, <1>3, SameParts
    <2>2. QED
      BY <2>1 DEF ShareParts
  <1>8. Len(F[e + 1]) <= Len(G[e + 1])
    <2>1. Len(s) - e \in 0..Len(s) /\ Len(s) + 1 - (Len(s) - e) = e + 1
      BY <1>1
    <2>2. QED
      BY <1>6, <2>1
  <1>9. SUFFICES ASSUME F[1] = G[1] PROVE FALSE
    BY <1>2, <1>3
  <1> DEFINE x == SubSeq(s, 1, b - 1)
             d == Padded(Decimal[f], w)
             c == Padded(Decimal[g], w)
  <1>10. /\ Len(x) \in Nat /\ Len(d) \in Nat /\ Len(c) \in Nat
         /\ Len(F[e + 1]) \in Nat /\ Len(G[e + 1]) \in Nat
         /\ Len(F[1]) = Len(x) + Len(d) + Len(F[e + 1])
         /\ Len(G[1]) = Len(x) + Len(c) + Len(G[e + 1])
         /\ \A i \in 1..Len(d) : F[1][Len(x) + i] = d[i]
         /\ \A i \in 1..Len(c) : G[1][Len(x) + i] = c[i]
    <2>1. Adds(1, b, e, w)
      <3>1. 1 \in places
        BY <1>1
      <3> HIDE DEF Adds
      <3>2. QED
        BY <1>5, <1>7, <3>1
    <2>2. QED
      BY <2>1
  <1>11. /\ d \in Seq(Digit) /\ c \in Seq(Digit) /\ Len(d) <= Len(c)
         /\ \E k \in Nat : d = ZeroFilled(k, f)
         /\ \E k \in Nat : c = ZeroFilled(k, g)
    BY <1>4
  <1> HIDE DEF x, d, c
  <1>12. Len(d) = Len(c) /\ \A i \in 1..Len(d) : d[i] = c[i]
    <2> DEFINE y == Len(F[e + 1])
               z == Len(G[e + 1])
    <2>1. /\ Len(F[1]) = Len(x) + Len(d) + y /\ Len(G[1]) = Len(x) + Len(c) + z
          /\ y \in Nat /\ z \in Nat /\ y <= z /\ Len(F[1]) = Len(G[1])
      BY <1>8, <1>9, <1>10
    <2> HIDE DEF y, z
    <2>2. Len(d) = Len(c)
      <3> DEFINE i == Len(x)
                 j == Len(d)
                 k == Len(c)
                 n == Len(F[1])
      <3>1. /\ n = i + j + y /\ n = i + k + z /\ y \in Nat /\ z \in Nat /\ y <= z
            /\ i \in Nat /\ j \in Nat /\ k \in Nat /\ j <= k
        BY <1>10, <1>11, <2>1
      <3> HIDE DEF i, j, k, n
      <3>2. j = k
        BY <3>1
      <3>3. QED
        BY <3>2 DEF j, k
    <2>3. \A i \in 1..Len(d) : F[1][Len(x) + i] = G[1][Len(x) + i]
      BY <1>9
    <2>4. QED
      BY <1>10, <2>2, <2>3
  <1>13. d = c
    BY <1>11, <1>12, SeqEqual
  <1>14. f = g
    BY <1>11, <1>13, NumbersDiffer
  <1>15. QED
    BY <1>1, <1>14

LEMMA NamesOfFrames ==
  ASSUME NEW T, NEW s \in Seq(T), NEW f \in Nat, NEW g \in Nat, f # g
  PROVE  string_has_parameter(s) <=> substitute_parameter(s, f) # substitute_parameter(s, g)
  <1>1. CASE NoneInRest(s, 1)
    <2>1. f \in Int /\ g \in Int /\ 1 \in 1..Len(s)+1
      OBVIOUS
    <2>2. PICK F : /\ substitute_parameter(s, f) = F[1]
                   /\ \A p \in 1..Len(s)+1 : SubstitutedRest(s, f, p, F)
      BY <2>1, Substitution
    <2>3. PICK G : /\ substitute_parameter(s, g) = G[1]
                   /\ \A p \in 1..Len(s)+1 : SubstitutedRest(s, g, p, G)
      BY <2>1, Substitution
    <2>4. F[1] = G[1]
      <3>1. ShareParts(s, f, g, 1, F, G)
        BY <2>1, <2>2, <2>3, SameParts
      <3>2. QED
        BY <1>1, <2>1, <3>1, FirstIsUnique DEF ShareParts
    <2>5. QED
      BY <1>1, <2>2, <2>3, <2>4, HasParameter
  <1>2. CASE ~NoneInRest(s, 1)
    <2>1. substitute_parameter(s, f) # substitute_parameter(s, g)
      <3>1. f < g \/ g < f
        OBVIOUS
      <3>2. CASE f < g
        BY <1>2, <3>2, LaterFrame
      <3>3. CASE g < f
        BY <1>2, <3>3, LaterFrame
      <3>4. QED
        BY <3>1, <3>2, <3>3
    <2>2. QED
      BY <1>2, <2>1, HasParameter
  <1>3. QED
    BY <1>1, <1>2

-----------------------------------------------------------------------------
(* Substitution at once *)

\* Position n is behind the beginning of a parameter.
Inside(s, n) == \E i \in 1..Len(s), j \in 1..Len(s) : ParameterAt(s, i, j) /\ i < n /\ n <= j

Begins(s, n) == \E j \in 1..Len(s) : ParameterAt(s, n, j)

\* What becomes of each character of a text.
IsPieces(s, v, pieces) ==
  /\ Len(pieces) = Len(s)
  /\ Replaced(s, v) = FlattenSeq(pieces)
  /\ \A n \in 1..Len(s) :
       /\ \A j \in 1..Len(s) : ParameterAt(s, n, j) =>
            pieces[n] = Padded(Decimal[v], Number(SubSeq(s, n + 1, j - 1)))
       /\ ~Begins(s, n) /\ Inside(s, n) => pieces[n] = <<>>
       /\ ~Begins(s, n) /\ ~Inside(s, n) => pieces[n] = <<s[n]>>

LEMMA Pieces ==
  ASSUME NEW T, NEW s \in Seq(T), NEW v \in Nat
  PROVE  \E pieces \in Seq(Seq(T \cup Digit)) : IsPieces(s, v, pieces)
  <1> DEFINE U == T \cup Digit
             found == {r \in (1..Len(s)) \X (1..Len(s)) : IsParameter(SubSeq(s, r[1], r[2]))}
             piece(n) ==
               IF \E r \in found : r[1] = n
               THEN LET r == CHOOSE r \in found : r[1] = n
                    IN  Padded(Decimal[v], Number(SubSeq(s, n + 1, r[2] - 1)))
               ELSE IF \E r \in found : r[1] < n /\ n <= r[2] THEN <<>> ELSE <<s[n]>>
             pieces == [n \in DOMAIN s |-> piece(n)]
  <1>1. Len(s) \in Nat /\ DOMAIN s = 1..Len(s)
    OBVIOUS
  <1>2. Replaced(s, v) = FlattenSeq(pieces)
    BY DEF Replaced
  <1>3. ASSUME NEW i \in 1..Len(s), NEW j \in 1..Len(s)
        PROVE  <<i, j>> \in found <=> ParameterAt(s, i, j)
    <2>1. IsParameter(SubSeq(s, i, j)) <=> ParameterAt(s, i, j)
      BY ParametersAt
    <2>2. QED
      BY <2>1
  <1>4. \A r \in found : /\ r[1] \in 1..Len(s) /\ r[2] \in 1..Len(s) /\ r = <<r[1], r[2]>>
                         /\ ParameterAt(s, r[1], r[2])
    <2>1. ASSUME NEW r \in found
          PROVE  r[1] \in 1..Len(s) /\ r[2] \in 1..Len(s) /\ r = <<r[1], r[2]>>
      OBVIOUS
    <2>2. QED
      BY <1>3, <2>1
  <1> HIDE DEF found
  <1>5. ASSUME NEW i \in 1..Len(s), NEW j \in 1..Len(s), NEW k \in 1..Len(s),
               ParameterAt(s, i, j), ParameterAt(s, i, k)
        PROVE  j = k /\ SubSeq(s, i + 1, j - 1) \in Seq(Digit)
    <2>1. s[i] = "%"
      BY <1>5 DEF ParameterAt
    <2>2. j = MatchEnd(s, i) /\ k = MatchEnd(s, i)
      BY <1>5, <2>1, MatchProperties
    <2>3. Matches(s, i)
      BY <1>5, <2>2 DEF Matches, ParameterAt
    <2>4. SubSeq(s, i + 1, MatchEnd(s, i) - 1) \in Seq(Digit)
      BY <2>1, <2>3, MatchProperties
    <2>5. QED
      BY <2>2, <2>4
  <1>6. ASSUME NEW n \in 1..Len(s), NEW j \in 1..Len(s), ParameterAt(s, n, j)
        PROVE  /\ piece(n) = Padded(Decimal[v], Number(SubSeq(s, n + 1, j - 1)))
               /\ piece(n) \in Seq(U)
    <2>1. <<n, j>> \in found /\ <<n, j>>[1] = n
      BY <1>3, <1>6
    <2> DEFINE r == CHOOSE r \in found : r[1] = n
    <2>2. r \in found /\ r[1] = n
      BY <2>1, Zenon
    <2>3. piece(n) = Padded(Decimal[v], Number(SubSeq(s, n + 1, r[2] - 1)))
      BY <2>2, Zenon
    <2> HIDE DEF r
    <2>4. r[2] \in 1..Len(s) /\ ParameterAt(s, n, r[2])
      BY <1>4, <2>2
    <2>5. r[2] = j /\ SubSeq(s, n + 1, j - 1) \in Seq(Digit)
      BY <1>5, <1>6, <2>4
    <2>6. Number(SubSeq(s, n + 1, j - 1)) \in Nat
      BY <2>5, NumberType
    <2>7. Padded(Decimal[v], Number(SubSeq(s, n + 1, j - 1))) \in Seq(Digit)
      BY <2>6, PaddedProperties
    <2>8. Padded(Decimal[v], Number(SubSeq(s, n + 1, j - 1))) \in Seq(U)
      BY <2>7, SeqMonotonic
    <2>9. QED
      BY <2>3, <2>5, <2>8
  <1>7. ASSUME NEW n \in 1..Len(s), ~Begins(s, n)
        PROVE  piece(n) = IF Inside(s, n) THEN <<>> ELSE <<s[n]>>
    <2>1. ~\E r \in found : r[1] = n
      BY <1>4, <1>7 DEF Begins
    <2>2. (\E r \in found : r[1] < n /\ n <= r[2]) <=> Inside(s, n)
      <3>1. ASSUME NEW r \in found, r[1] < n, n <= r[2] PROVE Inside(s, n)
        BY <1>4, <3>1 DEF Inside
      <3>2. ASSUME NEW i \in 1..Len(s), NEW j \in 1..Len(s), ParameterAt(s, i, j), i < n, n <= j
            PROVE  \E r \in found : r[1] < n /\ n <= r[2]
        <4>1. <<i, j>> \in found /\ <<i, j>>[1] = i /\ <<i, j>>[2] = j
          BY <1>3, <3>2
        <4>2. QED
          BY <3>2, <4>1
      <3>3. QED
        BY <3>1, <3>2 DEF Inside
    <2>3. QED
      BY <2>1, <2>2, Zenon
  <1>8. \A n \in 1..Len(s) : pieces[n] = piece(n)
    BY <1>1
  <1> HIDE DEF piece
  <1>9. ASSUME NEW n \in 1..Len(s) PROVE piece(n) \in Seq(U)
    <2>1. CASE Begins(s, n)
      BY <1>6, <2>1 DEF Begins
    <2>2. CASE ~Begins(s, n)
      <3>1. s[n] \in U /\ <<>> \in Seq(U)
        BY EmptySeq
      <3>2. <<s[n]>> \in Seq(U)
        BY <3>1
      <3>3. QED
        BY <1>7, <2>2, <3>1, <3>2
    <2>3. QED
      BY <2>1, <2>2
  <1>10. pieces \in Seq(Seq(U)) /\ Len(pieces) = Len(s)
    <2>1. pieces \in [1..Len(s) -> Seq(U)]
      BY <1>1, <1>9
    <2> HIDE DEF pieces
    <2>2. QED
      BY <1>1, <2>1
  <1>11. IsPieces(s, v, pieces)
    <2>1. ASSUME NEW n \in 1..Len(s)
          PROVE  /\ \A j \in 1..Len(s) : ParameterAt(s, n, j) =>
                      pieces[n] = Padded(Decimal[v], Number(SubSeq(s, n + 1, j - 1)))
                 /\ ~Begins(s, n) /\ Inside(s, n) => pieces[n] = <<>>
                 /\ ~Begins(s, n) /\ ~Inside(s, n) => pieces[n] = <<s[n]>>
      BY <1>6, <1>7, <1>8
    <2> HIDE DEF pieces
    <2>2. QED
      BY <1>2, <1>10, <2>1 DEF IsPieces
  <1>12. QED
    BY <1>10, <1>11

\* Pieces of one character are the text itself.
Plain(seqs, s, p, q) == \A n \in p..q-1 : seqs[n] = <<s[n]>>

Grows(G, p, q, part) == G[q] = G[p] \o part

LEMMA FlattenPlain ==
  ASSUME NEW U, NEW s \in Seq(U), NEW seqs \in Seq(Seq(U)), Len(seqs) = Len(s),
         NEW G, Flattens(G, U, seqs), NEW p \in 1..Len(s)+1, NEW q \in p..Len(s)+1,
         Plain(seqs, s, p, q)
  PROVE  Grows(G, p, q, SubSeq(s, p, q - 1))
  <1> DEFINE plain == {k \in 1..q-p+1 : G[p + k - 1] = G[p] \o SubSeq(s, p, p + k - 2)}
             last == q - p + 1
  <1>1. /\ G \in [1..Len(seqs)+1 -> Seq(U)]
        /\ \A k \in 1..Len(seqs) : G[k + 1] = G[k] \o seqs[k]
    BY Zenon DEF Flattens
  <1>2. Len(s) \in Nat /\ last \in Nat /\ last >= 1 /\ p + last - 1 = q /\ p + last - 2 = q - 1
    OBVIOUS
  <1>3. G[p] \in Seq(U)
    BY <1>1
  <1>4. 1 \in plain
    <2>1. p + 1 - 1 = p /\ 1 \in 1..q-p+1 /\ p + 1 - 2 = p - 1
      OBVIOUS
    <2>2. SubSeq(s, p, p - 1) = <<>>
      BY SubSeqEmpty
    <2>3. G[p] \o <<>> = G[p]
      BY <1>3, ConcatEmptySeq
    <2>4. QED
      BY <2>1, <2>2, <2>3
  <1>5. ASSUME NEW k \in 1..last, k \in plain, k + 1 <= last
        PROVE  k + 1 \in plain
    <2> DEFINE i == p + k - 1
               before == SubSeq(s, p, i - 1)
               one == SubSeq(s, i, i)
    <2>1. /\ i \in 1..Len(s) /\ i \in p..q-1 /\ p + (k + 1) - 1 = i + 1 /\ p + (k + 1) - 2 = i
          /\ p + k - 2 = i - 1 /\ k + 1 \in 1..q-p+1 /\ i - 1 \in p-1..Len(s) /\ i \in i-1..Len(s)
          /\ i - 1 + 1 = i
      BY <1>2, <1>5
    <2>2. G[i] = G[p] \o before
      BY <1>5, <2>1
    <2> HIDE DEF i
    <2>3. G[i + 1] = G[i] \o <<s[i]>>
      <3>1. i \in 1..Len(seqs) /\ seqs[i] = <<s[i]>>
        BY <2>1 DEF Plain
      <3>2. QED
        BY <1>1, <3>1
    <2>4. before \in Seq(U) /\ one \in Seq(U) /\ Len(one) = 1 /\ one[1] = s[i]
      <3>1. i \in Int /\ i - 1 \in Int /\ p \in Int /\ (\A n \in p..i-1 : s[n] \in U)
            /\ (\A n \in i..i : s[n] \in U) /\ i - i + 1 = 1
        BY <1>2, <2>1
      <3>2. before \in Seq(U)
        BY <3>1, SubSeqProperties
      <3>3. one \in Seq(U) /\ Len(one) = 1 /\ one[1] = s[i]
        BY <3>1, SubSeqProperties
      <3>4. QED
        BY <3>2, <3>3
    <2>5. one = <<s[i]>> /\ <<s[i]>> \in Seq(U)
      <3> DEFINE unit == <<s[i]>>
      <3>1. unit \in Seq(U) /\ Len(unit) = 1 /\ unit[1] = s[i]
        BY <2>1
      <3> HIDE DEF one, unit
      <3>2. \A n \in 1..Len(one) : one[n] = unit[n]
        BY <2>4, <3>1
      <3>3. one = unit
        BY <2>4, <3>1, <3>2, SeqEqual
      <3>4. QED
        BY <3>1, <3>3 DEF unit
    <2>6. before \o one = SubSeq(s, p, i)
      <3>1. SubSeq(s, p, i - 1) \o SubSeq(s, i - 1 + 1, i) = SubSeq(s, p, i)
        BY <2>1, ConcatAdjacentSubSeq
      <3>2. QED
        BY <2>1, <3>1
    <2> HIDE DEF before, one
    <2> DEFINE g == G[p]
    <2>7. (g \o before) \o one = g \o (before \o one)
      <3>1. g \in Seq(U) /\ before \in Seq(U) /\ one \in Seq(U)
        BY <1>3, <2>4
      <3> HIDE DEF g
      <3>2. QED
        BY <3>1, ConcatAssociative, SMTT(60)
    <2>8. G[i + 1] = G[p] \o SubSeq(s, p, i)
      BY <2>2, <2>3, <2>5, <2>6, <2>7, Zenon
    <2>9. QED
      BY <2>1, <2>8
  <1> HIDE DEF plain, last
  <1>6. 1..last \subseteq plain
    BY <1>2, <1>4, <1>5, SetInduction
  <1>7. last \in plain
    <2>1. last \in 1..last
      BY <1>2
    <2>2. QED
      BY <1>6, <2>1
  <1>8. QED
    BY <1>2, <1>7 DEF plain, Grows

\* Four texts can be joined from both ends.
JoinsFour(g, x, d, y) == ((g \o x) \o d) \o y = g \o ((x \o d) \o y)

LEMMA ConcatOfFour ==
  ASSUME NEW U, NEW g \in Seq(U), NEW x \in Seq(U), NEW d \in Seq(U), NEW y \in Seq(U)
  PROVE  JoinsFour(g, x, d, y)
  <1> DEFINE z == x \o d
  <1>1. z \in Seq(U)
    BY ConcatProperties
  <1>2. (g \o x) \o d = g \o z
    BY ConcatAssociative, SMTT(60)
  <1> HIDE DEF z
  <1>3. (g \o z) \o y = g \o (z \o y)
    BY <1>1, ConcatAssociative, SMTT(60)
  <1>4. QED
    BY <1>2, <1>3, Zenon DEF z, JoinsFour

\* The search from the left replaces every parameter and nothing else.
LEMMA ReplacedAtOnce ==
  ASSUME NEW T, NEW s \in Seq(T), NEW v \in Nat
  PROVE  substitute_parameter(s, v) = Replaced(s, v)
  <1> DEFINE U == T \cup Digit
             places == 1..Len(s)+1
             end == Len(s) + 1
  <1>1. Len(s) \in Nat /\ v \in Int /\ ~(v < 0) /\ s \in Seq(U)
    BY SeqMonotonic
  <1>2. PICK f : /\ f \in [places -> Seq(U)]
                 /\ substitute_parameter(s, v) = f[1]
                 /\ \A p \in places : SubstitutedRest(s, v, p, f)
    BY <1>1, Substitution
  <1>3. PICK pieces : pieces \in Seq(Seq(U)) /\ IsPieces(s, v, pieces)
    BY Pieces
  <1>4. /\ Len(pieces) = Len(s) /\ Replaced(s, v) = FlattenSeq(pieces)
        /\ \A n \in 1..Len(s), j \in 1..Len(s) : ParameterAt(s, n, j) =>
             pieces[n] = Padded(Decimal[v], Number(SubSeq(s, n + 1, j - 1)))
        /\ \A n \in 1..Len(s) : ~Begins(s, n) /\ Inside(s, n) => pieces[n] = <<>>
        /\ \A n \in 1..Len(s) : ~Begins(s, n) /\ ~Inside(s, n) => pieces[n] = <<s[n]>>
    BY <1>3, Zenon DEF IsPieces
  <1>5. PICK G : Flattens(G, U, pieces) /\ FlattenSeq(pieces) = G[Len(pieces) + 1]
    BY <1>3, FlattenSeqSteps
  <1>6. /\ G \in [places -> Seq(U)] /\ G[1] = <<>>
        /\ \A n \in 1..Len(s) : G[n + 1] = G[n] \o pieces[n]
        /\ Replaced(s, v) = G[end]
    <2>1. /\ G \in [1..Len(pieces)+1 -> Seq(U)] /\ G[1] = <<>>
          /\ \A n \in 1..Len(pieces) : G[n + 1] = G[n] \o pieces[n]
      BY <1>5, Zenon DEF Flattens
    <2>2. QED
      BY <1>4, <1>5, <2>1
  <1>7. ASSUME NEW p \in places, ~Inside(s, p), NoneInRest(s, p)
        PROVE  G[end] = G[p] \o f[p]
    <2>1. ASSUME NEW n \in p..end-1 PROVE pieces[n] = <<s[n]>>
      <3>1. n \in 1..Len(s) /\ n \in p..Len(s)
        BY <1>1
      <3>2. ~Begins(s, n)
        BY <1>7, <3>1 DEF Begins, NoneInRest
      <3>3. ~Inside(s, n)
        <4>1. ASSUME NEW i \in 1..Len(s), NEW j \in 1..Len(s), ParameterAt(s, i, j), i < n, n <= j
              PROVE  FALSE
          <5>1. i < p
            BY <1>1, <1>7, <4>1 DEF NoneInRest
          <5>2. p <= j
            BY <1>1, <3>1, <4>1
          <5>3. QED
            BY <1>7, <4>1, <5>1, <5>2 DEF Inside
        <4>2. QED
          BY <4>1 DEF Inside
      <3>4. QED
        BY <1>4, <3>1, <3>2, <3>3
    <2>2. G[end] = G[p] \o SubSeq(s, p, end - 1)
      <3>1. end \in p..Len(s)+1
        BY <1>1
      <3>2. /\ s \in Seq(U) /\ pieces \in Seq(Seq(U)) /\ Len(pieces) = Len(s)
            /\ Flattens(G, U, pieces)
        BY <1>1, <1>3, <1>4, <1>5
      <3>3. p \in 1..Len(s)+1 /\ Plain(pieces, s, p, end)
        BY <2>1 DEF Plain
      <3> HIDE DEF end, U
      <3>4. Grows(G, p, end, SubSeq(s, p, end - 1))
        BY <3>1, <3>2, <3>3, FlattenPlain
      <3>5. QED
        BY <3>4 DEF Grows
    <2>3. end - 1 = Len(s)
      BY <1>1
    <2>4. f[p] = SubSeq(s, p, Len(s))
      <3>1. SubstitutedRest(s, v, p, f)
        BY <1>2
      <3>2. QED
        BY <1>1, <1>7, <3>1, FirstIsUnique DEF SubstitutedRest
    <2>5. QED
      BY <2>2, <2>3, <2>4
  <1>8. ASSUME NEW p \in places, ~Inside(s, p), NEW b \in p..Len(s), NEW e \in 1..Len(s),
               FirstOfRest(s, p, b, e)
        PROVE  /\ e + 1 \in places /\ p < e + 1 /\ ~Inside(s, e + 1)
               /\ G[e + 1] = G[p] \o SubSeq(s, p, b - 1) \o
                             Padded(Decimal[v], Number(SubSeq(s, b + 1, e - 1)))
    <2>1. /\ b < e /\ ParameterAt(s, b, e) /\ b \in 1..Len(s)
          /\ \A i \in p..b-1, j \in 1..Len(s) : ~ParameterAt(s, i, j)
      BY <1>1, <1>8 DEF FirstOfRest
    <2>2. s[b] = "%" /\ s[e] = "d"
      BY <2>1 DEF ParameterAt
    <2>3. /\ e = MatchEnd(s, b) /\ \A j \in 1..Len(s) : ParameterAt(s, b, j) => j = e
          /\ \A n \in b+1..e-1 : s[n] \in Digit
      <3>1. e = MatchEnd(s, b)
        BY <2>1, <2>2, MatchProperties
      <3>2. QED
        BY <2>1, <2>2, <3>1, MatchProperties
    <2>4. ASSUME NEW n \in b+1..e PROVE ~Begins(s, n) /\ n \in 1..Len(s)
      <3>1. n \in 1..Len(s)
        BY <1>1, <2>1
      <3>2. s[n] # "%"
        <4>1. n = e \/ n \in b+1..e-1
          OBVIOUS
        <4>2. QED
          BY <2>2, <2>3, <4>1 DEF Digit
      <3>3. QED
        BY <3>1, <3>2 DEF Begins, ParameterAt
    <2>5. ASSUME NEW i \in 1..Len(s), NEW j \in 1..Len(s), ParameterAt(s, i, j),
                 i < e + 1, b <= j, i # b
          PROVE  FALSE
      <3>1. ~(i < p)
        <4>1. i < p => Inside(s, p)
          <5>1. i < p => p <= j
            BY <1>1, <2>1, <2>5
          <5>2. QED
            BY <2>5, <5>1 DEF Inside
        <4>2. QED
          BY <1>8, <4>1
      <3>2. ~(i \in p..b-1)
        BY <2>1, <2>5
      <3>3. i \in b+1..e
        BY <1>1, <2>1, <2>5, <3>1, <3>2
      <3>4. QED
        BY <2>4, <2>5, <3>3 DEF Begins
    <2>6. ~Inside(s, e + 1)
      <3>1. ASSUME NEW i \in 1..Len(s), NEW j \in 1..Len(s), ParameterAt(s, i, j), i < e + 1, e + 1 <= j
            PROVE  FALSE
        <4>1. b <= j /\ j # e
          BY <1>1, <2>1, <3>1
        <4>2. i # b
          BY <2>3, <3>1, <4>1
        <4>3. QED
          BY <2>5, <3>1, <4>1, <4>2
      <3>2. QED
        BY <3>1 DEF Inside
    <2>7. G[b] = G[p] \o SubSeq(s, p, b - 1)
      <3>1. ASSUME NEW n \in p..b-1 PROVE pieces[n] = <<s[n]>>
        <4>1. n \in 1..Len(s)
          BY <1>1, <2>1
        <4>2. ~Begins(s, n)
          BY <2>1 DEF Begins
        <4>3. ~Inside(s, n)
          <5>1. ASSUME NEW i \in 1..Len(s), NEW j \in 1..Len(s), ParameterAt(s, i, j), i < n, n <= j
                PROVE  FALSE
            <6>1. ~(i \in p..b-1)
              BY <2>1, <5>1
            <6>2. i < p /\ p <= j
              BY <1>1, <4>1, <5>1, <6>1
            <6>3. QED
              BY <1>8, <5>1, <6>2 DEF Inside
          <5>2. QED
            BY <5>1 DEF Inside
        <4>4. QED
          BY <1>4, <4>1, <4>2, <4>3
      <3>2. b \in p..Len(s)+1 /\ p \in 1..Len(s)+1
        BY <1>1
      <3>3. /\ s \in Seq(U) /\ pieces \in Seq(Seq(U)) /\ Len(pieces) = Len(s)
            /\ Flattens(G, U, pieces)
        BY <1>1, <1>3, <1>4, <1>5
      <3>4. Plain(pieces, s, p, b)
        BY <3>1 DEF Plain
      <3> HIDE DEF U
      <3>5. Grows(G, p, b, SubSeq(s, p, b - 1))
        BY <3>2, <3>3, <3>4, FlattenPlain
      <3>6. QED
        BY <3>5 DEF Grows
    <2>8. G[b + 1] = G[b] \o Padded(Decimal[v], Number(SubSeq(s, b + 1, e - 1)))
      BY <1>4, <1>6, <2>1
    <2>9. G[e + 1] = G[b + 1]
      <3>1. ASSUME NEW n \in b+1..(e+1)-1 PROVE pieces[n] = <<>>
        <4>1. n \in b+1..e
          BY <2>1
        <4>2. ~Begins(s, n) /\ n \in 1..Len(s)
          BY <2>4, <4>1
        <4>3. Inside(s, n)
          <5>1. b < n /\ n <= e
            BY <2>1, <4>1
          <5>2. QED
            BY <2>1, <5>1 DEF Inside
        <4>4. QED
          BY <1>4, <4>2, <4>3
      <3>2. b + 1 \in 1..Len(pieces)+1 /\ e + 1 \in b+1..Len(pieces)+1
        BY <1>1, <1>4, <2>1
      <3>3. /\ pieces \in Seq(Seq(U)) /\ Flattens(G, U, pieces)
            /\ Nothing(pieces, b + 1, e + 1)
        BY <1>3, <1>5, <3>1 DEF Nothing
      <3> HIDE DEF U
      <3>4. QED
        BY <3>2, <3>3, FlattenNothing
    <2>10. e + 1 \in places /\ p < e + 1
      BY <1>1, <2>1
    <2>11. QED
      BY <2>6, <2>7, <2>8, <2>9, <2>10
  <1> DEFINE Bad(p) == ~Inside(s, p) /\ G[end] # G[p] \o f[p]
             wrong == {n \in 0..Len(s) : Bad(Len(s) + 1 - n)}
  <1>9. wrong = {}
    <2>1. SUFFICES ASSUME wrong # {} PROVE FALSE
      OBVIOUS
    <2>2. wrong \in SUBSET Nat
      <3> HIDE DEF Bad
      <3>1. QED
        BY <1>1
    <2>3. PICK n \in wrong : \A k \in wrong : n <= k
      BY <2>1, <2>2, MinProperties
    <2> DEFINE p == Len(s) + 1 - n
    <2>4. p \in places /\ n \in 0..Len(s) /\ Bad(p) /\ n = Len(s) + 1 - p
      <3>1. n \in 0..Len(s) /\ Bad(p)
        BY Zenon
      <3> HIDE DEF Bad
      <3>2. QED
        BY <1>1, <3>1
    <2> HIDE DEF p
    <2>5. ~NoneInRest(s, p) /\ SubstitutedRest(s, v, p, f)
      BY <1>2, <1>7, <2>4
    <2>6. PICK b \in p..Len(s), e \in 1..Len(s) :
            /\ FirstOfRest(s, p, b, e)
            /\ f[p] = SubSeq(s, p, b - 1) \o
                      Padded(Decimal[v], Number(SubSeq(s, b + 1, e - 1))) \o f[e + 1]
      BY <1>1, <2>5 DEF SubstitutedRest
    <2> DEFINE x == SubSeq(s, p, b - 1)
               d == Padded(Decimal[v], Number(SubSeq(s, b + 1, e - 1)))
    <2>7. /\ e + 1 \in places /\ p < e + 1 /\ ~Inside(s, e + 1)
          /\ G[e + 1] = G[p] \o x \o d
      BY <1>8, <2>4, <2>6
    <2> DEFINE k == Len(s) - e
    <2>8. k \in 0..Len(s) /\ k < n /\ Len(s) + 1 - k = e + 1
      <3> DEFINE l == Len(s)
      <3>1. l \in Nat /\ e \in 1..l /\ n = l + 1 - p /\ p \in 1..l+1 /\ p < e + 1
        BY <1>1, <2>4, <2>6, <2>7
      <3> HIDE DEF l
      <3>2. l - e \in 0..l /\ l - e < n /\ l + 1 - (l - e) = e + 1
        BY <3>1
      <3>3. QED
        BY <3>2 DEF l
    <2>9. G[end] = G[e + 1] \o f[e + 1]
      <3>1. k \notin wrong
        <4>1. ~(n <= k)
          BY <1>1, <2>4, <2>8
        <4>2. QED
          BY <2>3, <4>1
      <3>2. QED
        BY <2>7, <2>8, <3>1
    <2>10. x \in Seq(U)
      <3>1. p \in Int /\ b - 1 \in Int /\ \A i \in p..b-1 : s[i] \in U
        BY <1>1, <2>4
      <3>2. QED
        BY <3>1, SubSeqProperties
    <2>11. d \in Seq(U)
      <3>1. Number(SubSeq(s, b + 1, e - 1)) \in Nat
        BY <2>4, <2>6, FirstIsUnique
      <3>2. d \in Seq(Digit)
        BY <3>1, PaddedProperties
      <3>3. QED
        BY <3>2, SeqMonotonic
    <2>12. G[p] \in Seq(U) /\ f[e + 1] \in Seq(U)
      BY <1>2, <1>6, <2>4, <2>7
    <2> HIDE DEF x, d, U, wrong
    <2> DEFINE g == G[p]
               y == f[e + 1]
    <2>13. g \in Seq(U) /\ x \in Seq(U) /\ d \in Seq(U) /\ y \in Seq(U)
      BY <2>10, <2>11, <2>12
    <2>14. f[p] = (x \o d) \o y /\ G[end] = ((g \o x) \o d) \o y
      BY <2>6, <2>7, <2>9 DEF x, d
    <2> HIDE DEF g, y
    <2>15. ((g \o x) \o d) \o y = g \o ((x \o d) \o y)
      <3>1. JoinsFour(g, x, d, y)
        BY <2>13, ConcatOfFour
      <3>2. QED
        BY <3>1, Zenon DEF JoinsFour
    <2>16. G[end] = G[p] \o f[p]
      BY <2>14, <2>15, Zenon DEF g
    <2>17. QED
      BY <2>4, <2>16
  <1>10. ~Inside(s, 1)
    BY DEF Inside
  <1>11. G[end] = G[1] \o f[1]
    <2>1. Len(s) \in 0..Len(s) /\ Len(s) + 1 - Len(s) = 1
      BY <1>1
    <2>2. QED
      BY <1>9, <1>10, <2>1
  <1>12. f[1] \in Seq(U)
    BY <1>1, <1>2
  <1>13. <<>> \o f[1] = f[1]
    BY <1>12, ConcatEmptySeq
  <1>14. QED
    BY <1>2, <1>6, <1>11, <1>13

-----------------------------------------------------------------------------
(* End points *)

LEMMA TailOfArguments ==
  ASSUME NEW T, NEW s \in Seq(T), NEW k \in 1..Len(s)+1
  PROVE  /\ SubSeq(s, k, Len(s)) \in Seq(T)
         /\ Len(SubSeq(s, k, Len(s))) = Len(s) - k + 1
         /\ \A n \in 1..Len(s)-k+1 : SubSeq(s, k, Len(s))[n] = s[k + n - 1]
  <1>1. Len(s) \in Nat /\ \A i \in k..Len(s) : s[i] \in T
    OBVIOUS
  <1>2. QED
    BY <1>1, SubSeqProperties

LEMMA WholeSequence ==
  ASSUME NEW T, NEW s \in Seq(T)
  PROVE  SubSeq(s, 1, Len(s)) = s
  <1> DEFINE whole == SubSeq(s, 1, Len(s))
  <1>1. Len(s) \in Nat /\ 1 \in 1..Len(s)+1 /\ Len(s) - 1 + 1 = Len(s) /\ \A n \in Nat : 1 + n - 1 = n
    OBVIOUS
  <1>2. whole \in Seq(T) /\ Len(whole) = Len(s) /\ \A n \in 1..Len(s) : whole[n] = s[n]
    BY <1>1, TailOfArguments
  <1> HIDE DEF whole
  <1>3. whole = s
    BY <1>2, SeqEqual
  <1>4. QED
    BY <1>3 DEF whole

\* A number that is an int is kept as it is.
LEMMA IntsKept ==
  ASSUME NEW n \in 0..INT_MAX
  PROVE  AsInt(Clamped(n)) = n
  <1>1. INT_MAX \in Nat /\ LONG_MAX \in Nat /\ INT_MAX <= LONG_MAX
    BY LimitsAssumption
  <1>2. Clamped(n) = n
    BY <1>1 DEF Clamped, LONG_MIN
  <1>3. ASSUME NEW a \in Nat, NEW b \in Nat, a < b PROVE a % b = a
    BY <1>3
  <1>4. n - INT_MIN \in Nat /\ 2 * (INT_MAX + 1) \in Nat /\ n - INT_MIN < 2 * (INT_MAX + 1)
    BY <1>1 DEF INT_MIN
  <1>5. (n - INT_MIN) % (2 * (INT_MAX + 1)) = n - INT_MIN
    BY <1>3, <1>4
  <1>6. QED
    BY <1>1, <1>2, <1>5 DEF AsInt, INT_MIN

LEMMA ParseInteger ==
  ASSUME NEW T, NEW s \in Seq(T)
  PROVE  /\ IsNumber(s) => /\ Number(s) \in Nat
                           /\ Number(s) > INT_MAX \/ parse_integer(s) = Number(s)
         /\ ~IsNumber(s) => parse_integer(s) = -1
  <1> DEFINE end == AfterDigits(s, 1)
  <1>1. Len(s) \in Nat /\ DOMAIN s = 1..Len(s) /\ (s = <<>> <=> Len(s) = 0) /\ 1 \in 1..Len(s)+1
    BY EmptySeq
  <1>2. /\ end \in 1..Len(s)+1
        /\ \A q \in 1..end-1 : q \in 1..Len(s) /\ s[q] \in Digit
        /\ end <= Len(s) => s[end] \notin Digit
    BY <1>1, AfterDigitsProperties
  <1>3. parse_integer(s) = IF s = <<>> \/ s[1] \notin Digit \/ end <= Len(s) THEN -1
                           ELSE AsInt(Clamped(Number(s)))
    BY DEF parse_integer
  <1> HIDE DEF end
  <1>4. CASE IsNumber(s)
    <2>1. s # <<>> /\ \A n \in 1..Len(s) : s[n] \in Digit
      BY <1>1, <1>4 DEF IsNumber
    <2>2. s[1] \in Digit /\ ~(end <= Len(s))
      BY <1>1, <1>2, <2>1
    <2>3. s \in Seq(Digit)
      BY <2>1
    <2>4. Number(s) \in Nat /\ parse_integer(s) = AsInt(Clamped(Number(s)))
      BY <1>3, <2>1, <2>2, <2>3, NumberType
    <2>5. Number(s) > INT_MAX \/ Number(s) \in 0..INT_MAX
      BY <2>4, LimitsAssumption
    <2>6. QED
      BY <1>4, <2>4, <2>5, IntsKept, Zenon
  <1>5. CASE ~IsNumber(s)
    <2>1. s = <<>> \/ \E n \in 1..Len(s) : s[n] \notin Digit
      BY <1>1, <1>5 DEF IsNumber
    <2>2. ASSUME NEW n \in 1..Len(s), s[n] \notin Digit PROVE end <= Len(s)
      <3>1. ~(n \in 1..end-1)
        BY <1>2, <2>2
      <3>2. QED
        BY <1>1, <1>2, <3>1
    <2>3. QED
      BY <1>3, <1>5, <2>1, <2>2
  <1>6. QED
    BY <1>4, <1>5

\* Every text is one of the forms and means what it says, or is refused.
LEMMA ParseEndpoint ==
  ASSUME NEW T, NEW s \in Seq(T), ~PortTooLarge(s)
  PROVE  LET parsed == parse_endpoint(s, DefaultHost, DefaultPort)
         IN  IF parsed.success THEN {<<parsed.hostname, parsed.port>>} = Meanings(s)
             ELSE Meanings(s) = {}
  <1> DEFINE colons == {n \in DOMAIN s : s[n] = ":"}
             colon == Min(colons)
             Rest(n) == SubSeq(s, n + 1, Len(s))
             Port(n) == IF n = Len(s) THEN DefaultPort ELSE Number(Rest(n))
             Good(n) == n = Len(s) \/ IsNumber(Rest(n))
             nothing == IF s = <<>> THEN {<<DefaultHost, DefaultPort>>} ELSE {}
             number == IF IsNumber(s) THEN {<<DefaultHost, Number(s)>>} ELSE {}
             name == IF s # <<>> /\ ~IsNumber(s) /\ \A n \in DOMAIN s : s[n] # ":"
                     THEN {<<s, DefaultPort>>} ELSE {}
             firsts == {n \in DOMAIN s : s[n] = ":" /\ (\A m \in 1..n - 1 : s[m] # ":") /\ Good(n)}
             both == {<<SubSeq(s, 1, n - 1), Port(n)>> : n \in firsts}
             parsed == parse_endpoint(s, DefaultHost, DefaultPort)
  <1>1. Meanings(s) = nothing \cup number \cup name \cup both
    BY DEF Meanings
  <1>2. Len(s) \in Nat /\ DOMAIN s = 1..Len(s) /\ (s = <<>> <=> Len(s) = 0)
    BY EmptySeq
  <1> SUFFICES IF parsed.success THEN {<<parsed.hostname, parsed.port>>} = Meanings(s)
               ELSE Meanings(s) = {}
    OBVIOUS
  <1>3. CASE colons = {}
    <2>0. IsNumber(s) => ~(Number(s) > INT_MAX)
      <3>1. 0 \in 0..Len(s) /\ ~(0 > 0) /\ 0 + 1 = 1
        BY <1>2
      <3>2. SubSeq(s, 1, Len(s)) = s
        BY WholeSequence
      <3>3. QED
        BY <3>1, <3>2 DEF PortTooLarge
    <2> DEFINE port == parse_integer(s)
    <2>1. /\ parsed.success = TRUE
          /\ parsed.hostname = IF port >= 0 \/ s = <<>> THEN DefaultHost ELSE s
          /\ parsed.port = IF port >= 0 THEN port ELSE DefaultPort
      BY <1>3 DEF parse_endpoint
    <2>2. both = {}
      BY <1>3
    <2>3. \A n \in DOMAIN s : s[n] # ":"
      BY <1>3
    <2> HIDE DEF parsed, both, port
    <2>4. CASE s = <<>>
      <3>1. ~IsNumber(s)
        BY <2>4 DEF IsNumber
      <3>2. port = -1
        BY <3>1, ParseInteger DEF port
      <3>3. nothing = {<<DefaultHost, DefaultPort>>} /\ number = {} /\ name = {}
        BY <2>4, <3>1
      <3>4. ~(port >= 0)
        BY <3>2
      <3> HIDE DEF nothing, number, name
      <3>5. QED
        BY <1>1, <2>1, <2>2, <2>4, <3>3, <3>4
    <2>5. CASE IsNumber(s)
      <3>1. port = Number(s) /\ Number(s) \in Nat
        BY <2>0, <2>5, ParseInteger DEF port
      <3>2. s # <<>>
        BY <2>5 DEF IsNumber
      <3>3. nothing = {} /\ number = {<<DefaultHost, Number(s)>>} /\ name = {}
        BY <2>5, <3>2
      <3>4. port >= 0
        BY <3>1
      <3> HIDE DEF nothing, number, name
      <3>5. QED
        BY <1>1, <2>1, <2>2, <3>1, <3>3, <3>4
    <2>6. CASE s # <<>> /\ ~IsNumber(s)
      <3>1. port = -1
        BY <2>6, ParseInteger DEF port
      <3>2. nothing = {} /\ number = {} /\ name = {<<s, DefaultPort>>}
        BY <2>3, <2>6
      <3>3. ~(port >= 0)
        BY <3>1
      <3> HIDE DEF nothing, number, name
      <3>4. QED
        BY <1>1, <2>1, <2>2, <2>6, <3>2, <3>3
    <2>7. QED
      BY <2>4, <2>5, <2>6
  <1>4. CASE colons # {}
    <2> DEFINE after == Rest(colon)
               port == parse_integer(after)
    <2>1. colon \in colons /\ \A n \in colons : colon <= n
      <3>1. colons \in SUBSET Nat
        BY <1>2
      <3>2. QED
        BY <1>4, <3>1, MinProperties
    <2>2. /\ parsed.success = (after = <<>> \/ port >= 0)
          /\ parsed.hostname = SubSeq(s, 1, colon - 1)
          /\ parsed.port = IF port >= 0 THEN port ELSE DefaultPort
      BY <1>4 DEF parse_endpoint
    <2> HIDE DEF colon, parsed
    <2>3. colon \in 1..Len(s) /\ s[colon] = ":"
      BY <1>2, <2>1
    <2>4. nothing = {} /\ number = {} /\ name = {}
      <3>1. s # <<>>
        BY <1>2, <2>3
      <3>2. ~IsNumber(s)
        BY <1>2, <2>3 DEF IsNumber, Digit
      <3>3. QED
        BY <1>2, <2>3, <3>1, <3>2
    <2>5. firsts = {n \in {colon} : Good(n)}
      <3>1. ASSUME NEW n \in firsts PROVE n = colon
        <4>1. n \in colons /\ \A m \in 1..n-1 : s[m] # ":"
          OBVIOUS
        <4>2. colon <= n /\ ~(colon \in 1..n-1)
          BY <2>1, <2>3, <4>1
        <4>3. QED
          BY <1>2, <2>3, <4>1, <4>2
      <3>2. \A m \in 1..colon-1 : s[m] # ":"
        <4>1. ASSUME NEW m \in 1..colon-1, s[m] = ":" PROVE FALSE
          <5>1. m \in colons
            BY <1>2, <2>3, <4>1
          <5>2. QED
            BY <2>1, <2>3, <5>1
        <4>2. QED
          BY <4>1
      <3> HIDE DEF Good
      <3>3. QED
        BY <1>2, <2>3, <3>1, <3>2
    <2>6. after \in Seq(T) /\ Len(after) = Len(s) - colon /\ (after = <<>> <=> colon = Len(s))
      <3>1. colon + 1 \in 1..Len(s)+1
        BY <1>2, <2>3
      <3>2. after \in Seq(T) /\ Len(after) = Len(s) - (colon + 1) + 1
        BY <3>1, TailOfArguments
      <3>3. after = <<>> <=> Len(after) = 0
        BY <3>2, EmptySeq
      <3> DEFINE n == Len(after)
      <3>4. n = Len(s) - (colon + 1) + 1
        BY <3>2
      <3> HIDE DEF after, n
      <3>5. n = Len(s) - colon /\ (n = 0 <=> colon = Len(s))
        BY <1>2, <2>3, <3>4
      <3>6. QED
        BY <3>2, <3>3, <3>5, Zenon DEF n
    <2>7. IsNumber(after) => ~(Number(after) > INT_MAX)
      <3>1. \A m \in 1..colon-1 : s[m] # ":"
        <4>1. ASSUME NEW m \in 1..colon-1, s[m] = ":" PROVE FALSE
          <5>1. m \in colons
            BY <1>2, <2>3, <4>1
          <5>2. QED
            BY <2>1, <2>3, <5>1
        <4>2. QED
          BY <4>1
      <3>2. colon \in 0..Len(s)
        BY <1>2, <2>3
      <3>3. QED
        BY <2>3, <3>1, <3>2, Zenon DEF PortTooLarge
    <2> HIDE DEF after
    <2>8. /\ IsNumber(after) => port = Number(after) /\ Number(after) \in Nat
          /\ ~IsNumber(after) => port = -1
      BY <2>6, <2>7, ParseInteger
    <2> HIDE DEF port
    <2>9. port >= 0 <=> IsNumber(after)
      BY <2>8
    <2>10. after = <<>> => ~IsNumber(after)
      BY DEF IsNumber
    <2>11. Good(colon) <=> after = <<>> \/ IsNumber(after)
      BY <2>6 DEF after
    <2>12. Port(colon) = IF after = <<>> THEN DefaultPort ELSE Number(after)
      BY <2>6 DEF after
    <2>13. both = IF Good(colon) THEN {<<SubSeq(s, 1, colon - 1), Port(colon)>>} ELSE {}
      <3> HIDE DEF Good, Port, firsts
      <3>1. QED
        BY <2>5
    <2> HIDE DEF nothing, number, name, both, Good, Port
    <2>14. Meanings(s) = both
      BY <1>1, <2>4
    <2>15. parsed.success <=> Good(colon)
      BY <2>2, <2>9, <2>11
    <2>16. Good(colon) => parsed.port = Port(colon)
      BY <2>2, <2>8, <2>9, <2>10, <2>11, <2>12
    <2>17. QED
      BY <2>2, <2>13, <2>14, <2>15, <2>16, Zenon
  <1>5. QED
    BY <1>3, <1>4

-----------------------------------------------------------------------------
(* The states of the parsing *)

ArgumentType == [word : STRING \cup {""}, text : Seq(STRING)]

CopyType == [source : ArgumentType, destination : ArgumentType]

ParametersType ==
  [m_command : Commands \cup {"unspecified"},
   m_endpoints : [Flags \cup {"worker"} -> ArgumentType],
   m_proxy_endpoints : Seq(ArgumentType), m_in_copies : Seq(CopyType), m_out_copies : Seq(CopyType),
   m_frames : ArgumentType, m_executable : ArgumentType, m_arguments : Seq(ArgumentType)]

TypeOK ==
  /\ given \in Seq(ArgumentType)
  /\ args \in Seq(ArgumentType)
  /\ pc \in {"command", "flags", "rest", "done"}
  /\ status \in 0..2
  /\ parameters \in ParametersType

\* What a step may find.
LEMMA NoneType == None \in ArgumentType
  <1>1. <<>> \in Seq(STRING)
    BY EmptySeq
  <1>2. QED
    BY <1>1 DEF None, Argument, ArgumentType

LEMMA InitTypeOK == Init => TypeOK
  <1>1. SUFFICES ASSUME Init PROVE TypeOK
    OBVIOUS
  <1>2. given \in Seq(ArgumentType)
    <2>1. given \in Seq([word : STRING, text : Seq(STRING)])
      BY <1>1, CommandLinesAssumption DEF Init
    <2>2. [word : STRING, text : Seq(STRING)] \subseteq ArgumentType
      BY DEF ArgumentType
    <2> HIDE DEF ArgumentType
    <2>3. QED
      BY <2>1, <2>2, SeqMonotonic
  <1>3. parameters \in ParametersType
    <2>1. <<>> \in Seq(ArgumentType) /\ <<>> \in Seq(CopyType)
      BY EmptySeq
    <2>2. QED
      BY <1>1, <2>1, NoneType DEF Init, Unset, ParametersType
  <1>4. QED
    BY <1>1, <1>2, <1>3 DEF Init, TypeOK

LEMMA NextTypeOK == TypeOK /\ [Next]_vars => TypeOK'
  <1> SUFFICES ASSUME TypeOK, [Next]_vars PROVE TypeOK'
    OBVIOUS
  <1>1. /\ given \in Seq(ArgumentType) /\ args \in Seq(ArgumentType)
        /\ pc \in {"command", "flags", "rest", "done"} /\ status \in 0..2
        /\ parameters \in ParametersType
    BY DEF TypeOK
  <1>2. /\ Len(args) \in Nat /\ <<>> \in Seq(ArgumentType)
        /\ \A i \in 1..Len(args) : args[i] \in ArgumentType
        /\ \A k \in 1..Len(args)+1 : SubSeq(args, k, Len(args)) \in Seq(ArgumentType)
    BY <1>1, TailOfArguments, EmptySeq
  <1>3. ASSUME NEW code \in 0..2, Return(code) PROVE TypeOK'
    BY <1>1, <1>3 DEF Return, TypeOK
  <1>4. ASSUME NEW members \in ParametersType, NEW left \in Seq(ArgumentType),
               NEW label \in {"flags", "rest", "done"}, Set(members, left, label)
        PROVE  TypeOK'
    BY <1>1, <1>4 DEF Set, TypeOK
  <1>5. CASE Command
    <2>1. CASE args = <<>> \/ args[1].word = "help"
      BY <1>3, <1>5, <2>1 DEF Command
    <2>2. CASE args # <<>> /\ args[1].word # "help" /\ args[1].word \notin Commands
      BY <1>3, <1>5, <2>2 DEF Command
    <2>3. CASE args # <<>> /\ args[1].word # "help" /\ args[1].word \in Commands
      <3>1. Set([parameters EXCEPT !.m_command = args[1].word], Tail(args), "flags")
        BY <1>5, <2>3 DEF Command
      <3>2. Tail(args) \in Seq(ArgumentType)
        BY <1>1, <2>3
      <3>3. [parameters EXCEPT !.m_command = args[1].word] \in ParametersType
        BY <1>1, <2>3 DEF ParametersType
      <3>4. QED
        BY <1>4, <3>1, <3>2, <3>3
    <2>4. QED
      BY <2>1, <2>2, <2>3
  <1>6. CASE FlagFails
    BY <1>3, <1>6 DEF FlagFails
  <1>7. ASSUME NEW flag \in {"--in", "--out"}, CopyFlag(flag)
        PROVE  TypeOK'
    <2> DEFINE copy == [source |-> args[2], destination |-> args[3]]
               members == IF flag = "--in"
                          THEN [parameters EXCEPT !.m_in_copies = Append(@, copy)]
                          ELSE [parameters EXCEPT !.m_out_copies = Append(@, copy)]
               left == SubSeq(args, 4, Len(args))
    <2>1. Len(args) >= 3
      BY <1>7 DEF CopyFlag
    <2>2. copy \in CopyType /\ left \in Seq(ArgumentType)
      BY <1>2, <2>1 DEF CopyType
    <2>3. members \in ParametersType
      <3> DEFINE ins == Append(parameters.m_in_copies, copy)
                 outs == Append(parameters.m_out_copies, copy)
      <3>1. /\ ins \in Seq(CopyType) /\ outs \in Seq(CopyType)
        BY <1>1, <2>2 DEF ParametersType
      <3>2. members = IF flag = "--in" THEN [parameters EXCEPT !.m_in_copies = ins]
                      ELSE [parameters EXCEPT !.m_out_copies = outs]
        BY <1>1 DEF ParametersType
      <3> HIDE DEF ins, outs, members
      <3>3. QED
        BY <1>1, <3>1, <3>2 DEF ParametersType
    <2>4. Return(1) \/ Set(members, left, "flags")
      BY <1>7 DEF CopyFlag
    <2> HIDE DEF members, left
    <2>5. QED
      BY <1>3, <1>4, <2>2, <2>3, <2>4
  <1>8. ASSUME NEW flag \in Flags \ {"--in", "--out"}, EndpointFlag(flag)
        PROVE  TypeOK'
    <2> DEFINE members == IF flag = "--proxy"
                          THEN [parameters EXCEPT !.m_proxy_endpoints = Append(@, args[2])]
                          ELSE [parameters EXCEPT !.m_endpoints[flag] = args[2]]
               left == SubSeq(args, 3, Len(args))
    <2>1. Len(args) >= 2
      BY <1>8 DEF EndpointFlag
    <2>2. args[2] \in ArgumentType /\ left \in Seq(ArgumentType)
      BY <1>2, <2>1
    <2>3. members \in ParametersType
      <3> DEFINE proxies == Append(parameters.m_proxy_endpoints, args[2])
                 points == [parameters.m_endpoints EXCEPT ![flag] = args[2]]
      <3>1. /\ proxies \in Seq(ArgumentType)
            /\ points \in [Flags \cup {"worker"} -> ArgumentType]
        BY <1>1, <2>2 DEF ParametersType
      <3>2. members = IF flag = "--proxy" THEN [parameters EXCEPT !.m_proxy_endpoints = proxies]
                      ELSE [parameters EXCEPT !.m_endpoints = points]
        BY <1>1 DEF ParametersType
      <3> HIDE DEF proxies, points, members
      <3>3. QED
        BY <1>1, <3>1, <3>2 DEF ParametersType
    <2>4. Set(members, left, "flags")
      BY <1>8 DEF EndpointFlag
    <2> HIDE DEF members, left
    <2>5. QED
      BY <1>4, <2>2, <2>3, <2>4
  <1>9. CASE EndOfFlags
    BY <1>1, <1>4, <1>9 DEF EndOfFlags
  <1>10. CASE WorkerRest
    <2> DEFINE members == [parameters EXCEPT !.m_endpoints["worker"] = args[1]]
    <2>1. CASE Len(args) # 1
      BY <1>3, <1>10, <2>1 DEF WorkerRest
    <2>2. CASE Len(args) = 1
      <3>1. Set(members, <<>>, "done")
        BY <1>10, <2>2 DEF WorkerRest
      <3>2. members \in ParametersType
        <4> DEFINE points == [parameters.m_endpoints EXCEPT !["worker"] = args[1]]
        <4>1. args[1] \in ArgumentType
          BY <1>2, <2>2
        <4>2. points \in [Flags \cup {"worker"} -> ArgumentType]
          BY <1>1, <4>1 DEF ParametersType
        <4>3. members = [parameters EXCEPT !.m_endpoints = points]
          BY <1>1 DEF ParametersType
        <4> HIDE DEF points, members
        <4>4. QED
          BY <1>1, <4>2, <4>3 DEF ParametersType
      <3> HIDE DEF members
      <3>3. QED
        BY <1>2, <1>4, <3>1, <3>2
    <2>3. QED
      BY <2>1, <2>2
  <1>11. CASE NothingRest
    BY <1>3, <1>11 DEF NothingRest
  <1>12. CASE ControllerRest
    <2> DEFINE members == [parameters EXCEPT !.m_frames = args[1], !.m_executable = args[2],
                                             !.m_arguments = TheRest]
               Fails == Len(args) < 2 \/ ~IsRange(args[1]) \/ ~IsLocal(args[2])
    <2>1. CASE Fails
      BY <1>3, <1>12, <2>1 DEF ControllerRest
    <2>2. CASE ~Fails
      <3>1. Set(members, <<>>, "done") /\ Len(args) >= 2
        BY <1>2, <1>12, <2>2 DEF ControllerRest
      <3>2. TheRest \in Seq(ArgumentType)
        BY <1>2, <3>1 DEF TheRest
      <3>3. members \in ParametersType
        <4> DEFINE first == args[1]
                   second == args[2]
        <4>1. first \in ArgumentType /\ second \in ArgumentType
          BY <1>2, <3>1
        <4>2. members = [parameters EXCEPT !.m_frames = first, !.m_executable = second,
                                           !.m_arguments = TheRest]
          OBVIOUS
        <4> HIDE DEF first, second, members
        <4>3. QED
          BY <1>1, <3>2, <4>1, <4>2 DEF ParametersType
      <3> HIDE DEF members
      <3>4. QED
        BY <1>2, <1>4, <3>1, <3>3
    <2>3. QED
      BY <2>1, <2>2
  <1>13. CASE UNCHANGED vars
    BY <1>13 DEF vars, TypeOK
  <1>14. QED
    BY <1>5, <1>6, <1>7, <1>8, <1>9, <1>10, <1>11, <1>12, <1>13 DEF Next

\* What is left of the arguments is the end of those given.
Left(g, a) == Len(a) <= Len(g) /\ a = SubSeq(g, Len(g) - Len(a) + 1, Len(g))

LEMMA LeftOfLeft ==
  ASSUME NEW g \in Seq(ArgumentType), NEW a \in Seq(ArgumentType), Left(g, a),
         NEW k \in 1..Len(a)+1
  PROVE  /\ Left(g, SubSeq(a, k, Len(a)))
         /\ Len(SubSeq(a, k, Len(a))) = Len(a) - k + 1
         /\ \A n \in 1..Len(a) : a[n] = g[Len(g) - Len(a) + n]
  <1> DEFINE p == Len(g) - Len(a) + 1
             b == SubSeq(a, k, Len(a))
  <1>1. Len(g) \in Nat /\ Len(a) \in Nat /\ Len(a) <= Len(g) /\ a = SubSeq(g, p, Len(g))
    BY DEF Left
  <1>2. p \in 1..Len(g)+1 /\ Len(a) = Len(g) - p + 1
    BY <1>1
  <1>3. Len(b) = Len(a) - k + 1
    BY TailOfArguments
  <1>4. \A n \in 1..Len(g)-p+1 : SubSeq(g, p, Len(g))[n] = g[p + n - 1]
    BY <1>2, TailOfArguments
  <1>5. \A n \in 1..Len(a) : a[n] = g[Len(g) - Len(a) + n]
    <2>1. ASSUME NEW n \in 1..Len(a) PROVE a[n] = g[Len(g) - Len(a) + n]
      <3>1. n \in 1..Len(g)-p+1 /\ p + n - 1 = Len(g) - Len(a) + n
        BY <1>1
      <3>2. SubSeq(g, p, Len(g))[n] = g[p + n - 1]
        BY <1>4, <3>1
      <3>3. QED
        BY <1>1, <3>1, <3>2
    <2>2. QED
      BY <2>1
  <1>6. b = SubSeq(g, Len(g) - Len(b) + 1, Len(g))
    <2>1. /\ k \in 1..Len(g) - p + 2 /\ Len(a) \in k-1..Len(g) - p + 1
          /\ p + k - 1 = Len(g) - Len(b) + 1 /\ p + Len(a) - 1 = Len(g)
      BY <1>1, <1>2, <1>3
    <2>2. SubSeq(SubSeq(g, p, Len(g)), k, Len(a)) = SubSeq(g, p + k - 1, p + Len(a) - 1)
      BY <1>2, <2>1, PartOfRest
    <2>3. QED
      BY <1>1, <2>1, <2>2
  <1>7. Len(b) <= Len(g)
    BY <1>1, <1>3
  <1>8. QED
    BY <1>3, <1>5, <1>6, <1>7 DEF Left

\* All and nothing.
LEMMA LeftExtremes ==
  ASSUME NEW g \in Seq(ArgumentType)
  PROVE  Left(g, g) /\ Left(g, <<>>)
  <1>1. Len(g) \in Nat
    OBVIOUS
  <1>2. Left(g, g)
    <2>1. Len(g) - Len(g) + 1 = 1
      BY <1>1
    <2>2. QED
      BY <1>1, <2>1, WholeSequence DEF Left
  <1>3. Left(g, <<>>)
    <2> DEFINE nothing == SubSeq(g, Len(g) + 1, Len(g))
    <2>1. Len(<<>>) = 0 /\ Len(g) - 0 + 1 = Len(g) + 1 /\ Len(g) + 1 \in 1..Len(g)+1
          /\ Len(g) - (Len(g) + 1) + 1 = 0
      BY <1>1, EmptySeq
    <2>2. nothing \in Seq(ArgumentType) /\ Len(nothing) = 0
      BY <2>1, TailOfArguments
    <2> HIDE DEF nothing
    <2>3. nothing = <<>>
      BY <2>2, EmptySeq
    <2>4. QED
      BY <1>1, <2>1, <2>3 DEF Left, nothing
  <1>4. QED
    BY <1>2, <1>3

\* An end of a sequence is a suffix.
LEMMA SuffixIntro ==
  ASSUME NEW T, NEW s \in Seq(T), NEW k \in 1..Len(s)+1
  PROVE  IsSuffix(SubSeq(s, k, Len(s)), s)
  <1> DEFINE e == SubSeq(s, k, Len(s))
  <1>1. /\ Len(s) \in Nat /\ e \in Seq(T) /\ Len(e) = Len(s) - k + 1
        /\ \A n \in 1..Len(e) : e[n] = s[k + n - 1]
    BY TailOfArguments
  <1> HIDE DEF e
  <1>2. ASSUME NEW t \in Seq(T)
        PROVE  /\ Reverse(t) \in Seq(T) /\ Len(Reverse(t)) = Len(t)
               /\ \A n \in 1..Len(t) : Reverse(t)[n] = t[Len(t) - n + 1]
    BY DEF Reverse
  <1>3. Reverse(e) \in Seq(T) /\ Reverse(s) \in Seq(T) /\ Len(Reverse(e)) <= Len(Reverse(s))
    BY <1>1, <1>2
  <1>4. ASSUME NEW n \in 1..Len(Reverse(e))
        PROVE  Reverse(e)[n] = Reverse(s)[n]
    <2>1. n \in 1..Len(e) /\ n \in 1..Len(s)
      BY <1>1, <1>2
    <2>2. Reverse(e)[n] = e[Len(e) - n + 1] /\ Reverse(s)[n] = s[Len(s) - n + 1]
      BY <1>1, <1>2, <2>1
    <2>3. Len(e) - n + 1 \in 1..Len(e) /\ k + (Len(e) - n + 1) - 1 = Len(s) - n + 1
      BY <1>1, <2>1
    <2>4. QED
      BY <1>1, <2>2, <2>3
  <1>5. IsPrefix(Reverse(e), Reverse(s))
    BY <1>3, <1>4, PrefixIntro
  <1>6. QED
    BY <1>5 DEF IsSuffix, e

\* What is left, and which command it is for.
ArgumentsInv ==
  /\ Left(given, args)
  /\ pc = "command" => args = given
  /\ pc \in {"flags", "rest"} \/ (pc = "done" /\ status = 0) =>
       Len(given) >= 1 /\ parameters.m_command = given[1].word

LocalInv ==
  /\ IsLocal(parameters.m_executable)
  /\ \A k \in DOMAIN parameters.m_in_copies : IsLocal(parameters.m_in_copies[k].destination)
  /\ \A k \in DOMAIN parameters.m_out_copies : IsLocal(parameters.m_out_copies[k].source)

ProgramInv ==
  pc = "done" /\ status = 0 /\ parameters.m_command = "controller" =>
    \E k \in 1..Len(given)+1 :
      <<parameters.m_frames, parameters.m_executable>> \o parameters.m_arguments
        = SubSeq(given, k, Len(given))

ParsingInv == TypeOK /\ ArgumentsInv /\ LocalInv /\ ProgramInv

LEMMA InitParsing == Init => ParsingInv
  <1>1. SUFFICES ASSUME Init PROVE ParsingInv
    OBVIOUS
  <1>2. TypeOK
    BY <1>1, InitTypeOK
  <1>3. ArgumentsInv
    <2>1. Left(given, given)
      BY <1>2, LeftExtremes DEF TypeOK
    <2>2. QED
      BY <1>1, <2>1 DEF Init, ArgumentsInv
  <1>4. LocalInv
    <2>1. is_pathname_local(<<>>)
      <3>1. Len(<<>>) = 0
        BY EmptySeq
      <3>2. QED
        BY <3>1 DEF is_pathname_local
    <2>2. /\ parameters.m_executable.text = <<>> /\ parameters.m_in_copies = <<>>
          /\ parameters.m_out_copies = <<>>
      BY <1>1 DEF Init, Unset, None, Argument
    <2>3. QED
      BY <2>1, <2>2 DEF LocalInv, IsLocal
  <1>5. ProgramInv
    BY <1>1 DEF Init, ProgramInv
  <1>6. QED
    BY <1>2, <1>3, <1>4, <1>5 DEF ParsingInv

LEMMA NextArguments == TypeOK /\ ArgumentsInv /\ [Next]_vars => ArgumentsInv'
  <1> SUFFICES ASSUME TypeOK, ArgumentsInv, [Next]_vars PROVE ArgumentsInv'
    OBVIOUS
  <1>1. /\ given \in Seq(ArgumentType) /\ args \in Seq(ArgumentType) /\ Left(given, args)
        /\ Len(args) \in Nat /\ parameters \in ParametersType /\ status \in 0..2
    BY DEF TypeOK, ArgumentsInv
  <1>2. /\ Left(given, <<>>)
        /\ \A k \in 1..Len(args)+1 : Left(given, SubSeq(args, k, Len(args)))
    BY <1>1, LeftOfLeft, LeftExtremes
  <1>3. ASSUME NEW code, Return(code),
               code = 0 => Len(given) >= 1 /\ parameters.m_command = given[1].word
        PROVE  ArgumentsInv'
    BY <1>1, <1>3 DEF Return, ArgumentsInv
  <1>4. ASSUME NEW members, NEW left, NEW label \in {"flags", "rest", "done"},
               Set(members, left, label), Left(given, left), Len(given) >= 1,
               members.m_command = given[1].word
        PROVE  ArgumentsInv'
    BY <1>4 DEF Set, ArgumentsInv
  <1>5. pc \in {"flags", "rest"} => Len(given) >= 1 /\ parameters.m_command = given[1].word
    BY DEF ArgumentsInv
  <1>6. CASE Command
    <2>1. CASE args = <<>> \/ args[1].word = "help"
      BY <1>3, <1>6, <2>1 DEF Command
    <2>2. CASE args # <<>> /\ args[1].word # "help" /\ args[1].word \notin Commands
      BY <1>3, <1>6, <2>2 DEF Command
    <2>3. CASE args # <<>> /\ args[1].word # "help" /\ args[1].word \in Commands
      <3> DEFINE members == [parameters EXCEPT !.m_command = args[1].word]
      <3>1. Set(members, Tail(args), "flags") /\ pc = "command"
        BY <1>6, <2>3 DEF Command
      <3>2. Tail(args) = SubSeq(args, 2, Len(args)) /\ Len(args) >= 1 /\ 2 \in 1..Len(args)+1
        <4>1. Len(args) >= 1
          BY <1>1, <2>3, EmptySeq
        <4>2. QED
          BY <1>1, <2>3, <4>1, TailIsSubSeq
      <3>3. Left(given, Tail(args))
        BY <1>2, <3>2
      <3>4. args = given /\ members.m_command = args[1].word
        BY <1>1, <3>1 DEF ArgumentsInv, ParametersType
      <3> HIDE DEF members
      <3>5. QED
        BY <1>4, <3>1, <3>2, <3>3, <3>4
    <2>4. QED
      BY <2>1, <2>2, <2>3
  <1>7. CASE FlagFails
    BY <1>3, <1>7 DEF FlagFails
  <1>8. ASSUME NEW flag \in {"--in", "--out"}, CopyFlag(flag)
        PROVE  ArgumentsInv'
    <2> DEFINE copy == [source |-> args[2], destination |-> args[3]]
               members == IF flag = "--in"
                          THEN [parameters EXCEPT !.m_in_copies = Append(@, copy)]
                          ELSE [parameters EXCEPT !.m_out_copies = Append(@, copy)]
    <2>1. Len(args) >= 3 /\ pc = "flags"
      BY <1>8 DEF CopyFlag, Accepted
    <2>2. members.m_command = parameters.m_command
      BY <1>1 DEF ParametersType
    <2>3. Return(1) \/ Set(members, SubSeq(args, 4, Len(args)), "flags")
      BY <1>8 DEF CopyFlag
    <2> HIDE DEF members
    <2>4. Left(given, SubSeq(args, 4, Len(args)))
      BY <1>1, <1>2, <2>1
    <2>5. QED
      BY <1>3, <1>4, <1>5, <2>1, <2>2, <2>3, <2>4
  <1>9. ASSUME NEW flag \in Flags \ {"--in", "--out"}, EndpointFlag(flag)
        PROVE  ArgumentsInv'
    <2> DEFINE members == IF flag = "--proxy"
                          THEN [parameters EXCEPT !.m_proxy_endpoints = Append(@, args[2])]
                          ELSE [parameters EXCEPT !.m_endpoints[flag] = args[2]]
    <2>1. Len(args) >= 2 /\ pc = "flags"
      BY <1>9 DEF EndpointFlag, Accepted
    <2>2. members.m_command = parameters.m_command
      BY <1>1 DEF ParametersType
    <2>3. Set(members, SubSeq(args, 3, Len(args)), "flags")
      BY <1>9 DEF EndpointFlag
    <2> HIDE DEF members
    <2>4. Left(given, SubSeq(args, 3, Len(args)))
      BY <1>1, <1>2, <2>1
    <2>5. QED
      BY <1>4, <1>5, <2>1, <2>2, <2>3, <2>4
  <1>10. CASE EndOfFlags
    BY <1>1, <1>4, <1>5, <1>10 DEF EndOfFlags
  <1>11. CASE WorkerRest
    <2> DEFINE members == [parameters EXCEPT !.m_endpoints["worker"] = args[1]]
    <2>1. pc = "rest" /\ (Return(1) \/ Set(members, <<>>, "done"))
      BY <1>11 DEF WorkerRest
    <2>2. members.m_command = parameters.m_command
      BY <1>1 DEF ParametersType
    <2> HIDE DEF members
    <2>3. QED
      BY <1>2, <1>3, <1>4, <1>5, <2>1, <2>2
  <1>12. CASE NothingRest
    <2>1. pc = "rest" /\ Return(IF args = <<>> THEN 0 ELSE 1)
      BY <1>12 DEF NothingRest
    <2>2. QED
      BY <1>3, <1>5, <2>1
  <1>13. CASE ControllerRest
    <2> DEFINE members == [parameters EXCEPT !.m_frames = args[1], !.m_executable = args[2],
                                             !.m_arguments = TheRest]
    <2>1. pc = "rest" /\ (Return(1) \/ Set(members, <<>>, "done"))
      BY <1>13 DEF ControllerRest
    <2>2. members.m_command = parameters.m_command
      BY <1>1 DEF ParametersType
    <2> HIDE DEF members
    <2>3. QED
      BY <1>2, <1>3, <1>4, <1>5, <2>1, <2>2
  <1>14. CASE UNCHANGED vars
    BY <1>14 DEF vars, ArgumentsInv
  <1>15. QED
    BY <1>6, <1>7, <1>8, <1>9, <1>10, <1>11, <1>12, <1>13, <1>14 DEF Next

LEMMA NextLocal == TypeOK /\ LocalInv /\ [Next]_vars => LocalInv'
  <1> SUFFICES ASSUME TypeOK, LocalInv, [Next]_vars PROVE LocalInv'
    OBVIOUS
  <1> DEFINE ins == parameters.m_in_copies
             outs == parameters.m_out_copies
             Keeps(members) == /\ members.m_in_copies = ins
                               /\ members.m_out_copies = outs
                               /\ members.m_executable = parameters.m_executable
  <1>1. /\ parameters \in ParametersType /\ ins \in Seq(CopyType) /\ outs \in Seq(CopyType)
        /\ IsLocal(parameters.m_executable)
        /\ \A k \in DOMAIN ins : IsLocal(ins[k].destination)
        /\ \A k \in DOMAIN outs : IsLocal(outs[k].source)
    BY DEF TypeOK, LocalInv, ParametersType
  <1>2. ASSUME Keeps(parameters') PROVE LocalInv'
    BY <1>1, <1>2 DEF LocalInv
  <1>3. ASSUME NEW code, Return(code) PROVE LocalInv'
    BY <1>2, <1>3 DEF Return
  <1>4. ASSUME NEW members, NEW left, NEW label, Set(members, left, label), Keeps(members)
        PROVE  LocalInv'
    BY <1>2, <1>4 DEF Set
  <1>5. CASE Command
    <2> DEFINE members == [parameters EXCEPT !.m_command = args[1].word]
    <2>1. Return(2) \/ Return(1) \/ Set(members, Tail(args), "flags")
      BY <1>5 DEF Command
    <2>2. Keeps(members)
      BY <1>1 DEF ParametersType
    <2> HIDE DEF members, Keeps
    <2>3. QED
      BY <1>3, <1>4, <2>1, <2>2
  <1>6. CASE FlagFails
    BY <1>3, <1>6 DEF FlagFails
  <1>7. ASSUME NEW flag \in {"--in", "--out"}, CopyFlag(flag)
        PROVE  LocalInv'
    <2> DEFINE copy == [source |-> args[2], destination |-> args[3]]
               more == Append(ins, copy)
               less == Append(outs, copy)
    <2>1. CASE Return(1)
      BY <1>3, <2>1
    <2>2. ASSUME ~Return(1), flag = "--in"
          PROVE  LocalInv'
      <3>1. IsLocal(copy.destination) /\ copy \in CopyType
        <4>1. IsLocal(RemoteOf("--in", copy)) /\ Len(args) >= 3
          BY <1>7, <2>2 DEF CopyFlag
        <4>2. args[2] \in ArgumentType /\ args[3] \in ArgumentType
          BY <4>1 DEF TypeOK
        <4>3. QED
          BY <4>1, <4>2 DEF RemoteOf, CopyType
      <3>2. parameters' = [parameters EXCEPT !.m_in_copies = more]
        <4>1. parameters' = [parameters EXCEPT !.m_in_copies = Append(@, copy)]
          BY <1>7, <2>2 DEF CopyFlag, Set
        <4>2. QED
          BY <1>1, <4>1 DEF ParametersType
      <3> HIDE DEF copy
      <3>3. \A k \in DOMAIN more : IsLocal(more[k].destination)
        <4>1. /\ DOMAIN more = 1..Len(ins)+1 /\ DOMAIN ins = 1..Len(ins) /\ Len(ins) \in Nat
              /\ \A k \in 1..Len(ins)+1 : more[k] = IF k <= Len(ins) THEN ins[k] ELSE copy
          BY <1>1, <3>1, AppendProperties
        <4> HIDE DEF more
        <4>2. QED
          BY <1>1, <3>1, <4>1
      <3> HIDE DEF more
      <3>4. /\ parameters'.m_in_copies = more /\ parameters'.m_out_copies = outs
            /\ parameters'.m_executable = parameters.m_executable
        BY <1>1, <3>2 DEF ParametersType
      <3>5. QED
        BY <1>1, <3>3, <3>4 DEF LocalInv
    <2>3. ASSUME ~Return(1), flag = "--out"
          PROVE  LocalInv'
      <3>1. IsLocal(copy.source) /\ copy \in CopyType
        <4>1. IsLocal(RemoteOf("--out", copy)) /\ Len(args) >= 3
          BY <1>7, <2>3 DEF CopyFlag
        <4>2. args[2] \in ArgumentType /\ args[3] \in ArgumentType
          BY <4>1 DEF TypeOK
        <4>3. QED
          BY <4>1, <4>2 DEF RemoteOf, CopyType
      <3>2. parameters' = [parameters EXCEPT !.m_out_copies = less]
        <4>1. parameters' = [parameters EXCEPT !.m_out_copies = Append(@, copy)]
          BY <1>7, <2>3 DEF CopyFlag, Set
        <4>2. QED
          BY <1>1, <4>1 DEF ParametersType
      <3> HIDE DEF copy
      <3>3. \A k \in DOMAIN less : IsLocal(less[k].source)
        <4>1. /\ DOMAIN less = 1..Len(outs)+1 /\ DOMAIN outs = 1..Len(outs) /\ Len(outs) \in Nat
              /\ \A k \in 1..Len(outs)+1 : less[k] = IF k <= Len(outs) THEN outs[k] ELSE copy
          BY <1>1, <3>1, AppendProperties
        <4> HIDE DEF less
        <4>2. QED
          BY <1>1, <3>1, <4>1
      <3> HIDE DEF less
      <3>4. /\ parameters'.m_in_copies = ins /\ parameters'.m_out_copies = less
            /\ parameters'.m_executable = parameters.m_executable
        BY <1>1, <3>2 DEF ParametersType
      <3>5. QED
        BY <1>1, <3>3, <3>4 DEF LocalInv
    <2>4. QED
      BY <2>1, <2>2, <2>3
  <1>8. ASSUME NEW flag \in Flags \ {"--in", "--out"}, EndpointFlag(flag)
        PROVE  LocalInv'
    <2> DEFINE members == IF flag = "--proxy"
                          THEN [parameters EXCEPT !.m_proxy_endpoints = Append(@, args[2])]
                          ELSE [parameters EXCEPT !.m_endpoints[flag] = args[2]]
    <2>1. Set(members, SubSeq(args, 3, Len(args)), "flags")
      BY <1>8 DEF EndpointFlag
    <2>2. Keeps(members)
      BY <1>1 DEF ParametersType
    <2> HIDE DEF members, Keeps
    <2>3. QED
      BY <1>4, <2>1, <2>2
  <1>9. CASE EndOfFlags
    BY <1>4, <1>9 DEF EndOfFlags
  <1>10. CASE WorkerRest
    <2> DEFINE members == [parameters EXCEPT !.m_endpoints["worker"] = args[1]]
    <2>1. Return(1) \/ Set(members, <<>>, "done")
      BY <1>10 DEF WorkerRest
    <2>2. Keeps(members)
      BY <1>1 DEF ParametersType
    <2> HIDE DEF members, Keeps
    <2>3. QED
      BY <1>3, <1>4, <2>1, <2>2
  <1>11. CASE NothingRest
    BY <1>3, <1>11 DEF NothingRest
  <1>12. CASE ControllerRest
    <2> DEFINE members == [parameters EXCEPT !.m_frames = args[1], !.m_executable = args[2],
                                             !.m_arguments = TheRest]
    <2>1. CASE Return(1)
      BY <1>3, <2>1
    <2>2. CASE ~Return(1)
      <3>1. parameters' = members /\ IsLocal(args[2])
        BY <1>12, <2>2 DEF ControllerRest, Set
      <3>2. /\ members.m_in_copies = ins /\ members.m_out_copies = outs
            /\ members.m_executable = args[2]
        BY <1>1 DEF ParametersType
      <3> HIDE DEF members
      <3>3. QED
        BY <1>1, <3>1, <3>2 DEF LocalInv
    <2>3. QED
      BY <2>1, <2>2
  <1>13. CASE UNCHANGED vars
    BY <1>2, <1>13 DEF vars
  <1>14. QED
    BY <1>5, <1>6, <1>7, <1>8, <1>9, <1>10, <1>11, <1>12, <1>13 DEF Next

LEMMA NextProgram ==
  TypeOK /\ ArgumentsInv /\ ProgramInv /\ [Next]_vars => ProgramInv'
  <1> SUFFICES ASSUME TypeOK, ArgumentsInv, ProgramInv, [Next]_vars PROVE ProgramInv'
    OBVIOUS
  <1>1. /\ parameters \in ParametersType /\ given \in Seq(ArgumentType) /\ args \in Seq(ArgumentType)
        /\ Left(given, args)
    BY DEF TypeOK, ArgumentsInv
  <1>2. ASSUME NEW code \in {1, 2}, Return(code) PROVE ProgramInv'
    BY <1>2 DEF Return, ProgramInv
  <1>3. ASSUME NEW members, NEW left, NEW label \in {"flags", "rest"}, Set(members, left, label)
        PROVE  ProgramInv'
    BY <1>3 DEF Set, ProgramInv
  <1>4. CASE Command
    BY <1>2, <1>3, <1>4 DEF Command
  <1>5. CASE FlagFails
    BY <1>2, <1>5 DEF FlagFails
  <1>6. ASSUME NEW flag \in {"--in", "--out"}, CopyFlag(flag)
        PROVE  ProgramInv'
    BY <1>2, <1>3, <1>6 DEF CopyFlag
  <1>7. ASSUME NEW flag \in Flags \ {"--in", "--out"}, EndpointFlag(flag)
        PROVE  ProgramInv'
    BY <1>3, <1>7 DEF EndpointFlag
  <1>8. CASE EndOfFlags
    BY <1>3, <1>8 DEF EndOfFlags
  <1>9. CASE WorkerRest
    <2> DEFINE members == [parameters EXCEPT !.m_endpoints["worker"] = args[1]]
    <2>1. parameters.m_command = "worker" /\ (Return(1) \/ Set(members, <<>>, "done"))
      BY <1>9 DEF WorkerRest
    <2>2. members.m_command = parameters.m_command
      BY <1>1 DEF ParametersType
    <2> HIDE DEF members
    <2>3. QED
      BY <1>2, <2>1, <2>2 DEF Set, ProgramInv
  <1>10. CASE NothingRest
    BY <1>10 DEF NothingRest, Return, ProgramInv
  <1>11. CASE ControllerRest
    <2> DEFINE members == [parameters EXCEPT !.m_frames = args[1], !.m_executable = args[2],
                                             !.m_arguments = TheRest]
               start == Len(given) - Len(args) + 1
    <2>1. CASE Return(1)
      BY <1>2, <2>1
    <2>2. CASE ~Return(1)
      <3>1. parameters' = members /\ given' = given /\ Len(args) >= 2
        BY <1>1, <1>11, <2>2 DEF ControllerRest, Set
      <3>2. /\ members.m_frames = args[1] /\ members.m_executable = args[2]
            /\ members.m_arguments = TheRest
        BY <1>1 DEF ParametersType
      <3>3. <<args[1], args[2]>> \o TheRest = args
        <4> DEFINE pair == <<args[1], args[2]>>
        <4>1. /\ pair \in Seq(ArgumentType) /\ Len(pair) = 2
              /\ pair[1] = args[1] /\ pair[2] = args[2]
          BY <1>1, <3>1
        <4>2. /\ TheRest \in Seq(ArgumentType) /\ Len(TheRest) = Len(args) - 2 /\ Len(args) \in Nat
              /\ \A n \in 1..Len(args)-2 : TheRest[n] = args[n + 2]
          <5>1. 3 \in 1..Len(args)+1
            BY <1>1, <3>1
          <5>2. /\ TheRest \in Seq(ArgumentType) /\ Len(TheRest) = Len(args) - 3 + 1
                /\ \A n \in 1..Len(args)-3+1 : TheRest[n] = args[3 + n - 1]
            BY <1>1, <5>1, TailOfArguments DEF TheRest
          <5>3. QED
            BY <1>1, <5>2
        <4> HIDE DEF pair
        <4> DEFINE both == pair \o TheRest
        <4>3. /\ both \in Seq(ArgumentType) /\ Len(both) = Len(pair) + Len(TheRest)
              /\ \A n \in 1..Len(pair)+Len(TheRest) :
                   both[n] = IF n <= Len(pair) THEN pair[n] ELSE TheRest[n - Len(pair)]
          <5>1. pair \in Seq(ArgumentType) /\ TheRest \in Seq(ArgumentType)
            BY <4>1, <4>2
          <5>2. QED
            BY <5>1, ConcatProperties
        <4> HIDE DEF both
        <4>4. ASSUME NEW n \in 1..Len(both)
              PROVE  both[n] = args[n]
          <5>1. CASE n <= 2
            <6>1. n = 1 \/ n = 2
              BY <5>1
            <6>2. QED
              BY <3>1, <4>1, <4>2, <4>3, <6>1
          <5>2. CASE ~(n <= 2)
            <6>1. n - 2 \in 1..Len(args)-2 /\ (n - 2) + 2 = n
              BY <4>1, <4>2, <4>3, <5>2
            <6>2. TheRest[n - 2] = args[n]
              BY <4>2, <6>1
            <6>3. QED
              BY <4>1, <4>3, <5>2, <6>2
          <5>3. QED
            BY <5>1, <5>2
        <4>5. both = args
          BY <1>1, <4>1, <4>2, <4>3, <4>4, SeqEqual
        <4>6. QED
          BY <4>5 DEF both, pair
      <3>4. start \in 1..Len(given)+1 /\ args = SubSeq(given, start, Len(given))
        BY <1>1 DEF Left
      <3>5. <<parameters'.m_frames, parameters'.m_executable>> \o parameters'.m_arguments = args
        BY <3>1, <3>2, <3>3, Zenon
      <3> HIDE DEF start, members
      <3>6. QED
        BY <3>1, <3>4, <3>5 DEF ProgramInv
    <2>3. QED
      BY <2>1, <2>2
  <1>12. CASE UNCHANGED vars
    BY <1>12 DEF vars, ProgramInv
  <1>13. QED
    BY <1>4, <1>5, <1>6, <1>7, <1>8, <1>9, <1>10, <1>11, <1>12 DEF Next

\* The command line is read from left to right.
THEOREM Parsing == Spec => []ParsingInv
  <1>1. Init => ParsingInv
    BY InitParsing
  <1>2. ParsingInv /\ [Next]_vars => ParsingInv'
    BY NextTypeOK, NextArguments, NextLocal, NextProgram DEF ParsingInv
  <1>3. QED
    BY <1>1, <1>2, PTL DEF Spec

-----------------------------------------------------------------------------
(* What follows for the program, the workers and the frames *)

\* For every command line, the program gets what follows its name.
THEOREM RestOfCommandLine == Spec => []ProgramGetsRest
  <1>1. ParsingInv => ProgramGetsRest
    <2>1. SUFFICES ASSUME ParsingInv, Succeeded, parameters.m_command = "controller"
                   PROVE  IsSuffix(<<parameters.m_frames, parameters.m_executable>> \o
                                   parameters.m_arguments, given)
      BY DEF ProgramGetsRest
    <2>2. PICK k \in 1..Len(given)+1 :
            <<parameters.m_frames, parameters.m_executable>> \o parameters.m_arguments
              = SubSeq(given, k, Len(given))
      BY <2>1 DEF ParsingInv, ProgramInv, Succeeded
    <2>3. given \in Seq(ArgumentType)
      BY <2>1 DEF ParsingInv, TypeOK
    <2>4. IsSuffix(SubSeq(given, k, Len(given)), given)
      BY <2>3, SuffixIntro
    <2>5. QED
      BY <2>2, <2>4
  <1>2. QED
    BY <1>1, Parsing, PTL

\* For every command line and frame, the names that a worker is sent are local.
THEOREM NamesStayLocal == Spec => []RemoteStaysLocal
  <1>1. ParsingInv => RemoteStaysLocal
    <2>1. SUFFICES ASSUME ParsingInv PROVE RemoteStaysLocal
      OBVIOUS
    <2>2. /\ parameters \in ParametersType
          /\ parameters.m_in_copies \in Seq(CopyType) /\ parameters.m_out_copies \in Seq(CopyType)
      BY <2>1 DEF ParsingInv, TypeOK, ParametersType
    <2>3. LocalInv
      BY <2>1 DEF ParsingInv
    <2>4. ASSUME NEW copy \in CopyType
          PROVE  copy.destination.text \in Seq(STRING) /\ copy.source.text \in Seq(STRING)
      BY DEF CopyType, ArgumentType
    <2>5. ASSUME NEW f \in SomeFrames \cup {-1}, NEW k \in DOMAIN parameters.m_in_copies
          PROVE  is_pathname_local(substitute_parameter(parameters.m_in_copies[k].destination.text, f))
      <3> DEFINE copy == parameters.m_in_copies[k]
                 s == copy.destination.text
      <3>1. copy \in CopyType /\ f \in Int
        BY <2>2, SomeFramesAssumption
      <3>2. is_pathname_local(s)
        BY <2>3 DEF LocalInv, IsLocal
      <3>3. s \in Seq(STRING)
        BY <2>4, <3>1
      <3> HIDE DEF s
      <3>4. is_pathname_local(substitute_parameter(s, f))
        BY <3>1, <3>2, <3>3, SubstitutedLocal
      <3>5. QED
        BY <3>4 DEF s
    <2>6. ASSUME NEW f \in SomeFrames \cup {-1}, NEW k \in DOMAIN parameters.m_out_copies
          PROVE  is_pathname_local(substitute_parameter(parameters.m_out_copies[k].source.text, f))
      <3> DEFINE copy == parameters.m_out_copies[k]
                 s == copy.source.text
      <3>1. copy \in CopyType /\ f \in Int
        BY <2>2, SomeFramesAssumption
      <3>2. is_pathname_local(s)
        BY <2>3 DEF LocalInv, IsLocal
      <3>3. s \in Seq(STRING)
        BY <2>4, <3>1
      <3> HIDE DEF s
      <3>4. is_pathname_local(substitute_parameter(s, f))
        BY <3>1, <3>2, <3>3, SubstitutedLocal
      <3>5. QED
        BY <3>4 DEF s
    <2>7. is_pathname_local(parameters.m_executable.text)
      BY <2>3 DEF LocalInv, IsLocal
    <2>8. QED
      BY <2>5, <2>6, <2>7 DEF RemoteStaysLocal
  <1>2. QED
    BY <1>1, Parsing, PTL

\* For every command line, the files of two frames have different names
\* exactly if the name has a parameter.
THEOREM FramesNamed == Spec => []FramesHaveNames
  <1>1. ParsingInv => FramesHaveNames
    <2>1. SUFFICES ASSUME ParsingInv, NEW k \in DOMAIN Copies,
                          NEW f \in SomeFrames, NEW g \in SomeFrames, f # g
                   PROVE  LET s == Copies[k].destination.text
                          IN  string_has_parameter(s) <=>
                              substitute_parameter(s, f) # substitute_parameter(s, g)
      BY DEF FramesHaveNames
    <2> DEFINE s == Copies[k].destination.text
    <2>2. parameters.m_in_copies \in Seq(CopyType) /\ parameters.m_out_copies \in Seq(CopyType)
      BY <2>1 DEF ParsingInv, TypeOK, ParametersType
    <2>3. Copies \in Seq(CopyType)
      BY <2>2, ConcatProperties DEF Copies
    <2>4. s \in Seq(STRING)
      <3>1. Copies[k] \in CopyType
        BY <2>3
      <3>2. QED
        BY <3>1 DEF CopyType, ArgumentType
    <2>5. f \in Nat /\ g \in Nat
      BY SomeFramesAssumption
    <2> HIDE DEF s
    <2>6. string_has_parameter(s) <=> substitute_parameter(s, f) # substitute_parameter(s, g)
      BY <2>1, <2>4, <2>5, NamesOfFrames
    <2>7. QED
      BY <2>6 DEF s
  <1>2. QED
    BY <1>1, Parsing, PTL

\* For every command line, what the worker connects to is one of the forms of
\* util.hpp and means what it says, or is refused.
THEOREM EndpointsRead == Spec => []EndpointForms
  <1>1. ParsingInv => EndpointForms
    <2>1. SUFFICES ASSUME ParsingInv PROVE EndpointForms
      OBVIOUS
    <2> DEFINE s == parameters.m_endpoints["worker"].text
    <2>2. s \in Seq(STRING)
      <3>1. parameters.m_endpoints["worker"] \in ArgumentType
        BY <2>1 DEF ParsingInv, TypeOK, ParametersType
      <3>2. QED
        BY <3>1 DEF ArgumentType
    <2> HIDE DEF s
    <2> DEFINE Understood ==
                 LET parsed == parse_endpoint(s, DefaultHost, DefaultPort)
                 IN  IF parsed.success THEN {<<parsed.hostname, parsed.port>>} = Meanings(s)
                     ELSE Meanings(s) = {}
    <2>3. PortTooLarge(s) \/ Understood
      BY <2>2, ParseEndpoint
    <2>4. QED
      BY <2>3 DEF EndpointForms, s
  <1>2. QED
    BY <1>1, Parsing, PTL

\* For every command line and frame, the program's arguments have the frame's
\* number for every parameter.
THEOREM ArgumentsReplaced == Spec => []ReplacesParameters
  <1>1. ParsingInv => ReplacesParameters
    <2>1. SUFFICES ASSUME ParsingInv, NEW k \in DOMAIN parameters.m_arguments, NEW f \in SomeFrames
                   PROVE  LET s == parameters.m_arguments[k].text
                          IN  substitute_parameter(s, f) = Replaced(s, f)
      BY DEF ReplacesParameters
    <2> DEFINE s == parameters.m_arguments[k].text
    <2>2. parameters.m_arguments \in Seq(ArgumentType)
      BY <2>1 DEF ParsingInv, TypeOK, ParametersType
    <2>3. s \in Seq(STRING)
      <3>1. parameters.m_arguments[k] \in ArgumentType
        BY <2>2
      <3>2. QED
        BY <3>1 DEF ArgumentType
    <2>4. f \in Nat
      BY SomeFramesAssumption
    <2> HIDE DEF s
    <2>5. substitute_parameter(s, f) = Replaced(s, f)
      BY <2>3, <2>4, ReplacedAtOnce
    <2>6. QED
      BY <2>5 DEF s
  <1>2. QED
    BY <1>1, Parsing, PTL

-----------------------------------------------------------------------------
(* Readings of the command line *)

\* The command line has a reading's type, and each argument is of one kind.
Readable ==
  /\ given \in Seq(ArgumentType)
  /\ \A n \in 1..Len(given) : given[n].word = "" \/ given[n].text = <<>>
  /\ Len(given) >= 1 /\ given[1].word \in {"proxy", "controller"}

LEMMA ReadableLength == Readable => Len(given) \in Nat /\ Len(given) >= 1
  <1>1. Readable => given \in Seq(ArgumentType) /\ Len(given) >= 1
    BY Zenon DEF Readable
  <1>2. QED
    BY <1>1

LEMMA ValuesType ==
  ASSUME NEW n
  PROVE  /\ Values(n) \in {1, 2}
         /\ Values(n) = IF given[n].word \in {"--in", "--out"} THEN 2 ELSE 1
  BY DEF Values

\* The flags of a reading are before its end, and none of their values is at
\* the position where the next flag begins.
LEMMA FlagsBefore ==
  ASSUME NEW S \in SUBSET FlagsGiven, NEW n \in 2..Len(given)+1, AreFlags(S, n), Readable
  PROVE  \A m \in S : m \in 2..n-1 /\ m + Values(m) \in 2..n-1 /\ m..m + Values(m) \subseteq 2..n-1
  <1>1. Len(given) \in Nat
    BY ReadableLength
  <1>2. ASSUME NEW m \in S
        PROVE  m \in 2..n-1 /\ m + Values(m) \in 2..n-1 /\ m..m + Values(m) \subseteq 2..n-1
    <2>1. m \in Int /\ Values(m) \in {1, 2}
      BY ValuesType DEF FlagsGiven
    <2>2. m \in m..m + Values(m) /\ m + Values(m) \in m..m + Values(m)
      BY <2>1
    <2>3. m..m + Values(m) \subseteq UNION {k..k + Values(k) : k \in S}
      BY Zenon
    <2>4. 2..n-1 = UNION {k..k + Values(k) : k \in S}
      BY DEF AreFlags
    <2>5. QED
      BY <2>2, <2>3, <2>4
  <1>3. QED
    BY <1>2

\* A reading that has the flags at S before position n ends there or has a
\* flag there.
Follows(r, S, n) == r[2] >= n /\ r[1] \cap 2..n-1 = S

FitsAt(n) ==
  /\ n \in FlagsGiven
  /\ n + Values(n) <= Len(given)
  /\ (given[n].word \in {"--worker-listen", "--controller-listen"}) <=> given[1].word = "proxy"
  /\ given[n].word = "--in" => IsLocal(given[n + 2])
  /\ given[n].word = "--out" => IsLocal(given[n + 1])

LEMMA ReadingGoesOn ==
  ASSUME Readable, NEW S \in SUBSET FlagsGiven, NEW n \in 2..Len(given)+1, AreFlags(S, n),
         NEW r \in Readings, Follows(r, S, n)
  PROVE  \/ r = <<S, n>> /\ IsReading(S, n)
         \/ n \in r[1] /\ FitsAt(n) /\ Follows(r, S \cup {n}, n + Values(n) + 1)
  <1> DEFINE R == r[1]
             e == r[2]
  <1>1. /\ R \in SUBSET FlagsGiven /\ e \in 2..Len(given)+1 /\ IsReading(R, e) /\ AreFlags(R, e)
        /\ r = <<R, e>>
    BY DEF Readings, IsReading
  <1>2. e >= n /\ R \cap 2..n-1 = S
    BY DEF Follows
  <1>3. Len(given) \in Nat /\ n \in Nat /\ e \in Nat
    BY <1>1, ReadableLength
  <1> HIDE DEF R, e
  <1>4. \A m \in R : m \in 2..e-1 /\ m + Values(m) \in 2..e-1 /\ m..m + Values(m) \subseteq 2..e-1
    BY <1>1, FlagsBefore
  <1>5. \A m \in S : m \in 2..n-1 /\ m + Values(m) \in 2..n-1 /\ m..m + Values(m) \subseteq 2..n-1
    BY FlagsBefore
  <1>6. CASE e = n
    <2>1. R = S
      BY <1>2, <1>4, <1>6
    <2>2. QED
      BY <1>1, <1>6, <2>1
  <1>7. CASE e # n
    <2>1. n \in 2..e-1
      BY <1>2, <1>3, <1>7
    <2>2. PICK m \in R : n \in m..m + Values(m)
      <3>1. 2..e-1 = UNION {m..m + Values(m) : m \in R}
        BY <1>1 DEF AreFlags
      <3>2. n \in UNION {m..m + Values(m) : m \in R}
        BY <2>1, <3>1, Zenon
      <3>3. QED
        BY <3>2
    <2>3. m = n
      <3>1. m \in Int /\ Values(m) \in {1, 2} /\ m <= n
        BY <1>4, <2>2, ValuesType
      <3>2. m < n => m \in S
        BY <1>2, <1>3, <1>4, <3>1
      <3>3. m \in S => n \in 2..n-1
        BY <1>5, <2>2
      <3>4. QED
        BY <1>3, <3>1, <3>2, <3>3
    <2>4. n \in R /\ n + Values(n) \in 2..e-1 /\ Values(n) \in {1, 2}
      BY <1>4, <2>2, <2>3, ValuesType
    <2>5. FitsAt(n)
      <3>1. /\ (given[n].word \in {"--worker-listen", "--controller-listen"})
                 <=> given[1].word = "proxy"
            /\ given[n].word = "--in" => IsLocal(given[n + 2])
            /\ given[n].word = "--out" => IsLocal(given[n + 1])
        BY <1>1, <2>4 DEF AreFlags
      <3>2. n \in FlagsGiven /\ n + Values(n) <= Len(given)
        BY <1>1, <1>3, <2>4
      <3>3. QED
        BY <3>1, <3>2 DEF FitsAt
    <2>6. Follows(r, S \cup {n}, n + Values(n) + 1)
      <3> DEFINE v == Values(n)
      <3>1. e >= n + v + 1 /\ v \in {1, 2}
        BY <1>3, <2>4
      <3>2. ASSUME NEW k \in R, k \in 2..n + v PROVE k \in S \cup {n}
        <4>1. n < k => n + v < k
          BY <1>1, <2>4 DEF AreFlags
        <4>2. k <= n
          BY <1>3, <3>1, <3>2, <4>1
        <4>3. k < n => k \in S
          BY <1>2, <1>3, <3>2
        <4>4. QED
          BY <1>3, <3>2, <4>2, <4>3
      <3>3. ASSUME NEW k \in S \cup {n} PROVE k \in R /\ k \in 2..n + v
        <4>1. CASE k = n
          BY <1>3, <2>4, <3>1, <4>1
        <4>2. CASE k \in S
          BY <1>2, <1>3, <1>5, <3>1, <4>2
        <4>3. QED
          BY <4>1, <4>2
      <3>4. (n + v + 1) - 1 = n + v
        BY <1>3, <3>1
      <3> HIDE DEF v
      <3>5. R \cap 2..(n + v + 1)-1 = S \cup {n}
        BY <3>2, <3>3, <3>4
      <3>6. QED
        BY <3>1, <3>5 DEF Follows, R, e, v
    <2>7. QED
      BY <2>4, <2>5, <2>6 DEF R
  <1>8. QED
    BY <1>6, <1>7

\* One more flag.
LEMMA OneMoreFlag ==
  ASSUME Readable, NEW S \in SUBSET FlagsGiven, NEW n \in 2..Len(given)+1, AreFlags(S, n), FitsAt(n)
  PROVE  /\ S \cup {n} \in SUBSET FlagsGiven
         /\ n + Values(n) + 1 \in 2..Len(given)+1
         /\ AreFlags(S \cup {n}, n + Values(n) + 1)
  <1> DEFINE v == Values(n)
             more == S \cup {n}
  <1>1. Len(given) \in Nat /\ n \in Nat /\ v \in {1, 2} /\ n \in FlagsGiven /\ n + v <= Len(given)
    BY ReadableLength, ValuesType DEF FitsAt
  <1>2. \A m \in S : m \in 2..n-1 /\ m + Values(m) \in 2..n-1 /\ m..m + Values(m) \subseteq 2..n-1
    BY FlagsBefore
  <1> HIDE DEF v
  <1>3. n + v + 1 \in 2..Len(given)+1 /\ more \in SUBSET FlagsGiven
    BY <1>1
  <1>4. 2..(n + v + 1)-1 = UNION {m..m + Values(m) : m \in more}
    <2>1. 2..(n + v + 1)-1 = 2..n-1 \cup n..n+v
      BY <1>1
    <2> DEFINE all(Q) == UNION {m..m + Values(m) : m \in Q}
               new == n..n + v
    <2>2. all(more) = all(S) \cup new
      <3>1. \A i : i \in all(more) <=> \E m \in more : i \in m..m + Values(m)
        BY Zenon
      <3>2. \A i : i \in all(S) <=> \E m \in S : i \in m..m + Values(m)
        BY Zenon
      <3>3. \A i : i \in new <=> i \in n..n + Values(n)
        BY DEF v
      <3> HIDE DEF all, new
      <3>4. QED
        BY <3>1, <3>2, <3>3
    <2>3. 2..n-1 = all(S)
      BY Zenon DEF AreFlags
    <2> HIDE DEF all
    <2>4. 2..(n + v + 1)-1 = all(more)
      BY <2>1, <2>2, <2>3
    <2>5. QED
      BY <2>4 DEF all
  <1>5. ASSUME NEW m \in more
        PROVE  /\ (given[m].word \in {"--worker-listen", "--controller-listen"})
                    <=> given[1].word = "proxy"
               /\ \A k \in more : m < k => m + Values(m) < k
               /\ given[m].word = "--in" => IsLocal(given[m + 2])
               /\ given[m].word = "--out" => IsLocal(given[m + 1])
    <2>1. CASE m \in S
      <3>1. /\ (given[m].word \in {"--worker-listen", "--controller-listen"})
                 <=> given[1].word = "proxy"
            /\ \A k \in S : m < k => m + Values(m) < k
            /\ given[m].word = "--in" => IsLocal(given[m + 2])
            /\ given[m].word = "--out" => IsLocal(given[m + 1])
        BY <2>1 DEF AreFlags
      <3>2. m + Values(m) < n
        BY <1>1, <1>2, <2>1
      <3>3. QED
        BY <3>1, <3>2
    <2>2. CASE m = n
      <3>1. \A k \in more : ~(n < k)
        BY <1>1, <1>2
      <3>2. QED
        BY <2>2, <3>1 DEF FitsAt
    <2>3. QED
      BY <2>1, <2>2
  <1>6. AreFlags(more, n + v + 1)
    BY <1>4, <1>5 DEF AreFlags
  <1>7. QED
    BY <1>3, <1>6 DEF v

CopyAt(n) == [source |-> given[n + 1], destination |-> given[n + 2]]

CopyPieces(S, flag) ==
  [n \in DOMAIN given |-> IF n \in S /\ given[n].word = flag THEN <<CopyAt(n)>> ELSE <<>>]

LEMMA CopyPiecesProperties ==
  ASSUME Readable, NEW S, NEW flag
  PROVE  /\ CopyPieces(S, flag) \in Seq(Seq({CopyAt(n) : n \in 1..Len(given)}))
         /\ Len(CopyPieces(S, flag)) = Len(given)
         /\ \A n \in 1..Len(given) :
              CopyPieces(S, flag)[n] = IF n \in S /\ given[n].word = flag THEN <<CopyAt(n)>> ELSE <<>>
         /\ CopiesAt(S, flag) = FlattenSeq(CopyPieces(S, flag))
  <1> DEFINE T == {CopyAt(n) : n \in 1..Len(given)}
             piece(n) == IF n \in S /\ given[n].word = flag THEN <<CopyAt(n)>> ELSE <<>>
             pieces == [n \in 1..Len(given) |-> piece(n)]
  <1>1. Len(given) \in Nat /\ DOMAIN given = 1..Len(given)
    <2>1. given \in Seq(ArgumentType)
      BY Zenon DEF Readable
    <2>2. QED
      BY <2>1
  <1>2. ASSUME NEW n \in 1..Len(given) PROVE piece(n) \in Seq(T)
    <2>1. CopyAt(n) \in T
      OBVIOUS
    <2> DEFINE copy == CopyAt(n)
    <2> HIDE DEF T, copy
    <2>2. <<copy>> \in Seq(T) /\ <<>> \in Seq(T)
      BY <2>1, EmptySeq DEF copy
    <2>3. QED
      BY <2>2 DEF copy
  <1>3. CopyPieces(S, flag) = pieces
    BY <1>1 DEF CopyPieces
  <1>4. CopiesAt(S, flag) = FlattenSeq(CopyPieces(S, flag))
    BY DEF CopiesAt, CopyPieces, CopyAt
  <1>5. \A n \in 1..Len(given) : pieces[n] = piece(n)
    OBVIOUS
  <1> HIDE DEF T, piece
  <1>6. pieces \in [1..Len(given) -> Seq(T)]
    BY <1>2
  <1> HIDE DEF pieces
  <1>7. pieces \in Seq(Seq(T)) /\ Len(pieces) = Len(given)
    BY <1>1, <1>6
  <1>8. QED
    BY <1>3, <1>4, <1>5, <1>7, Zenon DEF T, piece

\* Without flags there are no copies, and one more flag has at most one more.
LEMMA NoCopies ==
  ASSUME Readable, NEW flag
  PROVE  CopiesAt({}, flag) = <<>>
  <1> DEFINE T == {CopyAt(n) : n \in 1..Len(given)}
             x == CopyPieces({}, flag)
             last == Len(given) + 1
  <1>1. /\ x \in Seq(Seq(T)) /\ Len(x) = Len(given) /\ CopiesAt({}, flag) = FlattenSeq(x)
        /\ \A n \in 1..Len(given) : x[n] = <<>>
    BY CopyPiecesProperties, ZenonT(60)
  <1>2. Len(given) \in Nat
    BY ReadableLength
  <1> HIDE DEF T, x
  <1>3. PICK G : Flattens(G, T, x) /\ FlattenSeq(x) = G[Len(x) + 1]
    BY <1>1, FlattenSeqSteps
  <1>4. Nothing(x, 1, last)
    BY <1>1, <1>2 DEF Nothing
  <1>5. G[last] = G[1]
    <2>1. 1 \in 1..Len(x)+1 /\ last \in 1..Len(x)+1
      BY <1>1, <1>2
    <2> HIDE DEF last
    <2>2. QED
      BY <1>1, <1>3, <1>4, <2>1, FlattenNothing
  <1>6. G[1] = <<>>
    BY <1>3, Zenon DEF Flattens
  <1>7. QED
    BY <1>1, <1>3, <1>5, <1>6

LEMMA OneMoreCopy ==
  ASSUME Readable, NEW flag, NEW S \in SUBSET FlagsGiven, NEW n \in 2..Len(given), \A m \in S : m < n
  PROVE  CopiesAt(S \cup {n}, flag) = IF given[n].word = flag THEN Append(CopiesAt(S, flag), CopyAt(n))
                                      ELSE CopiesAt(S, flag)
  <1> DEFINE T == {CopyAt(k) : k \in 1..Len(given)}
             x == CopyPieces(S, flag)
             y == CopyPieces(S \cup {n}, flag)
             last == Len(given) + 1
             copy == CopyAt(n)
  <1>1. /\ x \in Seq(Seq(T)) /\ Len(x) = Len(given) /\ CopiesAt(S, flag) = FlattenSeq(x)
        /\ \A k \in 1..Len(given) : x[k] = IF k \in S /\ given[k].word = flag THEN <<CopyAt(k)>> ELSE <<>>
    BY CopyPiecesProperties
  <1>2. /\ y \in Seq(Seq(T)) /\ Len(y) = Len(given) /\ CopiesAt(S \cup {n}, flag) = FlattenSeq(y)
        /\ \A k \in 1..Len(given) :
             y[k] = IF k \in S \cup {n} /\ given[k].word = flag THEN <<CopyAt(k)>> ELSE <<>>
    BY CopyPiecesProperties
  <1>3. Len(given) \in Nat /\ n \in Nat /\ n \in 1..Len(given) /\ n \in 1..Len(given)+1
        /\ n + 1 \in 1..Len(given)+1
    BY ReadableLength
  <1>4. copy \in T
    BY <1>3
  <1> HIDE DEF T, x, y
  <1>5. PICK G : Flattens(G, T, x) /\ FlattenSeq(x) = G[Len(x) + 1]
    BY <1>1, FlattenSeqSteps
  <1>6. PICK H : Flattens(H, T, y) /\ FlattenSeq(y) = H[Len(y) + 1]
    BY <1>2, FlattenSeqSteps
  <1>7. G[n] = H[n]
    <2>1. ASSUME NEW k \in 1..n-1 PROVE x[k] = y[k]
      <3>1. k \in 1..Len(given) /\ (k \in S \cup {n} <=> k \in S)
        BY <1>3
      <3>2. QED
        BY <1>1, <1>2, <3>1
    <2>2. SameBefore(x, y, n)
      BY <2>1, Zenon DEF SameBefore
    <2>3. n \in 1..Len(x)+1 /\ n <= Len(y) + 1
      BY <1>1, <1>2, <1>3
    <2>4. x \in Seq(Seq(T)) /\ y \in Seq(Seq(T)) /\ Flattens(G, T, x) /\ Flattens(H, T, y)
      BY <1>1, <1>2, <1>5, <1>6
    <2>5. EqualAt(G, H, n)
      BY <2>2, <2>3, <2>4, FlattenSame
    <2>6. QED
      BY <2>5, Zenon DEF EqualAt
  <1>8. G[last] = G[n]
    <2>1. Nothing(x, n, last)
      <3>1. ASSUME NEW k \in n..last-1 PROVE x[k] = <<>>
        <4>1. k \in 1..Len(given) /\ k \notin S
          BY <1>3
        <4>2. QED
          BY <1>1, <4>1
      <3>2. QED
        BY <3>1 DEF Nothing
    <2>2. n \in 1..Len(x)+1 /\ last \in n..Len(x)+1
      BY <1>1, <1>3
    <2>3. x \in Seq(Seq(T)) /\ Flattens(G, T, x)
      BY <1>1, <1>5
    <2> HIDE DEF last
    <2>4. QED
      BY <2>1, <2>2, <2>3, FlattenNothing, Zenon
  <1>9. H[last] = H[n + 1]
    <2>1. Nothing(y, n + 1, last)
      <3>1. ASSUME NEW k \in n+1..last-1 PROVE y[k] = <<>>
        <4>1. k \in 1..Len(given) /\ k \notin S \cup {n}
          BY <1>3
        <4>2. QED
          BY <1>2, <4>1
      <3>2. QED
        BY <3>1 DEF Nothing
    <2>2. n + 1 \in 1..Len(y)+1 /\ last \in n+1..Len(y)+1
      BY <1>2, <1>3
    <2>3. y \in Seq(Seq(T)) /\ Flattens(H, T, y)
      BY <1>2, <1>6
    <2> HIDE DEF last
    <2>4. QED
      BY <2>1, <2>2, <2>3, FlattenNothing, Zenon
  <1>10. H[n + 1] = H[n] \o y[n] /\ H[n] \in Seq(T)
    <2>1. /\ H \in [1..Len(y)+1 -> Seq(T)]
          /\ \A k \in 1..Len(y) : H[k + 1] = H[k] \o y[k]
      BY <1>6, Zenon DEF Flattens
    <2>2. n \in 1..Len(y)+1 /\ n \in 1..Len(y)
      BY <1>2, <1>3
    <2>3. QED
      BY <2>1, <2>2
  <1>11. CopiesAt(S, flag) = H[n] /\ CopiesAt(S \cup {n}, flag) = H[n] \o y[n]
    BY <1>1, <1>2, <1>5, <1>6, <1>7, <1>8, <1>9, <1>10
  <1> DEFINE h == H[n]
  <1>12. h \in Seq(T)
    BY <1>10
  <1> HIDE DEF copy, h
  <1>13. CASE given[n].word = flag
    <2>1. y[n] = <<copy>>
      BY <1>2, <1>3, <1>13 DEF copy
    <2>2. Append(h, copy) = h \o <<copy>>
      BY <1>4, <1>12, AppendIsConcat
    <2>3. QED
      BY <1>11, <1>13, <2>1, <2>2, Zenon DEF copy, h
  <1>14. CASE given[n].word # flag
    <2>1. y[n] = <<>>
      BY <1>2, <1>3, <1>14
    <2>2. h \o <<>> = h
      BY <1>12, ConcatEmptySeq
    <2>3. QED
      BY <1>11, <1>14, <2>1, <2>2, Zenon DEF h
  <1>15. QED
    BY <1>13, <1>14

\* All readings begin with the flags at S, which are before position n.
Reads(S, n) ==
  /\ S \in SUBSET FlagsGiven /\ n \in 2..Len(given)+1
  /\ AreFlags(S, n)
  /\ \A r \in Readings : Follows(r, S, n)

\* There is one reading at most, and it ends at position n.
Ends(S, n) ==
  /\ \A r \in Readings : r = <<S, n>>
  /\ Readings # {} <=> IsReading(S, n)

FlagHere(n) ==
  /\ n <= Len(given)
  /\ \/ given[n].word \in Flags \cup {"--unknown"}
     \/ given[n].text # <<>> /\ given[n].text[1] = "-"

LEMMA NothingRead == Readable => Reads({}, 2)
  <1> SUFFICES ASSUME Readable PROVE Reads({}, 2)
    OBVIOUS
  <1>1. Len(given) \in Nat /\ Len(given) >= 1
    BY ReadableLength
  <1>2. {} \in SUBSET FlagsGiven /\ 2 \in 2..Len(given)+1
    BY <1>1
  <1>3. 2..2-1 = {}
    OBVIOUS
  <1>4. AreFlags({}, 2)
    BY <1>3 DEF AreFlags
  <1>5. ASSUME NEW r \in Readings PROVE Follows(r, {}, 2)
    <2>1. r[2] \in 2..Len(given)+1
      BY DEF Readings
    <2>2. QED
      BY <1>1, <1>3, <2>1 DEF Follows
  <1>6. QED
    BY <1>2, <1>4, <1>5 DEF Reads

LEMMA FlagGoesOn ==
  ASSUME Readable, NEW S, NEW n, FlagHere(n), n \in 2..Len(given)+1
  PROVE  ~IsReading(S, n)
  <1> SUFFICES ASSUME IsReading(S, n) PROVE FALSE
    OBVIOUS
  <1>1. Len(given) \in Nat /\ n <= Len(given) /\ n \in 1..Len(given) /\ n # Len(given) + 1
    BY ReadableLength DEF FlagHere
  <1>2. given[n].text # <<>> /\ given[n].text[1] # "-"
    BY <1>1 DEF IsReading, IsRange
  <1>3. given[n].word = "" /\ given[n].text \in Seq(STRING)
    <2>1. given \in Seq(ArgumentType) /\ (given[n].word = "" \/ given[n].text = <<>>)
      BY <1>1, Zenon DEF Readable
    <2>2. given[n] \in ArgumentType
      <3>1. given \in Seq(ArgumentType)
        BY <2>1
      <3>2. \A k \in 1..Len(given) : given[k] \in ArgumentType
        BY <3>1
      <3>3. QED
        BY <1>1, <3>2
    <2>3. given[n].text \in Seq(STRING)
      BY <2>2 DEF ArgumentType
    <2>4. QED
      BY <1>2, <2>1, <2>3
  <1>4. given[n].text[1] = "-"
    BY <1>3 DEF FlagHere, Flags
  <1>5. QED
    BY <1>2, <1>4

LEMMA NoFlagEnds ==
  ASSUME Readable, NEW S, NEW n, Reads(S, n), ~FitsAt(n)
  PROVE  Ends(S, n)
  <1>1. S \in SUBSET FlagsGiven /\ n \in 2..Len(given)+1 /\ AreFlags(S, n)
    BY DEF Reads
  <1>2. ASSUME NEW r \in Readings PROVE r = <<S, n>> /\ IsReading(S, n)
    <2>1. Follows(r, S, n)
      BY DEF Reads
    <2>2. QED
      BY <1>1, <2>1, ReadingGoesOn
  <1>3. IsReading(S, n) => <<S, n>> \in Readings
    BY <1>1 DEF Readings
  <1>4. QED
    BY <1>2, <1>3 DEF Ends

LEMMA FlagRead ==
  ASSUME Readable, NEW S, NEW n, Reads(S, n), FitsAt(n)
  PROVE  Reads(S \cup {n}, n + Values(n) + 1)
  <1>1. S \in SUBSET FlagsGiven /\ n \in 2..Len(given)+1 /\ AreFlags(S, n)
    BY DEF Reads
  <1>2. FlagHere(n)
    BY DEF FitsAt, FlagsGiven, FlagHere
  <1>3. ~IsReading(S, n)
    BY <1>1, <1>2, FlagGoesOn
  <1>4. ASSUME NEW r \in Readings PROVE Follows(r, S \cup {n}, n + Values(n) + 1)
    <2>1. Follows(r, S, n)
      BY DEF Reads
    <2>2. QED
      BY <1>1, <1>3, <2>1, ReadingGoesOn
  <1>5. QED
    BY <1>1, <1>4, OneMoreFlag DEF Reads

CopiesRead(S) ==
  /\ parameters.m_in_copies = CopiesAt(S, "--in")
  /\ parameters.m_out_copies = CopiesAt(S, "--out")

Position == Len(given) - Len(args) + 1

Answered ==
  /\ status = 0 <=> Readings # {}
  /\ status = 0 => \A r \in Readings : CopiesRead(r[1])

ReadingInv ==
  /\ \A n \in 1..Len(given) : given[n].word = "" \/ given[n].text = <<>>
  /\ pc = "command" => parameters.m_in_copies = <<>> /\ parameters.m_out_copies = <<>>
  /\ pc # "done" => status = 0
  /\ Readable =>
       /\ pc = "flags" => \E S : Reads(S, Position) /\ CopiesRead(S)
       /\ pc = "rest" => \E S : Ends(S, Position) /\ AreFlags(S, Position) /\ CopiesRead(S)
       /\ pc = "done" => Answered

LEMMA SameGiven ==
  ASSUME given' = given
  PROVE  /\ Readable' <=> Readable
         /\ Readings' = Readings
         /\ \A S, n : /\ AreFlags(S, n)' <=> AreFlags(S, n)
                      /\ Reads(S, n)' <=> Reads(S, n)
                      /\ Ends(S, n)' <=> Ends(S, n)
         /\ \A S, flag : CopiesAt(S, flag)' = CopiesAt(S, flag)
  <1>1. FlagsGiven' = FlagsGiven
    BY DEF FlagsGiven
  <1>2. \A n : Values(n)' = Values(n)
    BY DEF Values
  <1>3. ASSUME NEW S, NEW n PROVE AreFlags(S, n)' <=> AreFlags(S, n)
    BY <1>2 DEF AreFlags
  <1>4. ASSUME NEW S, NEW n PROVE IsReading(S, n)' <=> IsReading(S, n)
    BY <1>3 DEF IsReading
  <1>5. Readings' = Readings
    BY <1>1, <1>4 DEF Readings
  <1>6. Readable' <=> Readable
    BY DEF Readable
  <1>7. ASSUME NEW S, NEW n
        PROVE  (Reads(S, n)' <=> Reads(S, n)) /\ (Ends(S, n)' <=> Ends(S, n))
    BY <1>1, <1>3, <1>4, <1>5 DEF Reads, Ends, Follows
  <1>8. ASSUME NEW S, NEW flag PROVE CopiesAt(S, flag)' = CopiesAt(S, flag)
    BY DEF CopiesAt
  <1>9. QED
    BY <1>3, <1>5, <1>6, <1>7, <1>8

LEMMA InitReading == Init => ReadingInv
  <1> SUFFICES ASSUME Init PROVE ReadingInv
    OBVIOUS
  <1>1. \A n \in 1..Len(given) : given[n].word = "" \/ given[n].text = <<>>
    <2>1. TypeOK
      BY InitTypeOK
    <2>2. given \in Seq(ArgumentType)
      BY <2>1, Zenon DEF TypeOK
    <2>3. DOMAIN given = 1..Len(given)
      BY <2>2
    <2>4. QED
      BY <2>3, CommandLinesAssumption, Zenon DEF Init
  <1>2. pc = "command" /\ status = 0 /\ parameters.m_in_copies = <<>> /\ parameters.m_out_copies = <<>>
    BY DEF Init, Unset
  <1>3. QED
    BY <1>1, <1>2 DEF ReadingInv

\* The argument at a position of what is left, and where it was given.
LEMMA ArgumentGiven ==
  ASSUME TypeOK, ArgumentsInv
  PROVE  /\ Len(args) \in Nat /\ Len(given) \in Nat /\ Len(args) <= Len(given)
         /\ Position \in 1..Len(given)+1
         /\ args = <<>> <=> Len(args) = 0
         /\ \A k \in 1..Len(args) : args[k] = given[Position + k - 1]
  <1>1. args \in Seq(ArgumentType) /\ given \in Seq(ArgumentType) /\ Left(given, args)
    BY DEF TypeOK, ArgumentsInv
  <1>2. Len(args) \in Nat /\ Len(given) \in Nat /\ Len(args) <= Len(given)
    BY <1>1 DEF Left
  <1>3. args = <<>> <=> Len(args) = 0
    BY <1>1, EmptySeq
  <1>4. \A k \in 1..Len(args) : args[k] = given[Len(given) - Len(args) + k]
    <2>1. 1 \in 1..Len(args)+1
      BY <1>2
    <2>2. QED
      BY <1>1, <2>1, LeftOfLeft
  <1>5. ASSUME NEW k \in 1..Len(args) PROVE args[k] = given[Position + k - 1]
    <2>1. Position + k - 1 = Len(given) - Len(args) + k
      BY <1>2 DEF Position
    <2>2. QED
      BY <1>4, <2>1
  <1>6. QED
    BY <1>2, <1>3, <1>5 DEF Position

LEMMA FlagIsHere ==
  ASSUME TypeOK, ArgumentsInv
  PROVE  next_is_flag <=> FlagHere(Position)
  <1>1. /\ Len(args) \in Nat /\ Len(given) \in Nat /\ Position \in Nat
        /\ args = <<>> <=> Len(args) = 0
        /\ Position <= Len(given) <=> Len(args) # 0
    BY ArgumentGiven DEF Position
  <1>2. CASE Len(args) = 0
    BY <1>1, <1>2 DEF next_is_flag, FlagHere
  <1>3. CASE Len(args) # 0
    <2>1. 1 \in 1..Len(args) /\ Position + 1 - 1 = Position
      BY <1>1, <1>3
    <2>2. args[1] = given[Position]
      BY <2>1, ArgumentGiven
    <2>3. QED
      BY <1>1, <1>3, <2>2, Zenon DEF next_is_flag, FlagHere
  <1>4. QED
    BY <1>2, <1>3

\* What a turn of the loop decides is whether the flag fits a reading.
LEMMA FlagDecided ==
  ASSUME TypeOK, ArgumentsInv, Readable, pc = "flags", next_is_flag
  PROVE  LET flag == args[1].word
         IN  FitsAt(Position) <=>
               /\ flag \in Flags /\ parameters.m_command = CommandOf(flag)
               /\ Len(args) > Values(Position)
               /\ flag = "--in" => IsLocal(args[3])
               /\ flag = "--out" => IsLocal(args[2])
  <1> DEFINE flag == args[1].word
             n == Position
  <1>1. /\ Len(args) \in Nat /\ Len(given) \in Nat /\ n \in 1..Len(given)+1
        /\ args = <<>> <=> Len(args) = 0
        /\ \A k \in 1..Len(args) : args[k] = given[n + k - 1]
        /\ Len(args) = Len(given) - n + 1
    BY ArgumentGiven DEF Position
  <1>2. parameters.m_command = given[1].word /\ given[1].word \in {"proxy", "controller"}
    BY DEF ArgumentsInv, Readable
  <1>3. Len(args) # 0 /\ n \in 2..Len(given)
    <2>1. Len(args) # 0
      BY <1>1 DEF next_is_flag
    <2>2. CASE n = 1
      <3>1. args[1] = given[1]
        BY <1>1, <2>1, <2>2
      <3>2. given[1].word \notin Flags \cup {"--unknown"} /\ given[1].word # ""
        BY <1>2 DEF Flags
      <3>3. given[1].text = <<>>
        <4>1. 1 \in 1..Len(given)
          BY ReadableLength
        <4>2. given[1].word = "" \/ given[1].text = <<>>
          BY <4>1, Zenon DEF Readable
        <4>3. QED
          BY <3>2, <4>2
      <3>4. QED
        BY <3>1, <3>2, <3>3 DEF next_is_flag
    <2>3. QED
      BY <1>1, <2>1, <2>2
  <1>4. Values(n) \in {1, 2} /\ Values(n) = IF given[n].word \in {"--in", "--out"} THEN 2 ELSE 1
    BY ValuesType
  <1> HIDE DEF n
  <1>5. args[1] = given[n]
    <2>1. 1 \in 1..Len(args) /\ n + 1 - 1 = n
      BY <1>1, <1>3
    <2>2. QED
      BY <1>1, <2>1
  <1>6. Len(args) > Values(n) <=> n + Values(n) <= Len(given)
    BY <1>1, <1>3, <1>4
  <1>7. Len(args) > Values(n) /\ flag \in {"--in", "--out"} => args[2] = given[n + 1] /\ args[3] = given[n + 2]
    <2>1. SUFFICES ASSUME Len(args) > Values(n), flag \in {"--in", "--out"}
                   PROVE  args[2] = given[n + 1] /\ args[3] = given[n + 2]
      OBVIOUS
    <2>2. 2 \in 1..Len(args) /\ 3 \in 1..Len(args) /\ n + 2 - 1 = n + 1 /\ n + 3 - 1 = n + 2
      BY <1>1, <1>3, <1>4, <1>5, <2>1
    <2>3. QED
      BY <1>1, <2>2
  <1>8. parameters.m_command = CommandOf(flag)
          <=> (flag \in {"--worker-listen", "--controller-listen"} <=> given[1].word = "proxy")
    BY <1>2 DEF CommandOf
  <1>9. n \in FlagsGiven <=> flag \in Flags
    BY <1>3, <1>5 DEF FlagsGiven
  <1>10. given[n].word = flag
    BY <1>5
  <1> HIDE DEF flag
  <1>11. FitsAt(n) <=>
               /\ flag \in Flags /\ parameters.m_command = CommandOf(flag)
               /\ Len(args) > Values(n)
               /\ flag = "--in" => IsLocal(args[3])
               /\ flag = "--out" => IsLocal(args[2])
    BY <1>6, <1>7, <1>8, <1>9, <1>10 DEF FitsAt
  <1>12. QED
    BY <1>11 DEF n, flag

\* After the flags, the command decides whether they end a reading.
LEMMA EndDecided ==
  ASSUME TypeOK, ArgumentsInv, Readable, pc = "rest", NEW S, AreFlags(S, Position)
  PROVE  IsReading(S, Position) <=>
           IF parameters.m_command = "proxy" THEN args = <<>>
           ELSE ~(Len(args) < 2 \/ ~IsRange(args[1]) \/ ~IsLocal(args[2]))
  <1> DEFINE n == Position
  <1>1. /\ Len(args) \in Nat /\ Len(given) \in Nat /\ n \in 1..Len(given)+1
        /\ args = <<>> <=> Len(args) = 0
        /\ \A k \in 1..Len(args) : args[k] = given[n + k - 1]
        /\ Len(args) = Len(given) - n + 1
    BY ArgumentGiven DEF Position
  <1>2. parameters.m_command = given[1].word
    BY DEF ArgumentsInv
  <1> HIDE DEF n
  <1>3. (args = <<>> <=> n = Len(given) + 1) /\ (Len(args) < 2 <=> ~(n < Len(given)))
    BY <1>1
  <1>4. ~(Len(args) < 2) => args[1] = given[n] /\ args[2] = given[n + 1]
    <2>1. SUFFICES ASSUME ~(Len(args) < 2) PROVE args[1] = given[n] /\ args[2] = given[n + 1]
      OBVIOUS
    <2>2. 1 \in 1..Len(args) /\ 2 \in 1..Len(args) /\ n + 1 - 1 = n /\ n + 2 - 1 = n + 1
      BY <1>1, <2>1
    <2>3. QED
      BY <1>1, <2>2
  <1>5. AreFlags(S, n)
    BY DEF n
  <1>6. IsReading(S, n) <=>
           IF parameters.m_command = "proxy" THEN args = <<>>
           ELSE ~(Len(args) < 2 \/ ~IsRange(args[1]) \/ ~IsLocal(args[2]))
    BY <1>2, <1>3, <1>4, <1>5, Zenon DEF IsReading
  <1>7. QED
    BY <1>6 DEF n

LEMMA NextReading == TypeOK /\ ArgumentsInv /\ ReadingInv /\ [Next]_vars => ReadingInv'
  <1> SUFFICES ASSUME TypeOK, ArgumentsInv, ReadingInv, [Next]_vars PROVE ReadingInv'
    OBVIOUS
  <1> DEFINE InCopies(members, S) == /\ members.m_in_copies = CopiesAt(S, "--in")
                                     /\ members.m_out_copies = CopiesAt(S, "--out")
             ReadTo(members, left) ==
               \E S : Reads(S, Len(given) - Len(left) + 1) /\ InCopies(members, S)
             ReadAll(members, left) ==
               \E S : /\ Ends(S, Len(given) - Len(left) + 1)
                      /\ AreFlags(S, Len(given) - Len(left) + 1)
                      /\ InCopies(members, S)
             Right(code, members) ==
               /\ code = 0 <=> Readings # {}
               /\ code = 0 => \A r \in Readings : InCopies(members, r[1])
  <1>1. /\ given \in Seq(ArgumentType) /\ args \in Seq(ArgumentType) /\ parameters \in ParametersType
        /\ \A n \in 1..Len(given) : given[n].word = "" \/ given[n].text = <<>>
    BY DEF TypeOK, ReadingInv
  <1>2. /\ pc = "command" => parameters.m_in_copies = <<>> /\ parameters.m_out_copies = <<>>
        /\ pc # "done" => status = 0
        /\ Readable /\ pc = "flags" => ReadTo(parameters, args)
        /\ Readable /\ pc = "rest" => ReadAll(parameters, args)
    BY Zenon DEF ReadingInv, CopiesRead, Position
  <1>3. ASSUME NEW code, Return(code), Readable => Right(code, parameters) PROVE ReadingInv'
    <2>1. given' = given /\ parameters' = parameters /\ status' = code /\ pc' = "done"
      BY <1>3 DEF Return
    <2>2. Readable' => Answered'
      BY <1>3, <2>1, SameGiven DEF Answered, CopiesRead
    <2>3. QED
      BY <1>1, <2>1, <2>2 DEF ReadingInv
  <1>4. ASSUME NEW members, NEW left, Set(members, left, "flags"), status = 0,
               Readable => ReadTo(members, left)
        PROVE  ReadingInv'
    <2>1. /\ given' = given /\ parameters' = members /\ status' = 0 /\ pc' = "flags" /\ args' = left
      BY <1>4 DEF Set
    <2>2. Readable' => \E S : Reads(S, Position)' /\ CopiesRead(S)'
      BY <1>4, <2>1, SameGiven DEF CopiesRead, Position
    <2>3. QED
      BY <1>1, <2>1, <2>2 DEF ReadingInv
  <1>5. ASSUME NEW members, NEW left, Set(members, left, "rest"), status = 0,
               Readable => ReadAll(members, left)
        PROVE  ReadingInv'
    <2>1. /\ given' = given /\ parameters' = members /\ status' = 0 /\ pc' = "rest" /\ args' = left
      BY <1>5 DEF Set
    <2>2. Readable' => \E S : Ends(S, Position)' /\ AreFlags(S, Position)' /\ CopiesRead(S)'
      BY <1>5, <2>1, SameGiven DEF CopiesRead, Position
    <2>3. QED
      BY <1>1, <2>1, <2>2 DEF ReadingInv
  <1>6. ASSUME NEW members, NEW left, Set(members, left, "done"), status = 0,
               Readable => Right(0, members)
        PROVE  ReadingInv'
    <2>1. /\ given' = given /\ parameters' = members /\ status' = 0 /\ pc' = "done" /\ args' = left
      BY <1>6 DEF Set
    <2>2. Readable' => Answered'
      BY <1>6, <2>1, SameGiven DEF Answered, CopiesRead
    <2>3. QED
      BY <1>1, <2>1, <2>2 DEF ReadingInv
  <1>7. /\ Len(args) \in Nat /\ Len(given) \in Nat /\ Position \in 1..Len(given)+1
        /\ args = <<>> <=> Len(args) = 0
        /\ \A k \in 1..Len(args) : args[k] = given[Position + k - 1]
        /\ Position = Len(given) - Len(args) + 1
    BY ArgumentGiven DEF Position
  <1>8. ASSUME Readable, pc = "flags", next_is_flag, ~FitsAt(Position)
        PROVE  Right(1, parameters)
    <2>1. PICK S : Reads(S, Position)
      BY <1>2, <1>7, <1>8
    <2>2. Ends(S, Position)
      BY <1>8, <2>1, NoFlagEnds
    <2>3. Position \in 2..Len(given)+1
      BY <2>1 DEF Reads
    <2>4. ~IsReading(S, Position)
      BY <1>8, <2>3, FlagIsHere, FlagGoesOn
    <2>5. Readings = {}
      BY <2>2, <2>4 DEF Ends
    <2>6. QED
      BY <2>5
  <1>9. ASSUME NEW members, NEW S, Ends(S, Position), InCopies(members, S), IsReading(S, Position)
        PROVE  Right(0, members)
    <2>1. \A r \in Readings : r[1] = S
      BY <1>9 DEF Ends
    <2>2. Readings # {}
      BY <1>9 DEF Ends
    <2>3. QED
      BY <1>9, <2>1, <2>2
  <1>10. ASSUME Readable, pc = "rest"
         PROVE  \E S : Ends(S, Position) /\ AreFlags(S, Position) /\ InCopies(parameters, S)
    BY <1>2, <1>7, <1>10
  <1>11. ASSUME Readable, pc \in {"flags", "rest"}
         PROVE  parameters.m_command \in {"proxy", "controller"}
    BY <1>11 DEF Readable, ArgumentsInv
  <1> HIDE DEF InCopies
  <1>12. \A code, members : Right(code, members) <=>
           /\ code = 0 <=> Readings # {}
           /\ code = 0 => \A r \in Readings : InCopies(members, r[1])
    OBVIOUS
  <1> HIDE DEF Right
  <1>13. CASE Command
    <2>1. pc = "command" /\ args = given /\ status = 0
      BY <1>2, <1>13 DEF Command, ArgumentsInv
    <2> DEFINE first == args[1].word
               Refused == args = <<>> \/ first = "help" \/ first \notin Commands
    <2>2. CASE Refused
      <3>1. Return(1) \/ Return(2)
        BY <1>13, <2>2 DEF Command
      <3>2. SUFFICES ASSUME Readable PROVE FALSE
        BY <1>3, <3>1
      <3>3. Len(given) >= 1 /\ given[1].word \in {"proxy", "controller"}
        BY <3>2, Zenon DEF Readable
      <3>4. args # <<>> /\ first \in {"proxy", "controller"}
        BY <1>7, <2>1, <3>3
      <3> HIDE DEF first
      <3>5. QED
        BY <2>2, <3>4 DEF Commands
    <2>3. CASE ~Refused
      <3> DEFINE members == [parameters EXCEPT !.m_command = args[1].word]
      <3>1. Set(members, Tail(args), "flags") /\ args # <<>>
        BY <1>13, <2>3 DEF Command
      <3>2. members.m_in_copies = <<>> /\ members.m_out_copies = <<>>
        BY <1>1, <1>2, <2>1 DEF ParametersType
      <3> HIDE DEF members
      <3>3. ASSUME Readable PROVE ReadTo(members, Tail(args))
        <4>1. Len(Tail(args)) = Len(args) - 1 /\ Len(args) = Len(given)
          <5>1. args \in Seq(ArgumentType) /\ args # <<>>
            BY <1>1, <3>1
          <5>2. Len(Tail(args)) = Len(args) - 1
            BY <5>1, HeadTailProperties
          <5>3. QED
            BY <2>1, <5>2
        <4>2. Len(given) - Len(Tail(args)) + 1 = 2
          BY <1>7, <4>1
        <4>3. InCopies(members, {})
          BY <3>2, <3>3, NoCopies DEF InCopies
        <4>4. Reads({}, 2)
          BY <3>3, NothingRead
        <4>5. QED
          BY <4>2, <4>3, <4>4
      <3>4. QED
        BY <1>4, <2>1, <3>1, <3>3
    <2>4. QED
      BY <2>2, <2>3
  <1>14. CASE FlagFails
    <2>1. pc = "flags" /\ next_is_flag /\ Return(1)
      BY <1>14 DEF FlagFails
    <2>2. ASSUME Readable PROVE ~FitsAt(Position)
      <3>1. args[1] = given[Position]
        <4>1. 1 \in 1..Len(args) /\ Position + 1 - 1 = Position
          BY <1>7, <2>1 DEF next_is_flag
        <4>2. QED
          BY <1>7, <4>1
      <3>2. Values(Position) = IF args[1].word \in {"--in", "--out"} THEN 2 ELSE 1
        BY <3>1 DEF Values
      <3>3. \/ args[1].word \notin Flags \/ parameters.m_command # CommandOf(args[1].word)
            \/ Len(args) <= Values(Position)
        BY <1>14, <3>2, Zenon DEF FlagFails
      <3>4. Values(Position) \in {1, 2}
        BY ValuesType
      <3>5. ~(Len(args) <= Values(Position) /\ Len(args) > Values(Position))
        BY <1>7, <3>4
      <3>6. QED
        BY <2>1, <2>2, <3>3, <3>5, FlagDecided, Zenon
    <2>3. QED
      BY <1>3, <1>8, <2>1, <2>2
  <1>15. ASSUME NEW flag \in {"--in", "--out"}, CopyFlag(flag)
         PROVE  ReadingInv'
    <2> DEFINE copy == [source |-> args[2], destination |-> args[3]]
               members == IF flag = "--in"
                          THEN [parameters EXCEPT !.m_in_copies = Append(@, copy)]
                          ELSE [parameters EXCEPT !.m_out_copies = Append(@, copy)]
               left == SubSeq(args, 4, Len(args))
               Remote == IsLocal(RemoteOf(flag, copy))
    <2>1. /\ pc = "flags" /\ next_is_flag /\ args[1].word = flag /\ Len(args) >= 3
          /\ parameters.m_command = CommandOf(flag) /\ flag \in Flags
      BY <1>15 DEF CopyFlag, Accepted, Flags
    <2>2. IF Remote THEN Set(members, left, "flags") ELSE Return(1)
      BY <1>15 DEF CopyFlag
    <2>3. Values(Position) = 2 /\ args[2] = given[Position + 1] /\ args[3] = given[Position + 2]
          /\ given[Position].word = flag
      <3>1. /\ 1 \in 1..Len(args) /\ 2 \in 1..Len(args) /\ 3 \in 1..Len(args)
            /\ Position + 1 - 1 = Position /\ Position + 2 - 1 = Position + 1
            /\ Position + 3 - 1 = Position + 2
        BY <1>7, <2>1
      <3>2. args[1] = given[Position] /\ args[2] = given[Position + 1] /\ args[3] = given[Position + 2]
        BY <1>7, <3>1
      <3>3. QED
        BY <2>1, <3>2 DEF Values
    <2>4. Remote <=> /\ flag = "--in" => IsLocal(args[3])
                     /\ flag = "--out" => IsLocal(args[2])
      BY DEF RemoteOf
    <2>5. ASSUME Readable PROVE FitsAt(Position) <=> Remote
      <3>1. Len(args) > Values(Position)
        BY <1>7, <2>1, <2>3
      <3> HIDE DEF Remote
      <3>2. FitsAt(Position) <=>
               /\ flag \in Flags /\ parameters.m_command = CommandOf(flag)
               /\ Len(args) > Values(Position)
               /\ flag = "--in" => IsLocal(args[3])
               /\ flag = "--out" => IsLocal(args[2])
        BY <2>1, <2>5, FlagDecided, Zenon
      <3>3. QED
        BY <2>1, <2>4, <3>1, <3>2, Zenon
    <2>6. CASE ~Remote
      BY <1>3, <1>8, <2>1, <2>2, <2>5, <2>6
    <2>7. CASE Remote
      <3>1. Set(members, left, "flags")
        BY <2>2, <2>7
      <3>2. ASSUME Readable PROVE ReadTo(members, left)
        <4>1. FitsAt(Position)
          BY <2>5, <2>7, <3>2
        <4>2. PICK S : Reads(S, Position) /\ InCopies(parameters, S)
          BY <1>2, <1>7, <2>1, <3>2
        <4> DEFINE more == S \cup {Position}
        <4>3. Len(given) - Len(left) + 1 = Position + 2 + 1
          <5>1. 4 \in 1..Len(args)+1
            BY <1>7, <2>1
          <5>2. Len(left) = Len(args) - 4 + 1
            BY <1>1, <5>1, TailOfArguments
          <5> DEFINE m == Len(left)
          <5>3. m = Len(args) - 4 + 1
            BY <5>2
          <5> HIDE DEF m
          <5>4. Len(given) - m + 1 = Position + 2 + 1
            BY <1>7, <5>3
          <5>5. QED
            BY <5>4 DEF m
        <4>4. Reads(more, Position + 2 + 1)
          BY <2>3, <3>2, <4>1, <4>2, FlagRead
        <4>5. InCopies(members, more)
          <5> DEFINE ins == parameters.m_in_copies
                     outs == parameters.m_out_copies
          <5>1. /\ S \in SUBSET FlagsGiven /\ Position \in 2..Len(given)+1 /\ AreFlags(S, Position)
                /\ Position \in 2..Len(given)
            BY <4>1, <4>2 DEF Reads, FitsAt, FlagsGiven
          <5>2. \A m \in S : m < Position
            <6>1. \A m \in S : m \in 2..Position-1
              BY <3>2, <5>1, FlagsBefore
            <6>2. QED
              BY <1>7, <6>1
          <5>3. \A f : CopiesAt(more, f) = IF flag = f THEN Append(CopiesAt(S, f), CopyAt(Position))
                                           ELSE CopiesAt(S, f)
            BY <2>3, <3>2, <5>1, <5>2, OneMoreCopy
          <5>4. ins = CopiesAt(S, "--in") /\ outs = CopiesAt(S, "--out")
            BY <4>2 DEF InCopies
          <5>5. CopyAt(Position) = copy
            BY <2>3 DEF CopyAt
          <5>6. /\ members.m_in_copies = IF flag = "--in" THEN Append(ins, copy) ELSE ins
                /\ members.m_out_copies = IF flag = "--in" THEN outs ELSE Append(outs, copy)
            BY <1>1 DEF ParametersType
          <5> HIDE DEF ins, outs, members, copy, more
          <5>7. QED
            BY <1>15, <5>3, <5>4, <5>5, <5>6 DEF InCopies
        <4>6. QED
          BY <4>3, <4>4, <4>5
      <3>3. QED
        BY <1>2, <1>4, <2>1, <3>1, <3>2
    <2>8. QED
      BY <2>6, <2>7
  <1>16. ASSUME NEW flag \in Flags \ {"--in", "--out"}, EndpointFlag(flag)
         PROVE  ReadingInv'
    <2> DEFINE members == IF flag = "--proxy"
                          THEN [parameters EXCEPT !.m_proxy_endpoints = Append(@, args[2])]
                          ELSE [parameters EXCEPT !.m_endpoints[flag] = args[2]]
               left == SubSeq(args, 3, Len(args))
    <2>1. /\ pc = "flags" /\ next_is_flag /\ args[1].word = flag /\ Len(args) >= 2
          /\ parameters.m_command = CommandOf(flag) /\ flag \in Flags
          /\ Set(members, left, "flags")
      BY <1>16 DEF EndpointFlag, Accepted
    <2>2. Values(Position) = 1 /\ given[Position].word = flag
      <3>1. 1 \in 1..Len(args) /\ Position + 1 - 1 = Position
        BY <1>7, <2>1
      <3>2. args[1] = given[Position]
        BY <1>7, <3>1
      <3>3. QED
        BY <1>16, <2>1, <3>2 DEF Values
    <2>3. /\ members.m_in_copies = parameters.m_in_copies
          /\ members.m_out_copies = parameters.m_out_copies
      BY <1>1 DEF ParametersType
    <2> HIDE DEF members, left
    <2>4. ASSUME Readable PROVE ReadTo(members, left)
      <3>1. FitsAt(Position)
        <4>1. Len(args) > Values(Position) /\ flag # "--in" /\ flag # "--out"
          BY <1>7, <1>16, <2>1, <2>2
        <4>2. QED
          BY <2>1, <2>4, <4>1, FlagDecided
      <3>2. PICK S : Reads(S, Position) /\ InCopies(parameters, S)
        BY <1>2, <1>7, <2>1, <2>4
      <3> DEFINE more == S \cup {Position}
      <3>3. Len(given) - Len(left) + 1 = Position + 1 + 1
        <4>1. 3 \in 1..Len(args)+1
          BY <1>7, <2>1
        <4>2. Len(left) = Len(args) - 3 + 1
          BY <1>1, <4>1, TailOfArguments DEF left
        <4>3. QED
          BY <1>7, <4>2
      <3>4. Reads(more, Position + 1 + 1)
        BY <2>2, <2>4, <3>1, <3>2, FlagRead
      <3>5. InCopies(members, more)
        <4>1. /\ S \in SUBSET FlagsGiven /\ Position \in 2..Len(given)+1 /\ AreFlags(S, Position)
              /\ Position \in 2..Len(given)
          BY <3>1, <3>2 DEF Reads, FitsAt, FlagsGiven
        <4>2. \A m \in S : m < Position
          <5>1. \A m \in S : m \in 2..Position-1
            BY <2>4, <4>1, FlagsBefore
          <5>2. QED
            BY <1>7, <5>1
        <4>3. ASSUME NEW f, f \in {"--in", "--out"} PROVE CopiesAt(more, f) = CopiesAt(S, f)
          BY <1>16, <2>2, <2>4, <4>1, <4>2, <4>3, OneMoreCopy
        <4> HIDE DEF more
        <4>4. QED
          BY <2>3, <3>2, <4>3 DEF InCopies
      <3>6. QED
        BY <3>3, <3>4, <3>5
    <2>5. QED
      BY <1>2, <1>4, <2>1, <2>4
  <1>17. CASE EndOfFlags
    <2>1. pc = "flags" /\ ~next_is_flag /\ Set(parameters, args, "rest")
      BY <1>17 DEF EndOfFlags
    <2>2. ASSUME Readable PROVE ReadAll(parameters, args)
      <3>1. PICK S : Reads(S, Position) /\ InCopies(parameters, S)
        BY <1>2, <1>7, <2>1, <2>2
      <3>2. ~FitsAt(Position)
        <4>1. FitsAt(Position) => FlagHere(Position)
          BY DEF FitsAt, FlagsGiven, FlagHere
        <4>2. QED
          BY <2>1, <4>1, FlagIsHere
      <3>3. Ends(S, Position)
        BY <2>2, <3>1, <3>2, NoFlagEnds
      <3>4. AreFlags(S, Position)
        BY <3>1 DEF Reads
      <3>5. QED
        BY <1>7, <3>1, <3>3, <3>4
    <2>3. QED
      BY <1>2, <1>5, <2>1, <2>2
  <1>18. CASE WorkerRest
    <2> DEFINE members == [parameters EXCEPT !.m_endpoints["worker"] = args[1]]
    <2>1. /\ pc = "rest" /\ parameters.m_command = "worker"
          /\ Return(1) \/ Set(members, <<>>, "done")
      BY <1>18 DEF WorkerRest
    <2>2. ~Readable
      BY <1>11, <2>1
    <2> HIDE DEF members
    <2>3. QED
      BY <1>2, <1>3, <1>6, <2>1, <2>2
  <1>19. CASE NothingRest
    <2>1. pc = "rest" /\ Return(IF args = <<>> THEN 0 ELSE 1)
      BY <1>19 DEF NothingRest
    <2>2. ASSUME Readable PROVE Right(IF args = <<>> THEN 0 ELSE 1, parameters)
      <3>1. PICK S : Ends(S, Position) /\ AreFlags(S, Position) /\ InCopies(parameters, S)
        BY <1>10, <2>1, <2>2
      <3>2. parameters.m_command = "proxy"
        BY <1>11, <1>19, <2>1, <2>2 DEF NothingRest
      <3>3. IsReading(S, Position) <=> args = <<>>
        BY <2>1, <2>2, <3>1, <3>2, EndDecided
      <3>4. CASE args = <<>>
        BY <1>9, <3>1, <3>3, <3>4
      <3>5. CASE args # <<>>
        <4>1. Readings = {}
          BY <3>1, <3>3, <3>5 DEF Ends
        <4>2. QED
          BY <1>12, <3>5, <4>1
      <3>6. QED
        BY <3>4, <3>5
    <2>3. QED
      BY <1>3, <2>1, <2>2
  <1>20. CASE ControllerRest
    <2> DEFINE members == [parameters EXCEPT !.m_frames = args[1], !.m_executable = args[2],
                                             !.m_arguments = TheRest]
               Refused == Len(args) < 2 \/ ~IsRange(args[1]) \/ ~IsLocal(args[2])
    <2>1. /\ pc = "rest" /\ parameters.m_command = "controller"
          /\ IF Refused THEN Return(1) ELSE Set(members, <<>>, "done")
      BY <1>20 DEF ControllerRest
    <2>2. /\ members.m_in_copies = parameters.m_in_copies
          /\ members.m_out_copies = parameters.m_out_copies
      BY <1>1 DEF ParametersType
    <2> HIDE DEF members
    <2>3. ASSUME Readable PROVE Right(IF Refused THEN 1 ELSE 0, members)
      <3>1. PICK S : Ends(S, Position) /\ AreFlags(S, Position) /\ InCopies(parameters, S)
        BY <1>10, <2>1, <2>3
      <3>2. IsReading(S, Position) <=> ~Refused
        BY <2>1, <2>3, <3>1, EndDecided
      <3>3. InCopies(members, S)
        BY <2>2, <3>1 DEF InCopies
      <3> HIDE DEF Refused
      <3>4. CASE ~Refused
        BY <1>9, <3>1, <3>2, <3>3, <3>4
      <3>5. CASE Refused
        <4>1. Readings = {}
          BY <3>1, <3>2, <3>5 DEF Ends
        <4>2. QED
          BY <1>12, <3>5, <4>1
      <3>6. QED
        BY <3>4, <3>5
    <2> HIDE DEF Refused
    <2>4. Readable /\ Refused => Right(1, parameters)
      BY <2>2, <2>3 DEF Right, InCopies
    <2>5. CASE Refused
      BY <1>3, <2>1, <2>4, <2>5
    <2>6. CASE ~Refused
      BY <1>2, <1>6, <2>1, <2>3, <2>6
    <2>7. QED
      BY <2>5, <2>6
  <1>21. CASE UNCHANGED vars
    <2>1. /\ given' = given /\ args' = args /\ pc' = pc /\ status' = status
          /\ parameters' = parameters
      BY <1>21 DEF vars
    <2>2. \A S : CopiesRead(S)' <=> CopiesRead(S)
      BY <2>1, SameGiven DEF CopiesRead
    <2>3. Answered' <=> Answered
      BY <2>1, <2>2, SameGiven DEF Answered
    <2>4. Position' = Position
      BY <2>1 DEF Position
    <2>5. QED
      BY <2>1, <2>2, <2>3, <2>4, SameGiven DEF ReadingInv
  <1>22. QED
    BY <1>13, <1>14, <1>15, <1>16, <1>17, <1>18, <1>19, <1>20, <1>21 DEF Next

\* For every command line, a proxy or a controller starts exactly if its
\* arguments have the form of usage(), and has all the copies in their order.
THEOREM UsageRead == Spec => []ReadsUsage
  <1>1. Init => ReadingInv
    BY InitReading
  <1>2. ParsingInv /\ ReadingInv /\ [Next]_vars => ReadingInv'
    BY NextReading DEF ParsingInv
  <1>3. ParsingInv /\ ReadingInv => ReadsUsage
    <2> SUFFICES ASSUME ParsingInv, ReadingInv, pc = "done", given # <<>>,
                        given[1].word \in {"proxy", "controller"}
                 PROVE  /\ Succeeded <=> Readings # {}
                        /\ Succeeded => \A r \in Readings : CopiesRead(r[1])
      BY DEF ReadsUsage, CopiesRead
    <2>1. given \in Seq(ArgumentType)
      BY Zenon DEF ParsingInv, TypeOK
    <2>2. Len(given) >= 1
      <3>1. Len(given) \in Nat /\ Len(given) # 0
        BY <2>1, EmptySeq
      <3>2. QED
        BY <3>1
    <2>3. Readable
      BY <2>1, <2>2 DEF ReadingInv, Readable
    <2>4. Answered
      BY <2>3 DEF ReadingInv
    <2>5. QED
      BY <2>4 DEF Answered, Succeeded
  <1>4. QED
    BY <1>1, <1>2, <1>3, Parsing, PTL DEF Spec
=============================================================================
