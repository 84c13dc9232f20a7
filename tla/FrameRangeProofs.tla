-------------------------- MODULE FrameRangeProofs --------------------------
(***************************************************************************)
(* However wide an int is and whatever numbers are given: parse() accepts  *)
(* a text exactly when it is FIRST[,LAST[,STEP]], get_all() lists exactly  *)
(* the frames that such a text means and, unless the step is 0, no frame   *)
(* twice.                                                                  *)
(***************************************************************************)
EXTENDS Frames, SequenceTheorems, TLAPS

\* The numbers that parse() keeps are ints, and so is what it makes of them.
LEMMA Parsed ==
  ASSUME NEW n \in Int
  PROVE  AsInt(Clamped(n)) \in Int
<1>1. INT_MIN \in Int /\ 2 * (INT_MAX + 1) \in Nat \ {0}
  BY LimitsAssumption DEF INT_MIN
<1>2. Clamped(n) \in Int
  BY LimitsAssumption DEF Clamped, LONG_MIN
<1>3. ASSUME NEW a \in Int, NEW b \in Nat \ {0} PROVE a % b \in Int
  OBVIOUS
<1>4. QED
  BY <1>1, <1>2, <1>3 DEF AsInt

\* The step is an int once a number has been read.
LEMMA StepIsInt ==
  ASSUME fields \in Seq(Int), fields # <<>>, Len(fields) <= 3
  PROVE  m_first \in Int /\ m_step \in Int
<1>1. Len(fields) \in 1..3
  <2>1. Len(fields) \in Nat \ {0}
    BY EmptySeq
  <2>2. ASSUME NEW n \in Nat \ {0}, n <= 3 PROVE n \in 1..3
    BY <2>2
  <2>3. QED
    BY <2>1, <2>2
<1>2. \A i \in 1..Len(fields) : fields[i] \in Int
  OBVIOUS
<1>3. m_first \in Int
  BY <1>1, <1>2 DEF m_first
<1>4. m_step \in Int
  BY <1>1, <1>2 DEF m_step
<1>5. QED
  BY <1>3, <1>4

-----------------------------------------------------------------------------

\* The frames listed go up, or down, and the next one is beyond all of them.
Up == /\ \A i, j \in 1..Len(v) : i < j => v[i] < v[j]
      /\ pc = "loop" => \A i \in 1..Len(v) : v[i] < frame
Down == /\ \A i, j \in 1..Len(v) : i < j => v[j] < v[i]
        /\ pc = "loop" => \A i \in 1..Len(v) : frame < v[i]

Ordered == v # <<>> => (m_step > 0 => Up) /\ (m_step < 0 => Down)

\* parse() is over before the first frame is listed, and reads three numbers.
ParseFirst ==
  /\ pc \in {"number", "after", "rejected"} => v = <<>>
  /\ pc = "number" => Len(fields) < 3

Inv == TypeOK /\ ParseFirst /\ Ordered

\* No frame is listed before parse() has begun.
LEMMA InitInv == Init => Inv
<1> SUFFICES ASSUME Init PROVE Inv
  OBVIOUS
<1>1. <<>> \in Seq(Int) /\ Len(<<>>) = 0
  OBVIOUS
<1>2. TypeOK
  BY <1>1 DEF Init, TypeOK
<1>3. ParseFirst /\ Ordered
  BY <1>1 DEF Init, ParseFirst, Ordered
<1>4. QED
  BY <1>2, <1>3 DEF Inv

\* One more frame keeps the order: the step leads away from all of them.
LEMMA OneMore ==
  ASSUME Inv, ListFrame
  PROVE  Inv'
<1>1. /\ frame \in Int /\ v \in Seq(Int) /\ fields \in Seq(Int) /\ fields # <<>>
      /\ Len(fields) <= 3 /\ pc = "loop" /\ s \in Nat \ {0} /\ spec \in Texts
  BY DEF Inv, TypeOK, ListFrame
<1>2. m_step \in Int
  BY <1>1, StepIsInt
<1>3. /\ v' = Append(v, frame) /\ frame' = frame + m_step
      /\ pc' = "loop" \/ pc' = "undefined"
      /\ s' = s /\ fields' = fields /\ spec' = spec /\ m_step' = m_step
  BY <1>1 DEF ListFrame, Advance, m_step, m_first, m_last
<1> DEFINE n == Len(v)
<1>4. /\ n \in Nat /\ Len(v') = n + 1 /\ v'[n + 1] = frame
      /\ \A i \in 1..n : v'[i] = v[i] /\ v[i] \in Int
      /\ v' \in Seq(Int) /\ frame' \in Int
  BY <1>1, <1>2, <1>3
<1> HIDE DEF n
<1>5. TypeOK'
  BY <1>1, <1>3, <1>4 DEF TypeOK
<1>6. ParseFirst'
  BY <1>3 DEF ParseFirst
<1>7. v # <<>> \/ n = 0
  BY <1>1 DEF n
<1>8. \A i \in 1..n + 1 : i \in 1..n \/ i = n + 1
  BY <1>4
<1>9. ASSUME m_step > 0 PROVE Up'
  <2>1. /\ \A i, j \in 1..n : i < j => v[i] < v[j]
        /\ \A i \in 1..n : v[i] < frame
    BY <1>1, <1>7, <1>9 DEF Inv, Ordered, Up, n
  <2>2. ASSUME NEW i \in 1..n + 1, NEW j \in 1..n + 1, i < j PROVE v'[i] < v'[j]
    BY <1>4, <1>8, <2>1, <2>2
  <2>3. ASSUME NEW i \in 1..n + 1 PROVE v'[i] < frame'
    BY <1>1, <1>2, <1>3, <1>4, <1>8, <1>9, <2>1
  <2>4. QED
    BY <1>4, <2>2, <2>3 DEF Up
<1>10. ASSUME m_step < 0 PROVE Down'
  <2>1. /\ \A i, j \in 1..n : i < j => v[j] < v[i]
        /\ \A i \in 1..n : frame < v[i]
    BY <1>1, <1>7, <1>10 DEF Inv, Ordered, Down, n
  <2>2. ASSUME NEW i \in 1..n + 1, NEW j \in 1..n + 1, i < j PROVE v'[j] < v'[i]
    BY <1>4, <1>8, <2>1, <2>2
  <2>3. ASSUME NEW i \in 1..n + 1 PROVE frame' < v'[i]
    BY <1>1, <1>2, <1>3, <1>4, <1>8, <1>10, <2>1
  <2>4. QED
    BY <1>4, <2>2, <2>3 DEF Down
<1>11. Ordered'
  BY <1>3, <1>9, <1>10 DEF Ordered
<1>12. QED
  BY <1>5, <1>6, <1>11 DEF Inv

\* Every step of parse() and get_all() keeps the order.
LEMMA NextInv == Inv /\ [Next]_vars => Inv'
<1> SUFFICES ASSUME Inv, [Next]_vars PROVE Inv'
  OBVIOUS
<1>t. TypeOK /\ ParseFirst /\ Ordered
  BY DEF Inv
<1>f. fields \in Seq(Int) /\ Len(fields) \in Nat /\ s \in Nat \ {0}
  BY <1>t DEF TypeOK
<1>1. ASSUME parse_int PROVE Inv'
  <2>1. /\ pc = "number" /\ pc' \in {"after", "rejected"} /\ v = <<>> /\ v' = <<>>
        /\ spec' = spec /\ frame' = frame
    BY <1>1, <1>t DEF parse_int, ParseFirst
  <2>2. ASSUME AtNumber PROVE fields' \in Seq(Int) /\ Len(fields') <= 3 /\ s' \in Nat \ {0}
                              /\ fields' # <<>>
    <3>1. spec[s] \in Int
      <4>1. PICK k \in 0..MaxTokens : spec \in [1..k -> Tokens]
        BY <1>t DEF TypeOK, Texts
      <4>2. k \in Nat /\ Len(spec) = k
        BY <4>1, BoundsAssumption
      <4>3. s \in 1..k /\ spec[s] \notin {Comma, Other}
        BY <1>f, <2>2, <4>2 DEF AtNumber
      <4>4. QED
        BY <4>1, <4>3, TokensAssumption DEF Tokens
    <3>2. fields' = Append(fields, AsInt(Clamped(spec[s]))) /\ s' = s + 1
      BY <1>1, <2>2 DEF parse_int
    <3>3. AsInt(Clamped(spec[s])) \in Int
      BY <3>1, Parsed
    <3>4. Len(fields) < 3
      BY <1>t, <2>1 DEF ParseFirst
    <3>5. QED
      BY <1>f, <3>2, <3>3, <3>4
  <2>3. ASSUME ~AtNumber PROVE fields' = fields /\ s' = s /\ pc' = "rejected"
    BY <1>1, <2>3 DEF parse_int
  <2>4. ASSUME AtNumber PROVE pc' = "after"
    BY <1>1, <2>4 DEF parse_int
  <2>5. TypeOK'
    BY <1>t, <2>1, <2>2, <2>3, <2>4 DEF TypeOK
  <2>6. ParseFirst' /\ Ordered'
    BY <2>1 DEF ParseFirst, Ordered
  <2>7. QED
    BY <2>5, <2>6 DEF Inv
<1>2. ASSUME NextNumber PROVE Inv'
  <2>1. /\ pc = "after" /\ pc' = "number" /\ s' = s + 1 /\ Len(fields) < 3 /\ v = <<>>
        /\ UNCHANGED <<spec, fields, frame, v>>
    BY <1>2, <1>t DEF NextNumber, ParseFirst
  <2>2. TypeOK'
    BY <1>t, <1>f, <2>1 DEF TypeOK
  <2>3. ParseFirst' /\ Ordered'
    BY <2>1 DEF ParseFirst, Ordered
  <2>4. QED
    BY <2>2, <2>3 DEF Inv
<1>3. ASSUME AllRead PROVE Inv'
  <2>1. /\ pc = "after" /\ pc' \in {"loop", "rejected"} /\ v = <<>>
        /\ frame' = m_first \/ frame' = frame
        /\ UNCHANGED <<spec, s, fields, v>>
    BY <1>3, <1>t DEF AllRead, ParseFirst
  <2>2. fields # <<>> /\ m_first \in Int
    BY <1>t, <2>1, StepIsInt DEF TypeOK
  <2>3. TypeOK'
    BY <1>t, <2>1, <2>2 DEF TypeOK
  <2>4. ParseFirst' /\ Ordered'
    BY <2>1 DEF ParseFirst, Ordered
  <2>5. QED
    BY <2>3, <2>4 DEF Inv
<1>4. ASSUME ListFrame PROVE Inv'
  BY <1>4, OneMore
<1>5. ASSUME AllListed PROVE Inv'
  <2>1. pc = "loop" /\ pc' = "returned" /\ UNCHANGED <<spec, s, fields, frame, v>>
    BY <1>5 DEF AllListed
  <2>2. TypeOK' /\ ParseFirst'
    BY <1>t, <2>1 DEF TypeOK, ParseFirst
  <2>3. m_step' = m_step
    BY <2>1 DEF m_step, m_first, m_last
  <2>4. (Up => Up') /\ (Down => Down')
    BY <2>1 DEF Up, Down
  <2>5. Ordered'
    BY <1>t, <2>1, <2>3, <2>4 DEF Ordered
  <2>6. QED
    BY <2>2, <2>5 DEF Inv
<1>6. CASE UNCHANGED vars
  BY <1>t, <1>6 DEF vars, Inv, TypeOK, ParseFirst, Ordered, Up, Down, m_step, m_first, m_last
<1>7. QED
  BY <1>1, <1>2, <1>3, <1>4, <1>5, <1>6 DEF Next

\* Frames that go up or down are listed once: get_all() gives the controller
\* each frame once, as AllFrames is assumed to hold them.
THEOREM ListsNoFrameTwice == Spec => []NoFrameTwice
<1>1. Inv => NoFrameTwice
  <2> SUFFICES ASSUME Inv, v # <<>>, m_step # 0, NEW i \in 1..Len(v), NEW j \in 1..Len(v), i # j
               PROVE  v[i] # v[j]
    BY DEF NoFrameTwice
  <2>1. /\ fields \in Seq(Int) /\ Len(fields) <= 3 /\ v \in Seq(Int)
        /\ pc \in {"after", "loop", "returned", "undefined"} => fields # <<>>
        /\ pc \in {"number", "after", "loop", "returned", "rejected", "undefined"}
    BY DEF Inv, TypeOK
  <2>2. v[i] \in Int /\ v[j] \in Int /\ (i < j \/ j < i)
    BY <2>1
  <2>3. CASE fields # <<>>
    <3>1. m_step > 0 \/ m_step < 0
      BY <2>1, <2>3, StepIsInt
    <3>2. Up \/ Down
      BY <3>1 DEF Inv, Ordered
    <3>3. QED
      BY <2>2, <3>2 DEF Up, Down
  <2>4. CASE fields = <<>>
    BY <2>1, <2>4 DEF Inv, ParseFirst
  <2>5. QED
    BY <2>3, <2>4
<1>2. QED
  BY InitInv, NextInv, <1>1, PTL DEF Spec

-----------------------------------------------------------------------------
(* parse(): what has been read is FIRST[,LAST[,STEP]] so far.              *)

ReadSoFar ==
  /\ \A i \in 1..Len(fields) : fields[i] = AsInt(Clamped(spec[2 * i - 1]))
  /\ pc \in {"number", "after"} =>
       /\ s = IF pc = "number" THEN 2 * Len(fields) + 1 ELSE 2 * Len(fields)
       /\ s - 1 <= Len(spec)
       /\ \A i \in 1..s - 1 : IF i % 2 = 1 THEN spec[i] \in Numbers ELSE spec[i] = Comma
  /\ pc \in {"loop", "returned", "undefined"} =>
       Grammar(spec) /\ Len(spec) = 2 * Len(fields) - 1
  /\ pc = "rejected" => ~Grammar(spec)

\* The length of a text, and what there is at its places.
LEMMA Places ==
  ASSUME TypeOK
  PROVE  /\ Len(spec) \in Nat
         /\ \A i \in 1..Len(spec) : spec[i] \in Tokens
         /\ \A i \in 1..Len(spec) : spec[i] \notin {Comma, Other} => spec[i] \in Numbers
         /\ Comma \notin Numbers /\ Other \notin Numbers
         /\ Numbers \subseteq Int
<1>1. PICK k \in 0..MaxTokens : spec \in [1..k -> Tokens]
  BY DEF TypeOK, Texts
<1>2. k \in Nat /\ Len(spec) = k
  BY <1>1, BoundsAssumption
<1>3. \A i \in 1..Len(spec) : spec[i] \in Tokens
  BY <1>1, <1>2
<1>4. QED
  BY <1>2, <1>3, TokensAssumption DEF Tokens

\* How many numbers there are when one is looked for, and when one was found.
LEMMA FieldsRead ==
  ASSUME Inv
  PROVE  /\ Len(fields) \in 0..3 /\ s \in Nat \ {0}
         /\ pc = "number" => Len(fields) \in 0..2
         /\ pc \in {"after", "loop", "returned", "undefined"} => Len(fields) \in 1..3
<1>1. fields \in Seq(Int) /\ Len(fields) <= 3 /\ s \in Nat \ {0}
  BY DEF Inv, TypeOK
<1>2. Len(fields) \in Nat /\ (fields # <<>> => Len(fields) # 0)
  BY <1>1, EmptySeq
<1>3. pc = "number" => Len(fields) < 3
  BY DEF Inv, ParseFirst
<1>4. pc \in {"after", "loop", "returned", "undefined"} => fields # <<>>
  BY DEF Inv, TypeOK
<1> DEFINE k == Len(fields)
<1>5. /\ k \in Nat /\ k <= 3 /\ (pc = "number" => k < 3)
      /\ (pc \in {"after", "loop", "returned", "undefined"} => k # 0)
  BY <1>1, <1>2, <1>3, <1>4
<1> HIDE DEF k
<1>6. /\ k \in 0..3 /\ (pc = "number" => k \in 0..2)
      /\ (pc \in {"after", "loop", "returned", "undefined"} => k \in 1..3)
  BY <1>5
<1>7. QED
  BY <1>1, <1>6 DEF k

\* strtol() finds a number at an odd place, or the text is not as described.
LEMMA NumberRead ==
  ASSUME Inv, ReadSoFar, parse_int
  PROVE  ReadSoFar'
<1>1. pc = "number" /\ spec' = spec
  BY DEF parse_int
<1>t. TypeOK
  BY DEF Inv
<1> DEFINE k == Len(fields)
           length == Len(spec)
<1>2. k \in 0..2 /\ fields \in Seq(Int)
  BY <1>1, <1>t, FieldsRead DEF TypeOK
<1>3. /\ length \in Nat
      /\ \A i \in 1..length : spec[i] \notin {Comma, Other} => spec[i] \in Numbers
      /\ Comma \notin Numbers /\ Other \notin Numbers /\ Numbers \subseteq Int
  BY <1>t, Places
<1>4. /\ s = 2 * k + 1 /\ s - 1 <= length
      /\ \A i \in 1..s - 1 : IF i % 2 = 1 THEN spec[i] \in Numbers ELSE spec[i] = Comma
      /\ \A i \in 1..k : fields[i] = AsInt(Clamped(spec[2 * i - 1]))
  BY <1>1 DEF ReadSoFar
<1>5. CASE AtNumber
  <2> DEFINE number == AsInt(Clamped(spec[s]))
  <2>1. fields' = Append(fields, number) /\ s' = s + 1 /\ pc' = "after"
    BY <1>5 DEF parse_int
  <2>2. s <= length /\ spec[s] \in Numbers
    <3>1. s <= length /\ spec[s] \notin {Comma, Other}
      BY <1>5 DEF AtNumber
    <3> HIDE DEF k, length
    <3>2. s \in 1..length
      BY <1>2, <1>3, <1>4, <3>1
    <3>3. QED
      BY <1>3, <3>1, <3>2
  <2>3. number \in Int
    BY <1>3, <2>2, Parsed
  <2> HIDE DEF number
  <2>4. /\ Len(fields') = k + 1 /\ fields'[k + 1] = number
        /\ \A i \in 1..k : fields'[i] = fields[i]
    BY <1>2, <2>1, <2>3
  <2> HIDE DEF k, length
  <2>5. \A i \in 1..k + 1 : fields'[i] = AsInt(Clamped(spec[2 * i - 1]))
    <3>1. fields'[k + 1] = AsInt(Clamped(spec[2 * (k + 1) - 1]))
      <4>1. 2 * (k + 1) - 1 = s
        BY <1>2, <1>4
      <4>2. QED
        BY <2>4, <4>1 DEF number
    <3>2. \A i \in 1..k + 1 : i \in 1..k \/ i = k + 1
      BY <1>2
    <3>3. QED
      BY <1>4, <2>4, <3>1, <3>2
  <2>6. s' = 2 * (k + 1) /\ s' - 1 <= length
    BY <1>2, <1>3, <1>4, <2>1, <2>2
  <2>7. ASSUME NEW i \in 1..s' - 1
        PROVE  IF i % 2 = 1 THEN spec[i] \in Numbers ELSE spec[i] = Comma
    <3>1. CASE i = s
      <4>1. s % 2 = 1
        BY <1>2, <1>4
      <4>2. QED
        BY <2>2, <3>1, <4>1
    <3>2. CASE i # s
      <4>1. i \in 1..s - 1
        BY <1>2, <1>4, <2>1, <3>2
      <4>2. QED
        BY <1>4, <4>1
    <3>3. QED
      BY <3>1, <3>2
  <2>8. QED
    BY <1>1, <2>1, <2>4, <2>5, <2>6, <2>7 DEF ReadSoFar, length
<1>6. CASE ~AtNumber
  <2>1. fields' = fields /\ s' = s /\ pc' = "rejected"
    BY <1>6 DEF parse_int
  <2>2. ASSUME Grammar(spec) PROVE FALSE
    <3>1. /\ length \in {1, 3, 5}
          /\ \A i \in 1..length : IF i % 2 = 1 THEN spec[i] \in Numbers ELSE spec[i] = Comma
      BY <2>2 DEF Grammar
    <3>2. s > length \/ spec[s] \in {Comma, Other}
      BY <1>6, <1>t, <1>3 DEF AtNumber, TypeOK
    <3> HIDE DEF k, length
    <3>3. s \in 1..length /\ s % 2 = 1
      BY <1>2, <1>4, <3>1
    <3>4. spec[s] \in Numbers /\ ~(s > length)
      BY <3>1, <3>3
    <3>5. QED
      BY <1>3, <3>2, <3>4
  <2>3. QED
    BY <1>1, <1>4, <2>1, <2>2 DEF ReadSoFar
<1>7. QED
  BY <1>5, <1>6

\* A comma is read at an even place, and a number must follow.
LEMMA CommaRead ==
  ASSUME Inv, ReadSoFar, NextNumber
  PROVE  ReadSoFar'
<1>1. /\ pc = "after" /\ pc' = "number" /\ AtComma /\ s' = s + 1
      /\ UNCHANGED <<spec, fields, frame, v>>
  BY DEF NextNumber
<1>t. TypeOK
  BY DEF Inv
<1> DEFINE k == Len(fields)
           length == Len(spec)
<1>2. k \in 1..3
  BY <1>1, FieldsRead
<1>3. length \in Nat
  BY <1>t, Places
<1>4. /\ s = 2 * k /\ s - 1 <= length
      /\ \A i \in 1..s - 1 : IF i % 2 = 1 THEN spec[i] \in Numbers ELSE spec[i] = Comma
      /\ \A i \in 1..k : fields[i] = AsInt(Clamped(spec[2 * i - 1]))
  BY <1>1 DEF ReadSoFar
<1>5. s <= length /\ spec[s] = Comma
  BY <1>1 DEF AtComma
<1> HIDE DEF k, length
<1>6. s' = 2 * k + 1 /\ s' - 1 <= length
  BY <1>1, <1>2, <1>3, <1>4, <1>5
<1>7. ASSUME NEW i \in 1..s' - 1
      PROVE  IF i % 2 = 1 THEN spec[i] \in Numbers ELSE spec[i] = Comma
  <2>1. CASE i = s
    <3>1. ~(s % 2 = 1)
      BY <1>2, <1>4
    <3>2. QED
      BY <1>5, <2>1, <3>1
  <2>2. CASE i # s
    <3>1. i \in 1..s - 1
      BY <1>1, <1>2, <1>4, <2>2
    <3>2. QED
      BY <1>4, <3>1
  <2>3. QED
    BY <2>1, <2>2
<1>8. QED
  BY <1>1, <1>4, <1>6, <1>7 DEF ReadSoFar, k, length

\* parse() returns at the end of the text, and fails where it goes on.
LEMMA EndRead ==
  ASSUME Inv, ReadSoFar, AllRead
  PROVE  ReadSoFar'
<1>1. /\ pc = "after" /\ ~(AtComma /\ Len(fields) < 3)
      /\ IF AtEnd THEN pc' = "loop" ELSE pc' = "rejected"
      /\ UNCHANGED <<spec, s, fields, v>>
  BY DEF AllRead
<1>t. TypeOK
  BY DEF Inv
<1> DEFINE k == Len(fields)
           length == Len(spec)
<1>2. k \in 1..3
  BY <1>1, FieldsRead
<1>3. length \in Nat
  BY <1>t, Places
<1>4. /\ s = 2 * k /\ s - 1 <= length
      /\ \A i \in 1..s - 1 : IF i % 2 = 1 THEN spec[i] \in Numbers ELSE spec[i] = Comma
      /\ \A i \in 1..k : fields[i] = AsInt(Clamped(spec[2 * i - 1]))
  BY <1>1 DEF ReadSoFar
<1>5. CASE AtEnd
  <2>1. s > length
    BY <1>5 DEF AtEnd
  <2> HIDE DEF k, length
  <2>2. length = 2 * k - 1 /\ length = s - 1 /\ length \in {1, 3, 5}
    BY <1>2, <1>3, <1>4, <2>1
  <2>3. Grammar(spec)
    BY <1>4, <2>2 DEF Grammar, length
  <2>4. QED
    BY <1>1, <1>4, <1>5, <2>2, <2>3 DEF ReadSoFar, k, length
<1>6. CASE ~AtEnd
  <2>1. ~(s > length)
    BY <1>6 DEF AtEnd
  <2>2. ASSUME Grammar(spec) PROVE FALSE
    <3>1. /\ length \in {1, 3, 5}
          /\ \A i \in 1..length : IF i % 2 = 1 THEN spec[i] \in Numbers ELSE spec[i] = Comma
      BY <2>2 DEF Grammar
    <3>2. ~(s <= length /\ spec[s] = Comma) \/ ~(k < 3)
      BY <1>1 DEF AtComma
    <3> HIDE DEF k, length
    <3>3. s \in 1..length /\ ~(s % 2 = 1) /\ s <= length /\ k < 3
      BY <1>2, <1>4, <2>1, <3>1
    <3>4. QED
      BY <3>1, <3>2, <3>3
  <2>3. QED
    BY <1>1, <1>4, <1>6, <2>2 DEF ReadSoFar
<1>7. QED
  BY <1>5, <1>6

\* Before anything is read, anything may follow.
LEMMA InitRead == Init => ReadSoFar
<1> SUFFICES ASSUME Init PROVE ReadSoFar
  OBVIOUS
<1>1. pc = "number" /\ s = 1 /\ Len(fields) = 0
  BY EmptySeq DEF Init
<1>2. Len(spec) \in Nat
  BY InitInv, Places DEF Inv
<1>3. QED
  BY <1>1, <1>2 DEF ReadSoFar

\* Every step of parse() keeps what was read; get_all() does not read.
LEMMA NextRead == Inv /\ ReadSoFar /\ [Next]_vars => ReadSoFar'
<1> SUFFICES ASSUME Inv, ReadSoFar, [Next]_vars PROVE ReadSoFar'
  OBVIOUS
<1>1. ASSUME ListFrame \/ AllListed PROVE ReadSoFar'
  <2>1. /\ pc = "loop" /\ pc' \in {"loop", "returned", "undefined"}
        /\ UNCHANGED <<spec, s, fields>>
    BY <1>1 DEF ListFrame, AllListed, Advance
  <2>2. QED
    BY <2>1 DEF ReadSoFar
<1>2. CASE UNCHANGED vars
  BY <1>2 DEF vars, ReadSoFar
<1>3. QED
  BY <1>1, <1>2, NumberRead, CommaRead, EndRead DEF Next

\* Whatever the text, parse() accepts it exactly when it is
\* FIRST[,LAST[,STEP]], and reads all of it.
THEOREM AlwaysAcceptsGrammar == Spec => []AcceptsGrammar
<1>1. ReadSoFar => AcceptsGrammar
  BY DEF ReadSoFar, AcceptsGrammar
<1>2. QED
  BY InitInv, NextInv, InitRead, NextRead, <1>1, PTL DEF Spec

-----------------------------------------------------------------------------
(* get_all(): the frames listed are the first ones that the text means.    *)

\* Not past the last frame, in the direction of the step.
Within(f) == IF Step > 0 THEN f <= Last ELSE f >= Last

ListedSoFar ==
  pc \in {"loop", "returned", "undefined"} /\ Representable =>
    /\ \A i \in 1..Len(v) : v[i] = First + (i - 1) * Step
    /\ v # <<>> => Within(First + (Len(v) - 1) * Step)
    /\ frame = First + Len(v) * Step
    /\ pc = "returned" => ~Within(frame)

\* A number that is an int is kept as it is.
LEMMA IntsKept ==
  ASSUME NEW n \in INT_MIN..INT_MAX
  PROVE  AsInt(Clamped(n)) = n
<1>1. /\ INT_MAX \in Nat /\ LONG_MAX \in Nat /\ INT_MAX <= LONG_MAX
      /\ INT_MIN = -INT_MAX - 1 /\ LONG_MIN = -LONG_MAX - 1
  BY LimitsAssumption DEF INT_MIN, LONG_MIN
<1>2. n \in Int /\ n <= LONG_MAX /\ n >= LONG_MIN
  BY <1>1
<1>3. Clamped(n) = n
  BY <1>1, <1>2 DEF Clamped
<1>4. ASSUME NEW a \in Nat, NEW b \in Nat, a < b
      PROVE  a % b = a
  BY <1>4
<1>5. n - INT_MIN \in Nat /\ 2 * (INT_MAX + 1) \in Nat /\ n - INT_MIN < 2 * (INT_MAX + 1)
  BY <1>1
<1>6. (n - INT_MIN) % (2 * (INT_MAX + 1)) = n - INT_MIN
  BY <1>4, <1>5
<1>7. QED
  BY <1>1, <1>2, <1>3, <1>6 DEF AsInt

\* Of a text that means frames, parse() keeps what it means.
LEMMA MeansKept ==
  ASSUME Inv, ReadSoFar, pc \in {"loop", "returned", "undefined"}, Representable
  PROVE  /\ m_first = First /\ m_last = Last /\ m_step = Step
         /\ First \in Int /\ Last \in Int /\ Step \in Int /\ Step # 0
<1> DEFINE k == Len(fields)
<1>1. /\ Grammar(spec) /\ Len(spec) = 2 * k - 1
      /\ \A i \in 1..k : fields[i] = AsInt(Clamped(spec[2 * i - 1]))
  BY DEF ReadSoFar
<1>2. k \in 1..3
  BY FieldsRead
<1>3. First \in INT_MIN..INT_MAX /\ Last \in INT_MIN..INT_MAX /\ Step \in INT_MIN..INT_MAX
      /\ Step # 0
  BY DEF Representable
<1>4. INT_MIN \in Int /\ INT_MAX \in Int
  BY LimitsAssumption DEF INT_MIN
<1>5. First \in Int /\ Last \in Int /\ Step \in Int
  BY <1>3, <1>4
<1> HIDE DEF k
<1>6. fields[1] = First
  <2>1. fields[1] = AsInt(Clamped(spec[1]))
    <3>1. 1 \in 1..k /\ 2 * 1 - 1 = 1
      BY <1>2
    <3>2. QED
      BY <1>1, <3>1
  <2>2. QED
    BY <1>3, <2>1, IntsKept DEF First
<1>7. CASE k = 1
  <2>1. Len(spec) = 1
    BY <1>1, <1>7
  <2>2. Last = First /\ Step = 1
    BY <1>5, <2>1 DEF Last, Step
  <2>3. QED
    BY <1>3, <1>5, <1>6, <1>7, <2>2 DEF m_first, m_last, m_step, k
<1>8. CASE k # 1
  <2>1. fields[2] = AsInt(Clamped(spec[3]))
    <3>1. 2 \in 1..k /\ 2 * 2 - 1 = 3
      BY <1>2, <1>8
    <3>2. QED
      BY <1>1, <3>1
  <2>2. Len(spec) >= 3
    BY <1>1, <1>2, <1>8
  <2>3. fields[2] = Last
    BY <1>3, <2>1, <2>2, IntsKept DEF Last
  <2>4. m_first = First /\ m_last = Last
    BY <1>6, <1>8, <2>3 DEF m_first, m_last, k
  <2>5. CASE k = 2
    <3>1. Len(spec) = 3
      BY <1>1, <2>5
    <3>2. Step = IF First <= Last THEN 1 ELSE -1
      BY <3>1 DEF Step
    <3>3. m_step = IF m_first <= m_last THEN 1 ELSE -1
      BY <2>5 DEF m_step, k
    <3>4. QED
      BY <1>3, <1>5, <2>4, <3>2, <3>3
  <2>6. CASE k = 3
    <3>1. fields[3] = AsInt(Clamped(spec[5]))
      <4>1. 3 \in 1..k /\ 2 * 3 - 1 = 5
        BY <2>6
      <4>2. QED
        BY <1>1, <4>1
    <3>2. Len(spec) = 5
      BY <1>1, <2>6
    <3>3. Step = spec[5]
      BY <3>2 DEF Step
    <3>4. m_step = Step
      BY <1>3, <2>6, <3>1, <3>3, IntsKept DEF m_step, k
    <3>5. QED
      BY <1>3, <1>5, <2>4, <3>4
  <2>7. QED
    BY <1>2, <1>8, <2>5, <2>6
<1>9. QED
  BY <1>7, <1>8

\* What the text means is that of the text.
LEMMA MeaningKept ==
  ASSUME spec' = spec
  PROVE  /\ First' = First /\ Last' = Last /\ Step' = Step
         /\ Representable' <=> Representable
BY DEF First, Last, Step, Representable, Grammar

\* get_all() starts with the first frame.
LEMMA FirstListed ==
  ASSUME Inv, ReadSoFar, AllRead
  PROVE  ListedSoFar'
<1> SUFFICES ASSUME pc' \in {"loop", "returned", "undefined"}, Representable'
             PROVE  /\ \A i \in 1..Len(v') : v'[i] = First' + (i - 1) * Step'
                    /\ v' = <<>>
                    /\ frame' = First' + Len(v') * Step'
                    /\ pc' # "returned"
  BY DEF ListedSoFar
<1>1. /\ pc = "after" /\ pc' = "loop" /\ frame' = m_first /\ UNCHANGED <<spec, s, fields, v>>
  BY DEF AllRead
<1>2. v' = <<>> /\ Len(<<>>) = 0
  BY <1>1, EmptySeq DEF Inv, ParseFirst
<1>3. Inv' /\ ReadSoFar'
  BY NextInv, EndRead DEF Next
<1>4. m_first' = First' /\ First' \in Int /\ Step' \in Int
  <2>1. (Inv /\ ReadSoFar /\ pc \in {"loop", "returned", "undefined"} /\ Representable =>
           m_first = First /\ First \in Int /\ Step \in Int)'
    BY MeansKept, PTL
  <2>2. QED
    BY <1>3, <2>1
<1>5. m_first' = m_first
  BY <1>1 DEF m_first
<1>6. 0 * Step' = 0 /\ First' + 0 = First'
  <2>1. \A a \in Int : 0 * a = 0 /\ a + 0 = a
    OBVIOUS
  <2>2. QED
    BY <1>4, <2>1, Zenon
<1>7. frame' = First' + Len(v') * Step'
  <2>1. frame' = First'
    BY <1>1, <1>4, <1>5
  <2>2. Len(v') * Step' = 0
    BY <1>2, <1>6
  <2>3. QED
    BY <1>6, <2>1, <2>2
<1>8. QED
  BY <1>1, <1>2, <1>7

\* One more frame is the next one that the text means.
LEMMA OneMoreListed ==
  ASSUME Inv, ReadSoFar, ListedSoFar, ListFrame
  PROVE  ListedSoFar'
<1>1. /\ pc = "loop" /\ ~is_done /\ v' = Append(v, frame) /\ frame' = frame + m_step
      /\ pc' \in {"loop", "undefined"} /\ UNCHANGED <<spec, s, fields>>
  BY DEF ListFrame, Advance
<1>2. First' = First /\ Last' = Last /\ Step' = Step /\ (Representable' <=> Representable)
  BY <1>1, MeaningKept
<1> SUFFICES ASSUME Representable
             PROVE  /\ \A i \in 1..Len(v') : v'[i] = First + (i - 1) * Step
                    /\ Within(First + (Len(v) - 1) * Step)'
                    /\ frame' = First + Len(v') * Step
                    /\ pc' # "returned"
  BY <1>2 DEF ListedSoFar, Within
<1> DEFINE n == Len(v)
<1>3. /\ m_last = Last /\ m_step = Step
      /\ First \in Int /\ Last \in Int /\ Step \in Int /\ Step # 0
  BY <1>1, MeansKept
<1>4. v \in Seq(Int) /\ frame \in Int
  BY DEF Inv, TypeOK
<1>5. /\ n \in Nat /\ Len(v') = n + 1 /\ v'[n + 1] = frame /\ \A i \in 1..n : v'[i] = v[i]
  BY <1>1, <1>4
<1>6. frame = First + n * Step /\ \A i \in 1..n : v[i] = First + (i - 1) * Step
  BY <1>1 DEF ListedSoFar
<1> HIDE DEF n
<1>7. (n + 1) - 1 = n /\ First + (n + 1) * Step = First + n * Step + Step
  BY <1>3, <1>5
<1>8. \A i \in 1..n + 1 : i \in 1..n \/ i = n + 1
  BY <1>5
<1>9. \A i \in 1..n + 1 : v'[i] = First + (i - 1) * Step
  BY <1>5, <1>6, <1>7, <1>8
<1>10. IF Step > 0 THEN frame <= Last ELSE frame >= Last
  BY <1>1, <1>3, <1>4 DEF is_done
<1>11. Within(First + (Len(v) - 1) * Step)'
  BY <1>2, <1>5, <1>6, <1>7, <1>10 DEF Within
<1>12. frame' = First + Len(v') * Step
  BY <1>1, <1>3, <1>5, <1>6, <1>7
<1>13. QED
  BY <1>1, <1>5, <1>9, <1>11, <1>12

\* get_all() returns at the first frame past the last.
LEMMA LastListed ==
  ASSUME Inv, ReadSoFar, ListedSoFar, AllListed
  PROVE  ListedSoFar'
<1>1. /\ pc = "loop" /\ is_done /\ pc' = "returned" /\ UNCHANGED <<spec, s, fields, frame, v>>
  BY DEF AllListed
<1>2. First' = First /\ Last' = Last /\ Step' = Step /\ (Representable' <=> Representable)
  BY <1>1, MeaningKept
<1>3. ASSUME Representable
      PROVE  ~Within(frame)
  <2>1. m_last = Last /\ m_step = Step /\ Last \in Int /\ Step \in Int /\ frame \in Int
    BY <1>1, <1>3, MeansKept DEF Inv, TypeOK
  <2>2. QED
    BY <1>1, <2>1 DEF Within, is_done
<1>4. QED
  BY <1>1, <1>2, <1>3 DEF ListedSoFar, Within

\* Before get_all() starts, nothing is listed.
LEMMA NextListed == Inv /\ ReadSoFar /\ ListedSoFar /\ [Next]_vars => ListedSoFar'
<1> SUFFICES ASSUME Inv, ReadSoFar, ListedSoFar, [Next]_vars PROVE ListedSoFar'
  OBVIOUS
<1>1. ASSUME parse_int \/ NextNumber PROVE ListedSoFar'
  BY <1>1 DEF parse_int, NextNumber, ListedSoFar
<1>2. CASE UNCHANGED vars
  <2>1. UNCHANGED <<spec, pc, s, fields, frame, v>>
    BY <1>2 DEF vars
  <2>2. First' = First /\ Last' = Last /\ Step' = Step /\ (Representable' <=> Representable)
    BY <2>1, MeaningKept
  <2>3. QED
    BY <2>1, <2>2 DEF ListedSoFar, Within
<1>3. QED
  BY <1>1, <1>2, FirstListed, OneMoreListed, LastListed DEF Next

\* The number of multiples of a step that do not go past a distance.
LEMMA Steps ==
  ASSUME NEW distance \in Int, NEW step \in Nat \ {0}, NEW n \in Nat,
         n # 0 => (n - 1) * step <= distance, distance < n * step
  PROVE  n = IF distance < 0 THEN 0 ELSE distance \div step + 1
<1>1. ASSUME NEW a \in Nat, NEW b \in Nat \ {0}, NEW q \in Int, q * b <= a, a < (q + 1) * b
      PROVE  a \div b = q
  BY <1>1
<1>2. ASSUME NEW a \in Nat, NEW b \in Nat
      PROVE  a * b \in Nat
  BY <1>2
<1>3. CASE distance < 0
  <2>1. ASSUME n # 0 PROVE FALSE
    <3>1. n - 1 \in Nat
      BY <2>1
    <3>2. (n - 1) * step \in Nat
      BY <1>2, <3>1
    <3>3. QED
      BY <1>3, <2>1, <3>2
  <2>2. QED
    BY <1>3, <2>1
<1>4. CASE ~(distance < 0)
  <2>1. distance \in Nat
    BY <1>4
  <2>2. n # 0
    BY <2>1
  <2>3. distance \div step = n - 1
    <3>1. n - 1 \in Int /\ (n - 1) + 1 = n
      OBVIOUS
    <3>2. (n - 1) * step <= distance /\ distance < ((n - 1) + 1) * step
      BY <2>2, <3>1
    <3>3. QED
      BY <1>1, <2>1, <3>1, <3>2
  <2>4. QED
    BY <1>4, <2>3
<1>5. QED
  BY <1>3, <1>4

\* What is listed when get_all() returns is what the text means.
LEMMA AllOfThem == Inv /\ ReadSoFar /\ ListedSoFar => RangeListed
<1> SUFFICES ASSUME Inv, ReadSoFar, ListedSoFar, pc = "returned", Representable
             PROVE  v = [i \in 1..Count |-> First + (i - 1) * Step]
  BY DEF RangeListed
<1> DEFINE n == Len(v)
<1>1. v \in Seq(Int) /\ n \in Nat /\ (n # 0 => v # <<>>)
  BY EmptySeq DEF Inv, TypeOK
<1>2. First \in Int /\ Last \in Int /\ Step \in Int /\ Step # 0
  BY MeansKept
<1>3. /\ \A i \in 1..n : v[i] = First + (i - 1) * Step
      /\ n # 0 => Within(First + (n - 1) * Step)
      /\ ~Within(First + n * Step)
  BY <1>1 DEF ListedSoFar
<1> HIDE DEF n
<1>4. n = Count
  <2>1. CASE Step > 0
    <3> DEFINE distance == Last - First
    <3>1. /\ distance \in Int /\ Step \in Nat \ {0}
          /\ n # 0 => (n - 1) * Step <= distance
          /\ distance < n * Step
      BY <1>1, <1>2, <1>3, <2>1 DEF Within
    <3>2. Count = IF distance < 0 THEN 0 ELSE distance \div Step + 1
      BY <1>2, <2>1 DEF Count
    <3> HIDE DEF distance
    <3>3. QED
      BY <1>1, <3>1, <3>2, Steps
  <2>2. CASE Step < 0
    <3> DEFINE distance == First - Last
               step == -Step
    <3>1. /\ distance \in Int /\ step \in Nat \ {0}
          /\ n # 0 => (n - 1) * step <= distance
          /\ distance < n * step
      <4>1. (n - 1) * step = -((n - 1) * Step) /\ n * step = -(n * Step)
        BY <1>1, <1>2
      <4>2. /\ n # 0 => First + (n - 1) * Step >= Last
            /\ First + n * Step < Last
        BY <1>1, <1>2, <1>3, <2>2 DEF Within
      <4>3. QED
        BY <1>1, <1>2, <2>2, <4>1, <4>2
    <3>2. Count = IF distance < 0 THEN 0 ELSE distance \div step + 1
      BY <1>2, <2>2 DEF Count
    <3> HIDE DEF distance, step
    <3>3. QED
      BY <1>1, <3>1, <3>2, Steps
  <2>3. QED
    BY <1>2, <2>1, <2>2
<1>5. v = [i \in 1..n |-> v[i]]
  BY <1>1 DEF n
<1>6. [i \in 1..n |-> v[i]] = [i \in 1..n |-> First + (i - 1) * Step]
  BY <1>3
<1>7. QED
  BY <1>4, <1>5, <1>6

\* However wide an int is, get_all() lists exactly the frames that the text
\* means, from the first in steps up to the last, or down to it.
THEOREM AlwaysRangeListed == Spec => []RangeListed
<1>1. Init => ListedSoFar
  BY DEF Init, ListedSoFar
<1>2. QED
  BY InitInv, NextInv, InitRead, NextRead, <1>1, NextListed, AllOfThem, PTL DEF Spec
=============================================================================
