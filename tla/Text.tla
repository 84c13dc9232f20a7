-------------------------------- MODULE Text --------------------------------
(***************************************************************************)
(* What util.cpp does with the texts of the command line: frame parameters *)
(* ("%d" and "%0Nd"), local pathnames and end points.  A text is a         *)
(* sequence of characters.  The widths of parameters are ints.             *)
(***************************************************************************)
EXTENDS Strtol, Sequences, FiniteSetsExt

Digit == {"0", "1", "2", "3", "4", "5", "6", "7", "8", "9"}

DigitOf(n) == <<"0", "1", "2", "3", "4", "5", "6", "7", "8", "9">>[n + 1]

ValueOf(digit) == CHOOSE n \in 0..9 : DigitOf(n) = digit

\* The number that a text of digits stands for, and the digits of a number.
Number(digits) ==
  LET value[n \in 0..Len(digits)] ==
        IF n = 0 THEN 0 ELSE 10 * value[n - 1] + ValueOf(digits[n])
  IN  value[Len(digits)]

Decimal[n \in Nat] ==
  IF n < 10 THEN <<DigitOf(n)>> ELSE Decimal[n \div 10] \o <<DigitOf(n % 10)>>

\* The first position from p on that has no digit, at most Len(s) + 1.
AfterDigits(s, p) == Min({q \in p..Len(s) + 1 : q > Len(s) \/ s[q] \notin Digit})

-----------------------------------------------------------------------------
(* Parameters *)

NotFound == [begin |-> 0, end |-> 0, width |-> 0]

\* Where the parameter begins, where the rest of the text begins, and its
\* width.  The search goes on after what a match that failed has consumed.
find_parameter(s) ==
  LET from[p \in 1..Len(s) + 1] ==
        LET begins == {q \in p..Len(s) : s[q] = "%"}
            begin == Min(begins)
            after == begin + 1
            end == IF after <= Len(s) /\ s[after] \in {"0", "d"} THEN AfterDigits(s, after)
                   ELSE after
        IN  IF begins = {} THEN NotFound
            ELSE IF end <= Len(s) /\ s[end] = "d"
            THEN [begin |-> begin, end |-> end + 1, width |-> Number(SubSeq(s, after, end - 1))]
            ELSE from[end]
  IN  from[1]

string_has_parameter(s) == find_parameter(s) # NotFound

\* Mutant of Padded: the width is an upper bound as well.
Padded_Cut(digits, width) ==
  [n \in 1..(width - Len(digits)) |-> "0"] \o
  (IF width = 0 \/ width >= Len(digits) THEN digits
   ELSE SubSeq(digits, Len(digits) - width + 1, Len(digits)))

\* std::setw() with the fill character 0
Padded(digits, width) == [n \in 1..(width - Len(digits)) |-> "0"] \o digits

\* Mutant of substitute_parameter: the rest of the text is left alone.
substitute_parameter_FirstOnly(s, value) ==
  LET found == find_parameter(s)
  IN  IF value >= 0 /\ found # NotFound
      THEN SubSeq(s, 1, found.begin - 1) \o Padded(Decimal[value], found.width) \o
           SubSeq(s, found.end, Len(s))
      ELSE s

\* The text from position p on, then the rest of it after a parameter.
substitute_parameter(s, value) ==
  LET substituted[p \in 1..Len(s) + 1] ==
        LET text == SubSeq(s, p, Len(s))
            found == find_parameter(text)
        IN  IF value >= 0 /\ found # NotFound
            THEN SubSeq(text, 1, found.begin - 1) \o Padded(Decimal[value], found.width) \o
                 substituted[p + found.end - 1]
            ELSE text
  IN  substituted[1]

-----------------------------------------------------------------------------
(* Pathnames and end points *)

is_pathname_local(s) ==
  /\ s = <<>> \/ s[1] # "/"
  /\ \A n \in 1..Len(s) - 1 : SubSeq(s, n, n + 1) # <<".", ".">>

\* Mutant of parse_integer: what follows the number does not matter.
parse_integer_Prefix(s) ==
  IF s = <<>> \/ s[1] \notin Digit THEN -1
  ELSE AsInt(Clamped(Number(SubSeq(s, 1, AfterDigits(s, 1) - 1))))

parse_integer(s) ==
  IF s = <<>> \/ s[1] \notin Digit \/ AfterDigits(s, 1) <= Len(s) THEN -1
  ELSE AsInt(Clamped(Number(s)))

\* parse_endpoint(endpoint, default_hostname, default_port, hostname, port)
parse_endpoint(s, default_hostname, default_port) ==
  LET colons == {n \in DOMAIN s : s[n] = ":"}
      after == SubSeq(s, Min(colons) + 1, Len(s))
      port == parse_integer(IF colons = {} THEN s ELSE after)
  IN  IF colons = {}
      THEN [success |-> TRUE,
            hostname |-> IF port >= 0 \/ s = <<>> THEN default_hostname ELSE s,
            port |-> IF port >= 0 THEN port ELSE default_port]
      ELSE [success |-> after = <<>> \/ port >= 0,
            hostname |-> SubSeq(s, 1, Min(colons) - 1),
            port |-> IF port >= 0 THEN port ELSE default_port]
=============================================================================
