------------------------ MODULE ParametersProperties ------------------------
(***************************************************************************)
(* What the parsing of a command line promises the rest of the program.    *)
(***************************************************************************)
EXTENDS Parameters

CONSTANT SomeFrames  \* frame numbers to put into names

ASSUME SomeFramesAssumption == SomeFrames \subseteq Nat

Succeeded == pc = "done" /\ status = 0

Copies == parameters.m_in_copies \o parameters.m_out_copies

-----------------------------------------------------------------------------
(* Command lines *)

\* A reading of a controller's or proxy's command line: its flags are at the
\* positions S, with their values between them, and end before position n.
Values(n) == IF given[n].word \in {"--in", "--out"} THEN 2 ELSE 1

AreFlags(S, n) ==
  /\ 2..n-1 = UNION {m..m + Values(m) : m \in S}
  /\ \A m \in S : /\ (given[m].word \in {"--worker-listen", "--controller-listen"})
                       <=> given[1].word = "proxy"
                  /\ \A k \in S : m < k => m + Values(m) < k
                  /\ given[m].word = "--in" => IsLocal(given[m + 2])
                  /\ given[m].word = "--out" => IsLocal(given[m + 1])

IsReading(S, n) ==
  /\ AreFlags(S, n)
  /\ IF given[1].word = "proxy" THEN n = Len(given) + 1
     ELSE n < Len(given) /\ IsRange(given[n]) /\ IsLocal(given[n + 1])

FlagsGiven == {n \in 2..Len(given) : given[n].word \in Flags}

Readings == {r \in (SUBSET FlagsGiven) \X (2..Len(given) + 1) : IsReading(r[1], r[2])}

\* The copies of the flags at S, in their order.
CopiesAt(S, flag) ==
  FlattenSeq([n \in DOMAIN given |->
    IF n \in S /\ given[n].word = flag
    THEN <<[source |-> given[n + 1], destination |-> given[n + 2]]>> ELSE <<>>])

\* A proxy or a controller starts exactly if its arguments have the form that
\* usage() prints, whatever looks like a flag, and then has all its copies in
\* the order given.
ReadsUsage ==
  pc = "done" /\ given # <<>> /\ given[1].word \in {"proxy", "controller"} =>
    /\ Succeeded <=> Readings # {}
    /\ Succeeded => \A r \in Readings :
         /\ parameters.m_in_copies = CopiesAt(r[1], "--in")
         /\ parameters.m_out_copies = CopiesAt(r[1], "--out")

\* The program gets all that follows its name, flags of distray included.
ProgramGetsRest ==
  Succeeded /\ parameters.m_command = "controller" =>
    IsSuffix(<<parameters.m_frames, parameters.m_executable>> \o parameters.m_arguments, given)

-----------------------------------------------------------------------------
(* Names *)

\* No name that a worker is sent makes it refuse, for any frame: the checks
\* in worker.cpp that "shouldn't happen, we check this on the controller".
RemoteStaysLocal ==
  Succeeded =>
    /\ is_pathname_local(parameters.m_executable.text)
    /\ \A f \in SomeFrames \cup {-1} :
         /\ \A k \in DOMAIN parameters.m_in_copies :
              is_pathname_local(substitute_parameter(parameters.m_in_copies[k].destination.text, f))
         /\ \A k \in DOMAIN parameters.m_out_copies :
              is_pathname_local(substitute_parameter(parameters.m_out_copies[k].source.text, f))

\* What the code takes for a parameter: "%d", or "%0" and digits and "d".  The
\* digits may be none or zeros, against util.cpp:84 "(where N is a positive
\* integer)".
IsParameter(s) ==
  /\ Len(s) >= 2 /\ s[1] = "%" /\ s[Len(s)] = "d"
  /\ Len(s) > 2 => s[2] = "0" /\ \A n \in 2..Len(s) - 1 : s[n] \in Digit

\* Every parameter is replaced, at its place and at once; nothing else is.
Replaced(s, value) ==
  LET found == {r \in (1..Len(s)) \X (1..Len(s)) : IsParameter(SubSeq(s, r[1], r[2]))}
      piece(n) ==
        IF \E r \in found : r[1] = n
        THEN LET r == CHOOSE r \in found : r[1] = n
             IN  Padded(Decimal[value], Number(SubSeq(s, n + 1, r[2] - 1)))
        ELSE IF \E r \in found : r[1] < n /\ n <= r[2] THEN <<>> ELSE <<s[n]>>
  IN  FlattenSeq([n \in DOMAIN s |-> piece(n)])

\* The arguments of the program have the frame number for all that the code
\* takes for a parameter, although it searches from the left, part by part.
ReplacesParameters ==
  Succeeded =>
    \A k \in DOMAIN parameters.m_arguments, f \in SomeFrames :
      LET s == parameters.m_arguments[k].text
      IN  substitute_parameter(s, f) = Replaced(s, f)

\* The files of two frames have different names exactly if the name has a
\* parameter, however wide: what module Drp takes for granted.
FramesHaveNames ==
  Succeeded =>
    \A k \in DOMAIN Copies, f, g \in SomeFrames :
      LET s == Copies[k].destination.text
      IN  f # g => (string_has_parameter(s) <=>
                    substitute_parameter(s, f) # substitute_parameter(s, g))

-----------------------------------------------------------------------------
(* End points *)

DefaultHost == <<"h">>
DefaultPort == 9

IsNumber(s) == s # <<>> /\ \A n \in DOMAIN s : s[n] \in Digit

\* What a text can mean: nothing, PORT, HOSTNAME, HOSTNAME:PORT, HOSTNAME: or
\* :PORT.
Meanings(s) ==
  (IF s = <<>> THEN {<<DefaultHost, DefaultPort>>} ELSE {}) \cup
  (IF IsNumber(s) THEN {<<DefaultHost, Number(s)>>} ELSE {}) \cup
  (IF s # <<>> /\ ~IsNumber(s) /\ \A n \in DOMAIN s : s[n] # ":"
   THEN {<<s, DefaultPort>>} ELSE {}) \cup
  {<<SubSeq(s, 1, n - 1), IF n = Len(s) THEN DefaultPort ELSE Number(SubSeq(s, n + 1, Len(s)))>> :
     n \in {n \in DOMAIN s : /\ s[n] = ":" /\ \A m \in 1..n - 1 : s[m] # ":"
                             /\ n = Len(s) \/ IsNumber(SubSeq(s, n + 1, Len(s)))}}

\* The text is a number, or has one behind its first colon, that is no int.
PortTooLarge(s) ==
  \E n \in 0..Len(s) : LET digits == SubSeq(s, n + 1, Len(s))
                       IN  /\ n > 0 => s[n] = ":" /\ \A m \in 1..n - 1 : s[m] # ":"
                           /\ IsNumber(digits) /\ Number(digits) > INT_MAX

\* The end point of a worker is one of the forms of util.hpp, or refused.  A
\* port that is no int is read as another one, or as a name, by the int that
\* keeps the low bits.
EndpointForms ==
  Succeeded /\ parameters.m_command = "worker" =>
    LET s == parameters.m_endpoints["worker"].text
        parsed == parse_endpoint(s, DefaultHost, DefaultPort)
    IN  PortTooLarge(s) \/
        IF parsed.success THEN {<<parsed.hostname, parsed.port>>} = Meanings(s) ELSE Meanings(s) = {}
=============================================================================
