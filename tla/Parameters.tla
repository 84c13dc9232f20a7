----------------------------- MODULE Parameters -----------------------------
(***************************************************************************)
(* Parameters::parse_arguments(): the command, the loop over the flags,    *)
(* one step per turn, and what is left.  An argument is one of the         *)
(* program's words or a text.                                              *)
(***************************************************************************)
EXTENDS Text, SequencesExt

CONSTANT CommandLines  \* the arguments after the program's name

ASSUME CommandLinesAssumption ==
  /\ CommandLines \subseteq Seq([word : STRING, text : Seq(STRING)])
  /\ \A line \in CommandLines : \A n \in DOMAIN line : line[n].word = "" \/ line[n].text = <<>>

VARIABLES
  given,      \* the arguments the program was started with
  args,       \* Arguments::m_args
  pc,         \* "command", "flags", "rest" or "done"
  status,     \* what parse_arguments() returned
  parameters  \* the members of Parameters

vars == <<given, args, pc, status, parameters>>

Commands == {"worker", "proxy", "controller", "unittest"}
Flags == {"--proxy", "--in", "--out", "--listen", "--worker-listen", "--controller-listen"}

\* An argument that is none of the program's words has the word "".
Argument(s) == [word |-> "", text |-> s]
Word(word) == [word |-> word, text |-> <<>>]
None == Argument(<<>>)

\* The Endpoint members are named for what sets them.
Unset ==
  [m_command |-> "unspecified",
   m_endpoints |-> [by \in Flags \cup {"worker"} |-> None],
   m_proxy_endpoints |-> <<>>, m_in_copies |-> <<>>, m_out_copies |-> <<>>,
   m_frames |-> None, m_executable |-> None, m_arguments |-> <<>>]

Init ==
  /\ given \in CommandLines
  /\ args = given
  /\ pc = "command"
  /\ status = 0
  /\ parameters = Unset

Return(code) ==
  /\ pc' = "done"
  /\ status' = code
  /\ UNCHANGED <<given, args, parameters>>

\* The members and what is left of the arguments; then on to the label.
Set(members, left, label) ==
  /\ parameters' = members
  /\ args' = left
  /\ pc' = label
  /\ UNCHANGED <<given, status>>

next_is_flag ==
  /\ args # <<>>
  /\ \/ args[1].word \in Flags \cup {"--unknown"}
     \/ args[1].text # <<>> /\ args[1].text[1] = "-"

\* What strtol() reads up to the end: blanks, a sign, digits.
IsInteger(s) ==
  \E b \in 0..Len(s) :
    LET number == SubSeq(s, b + 1, Len(s))
        digits == IF number # <<>> /\ number[1] \in {"+", "-"} THEN Tail(number) ELSE number
    IN  /\ \A n \in 1..b : s[n] = " "
        /\ digits # <<>> /\ \A n \in DOMAIN digits : digits[n] \in Digit

\* Does m_frames.parse() accept it: FIRST[,LAST[,STEP]]?  (Module Frames has
\* what it then stands for.)  What begins with a dash is taken for a flag and
\* never gets there.
IsRange(argument) ==
  LET s == argument.text
      commas == {n \in DOMAIN s : s[n] = ","}
      ends == commas \cup {0, Len(s) + 1}
  IN  /\ s # <<>> /\ s[1] # "-"
      /\ Cardinality(commas) <= 2
      /\ \A m, n \in ends :
           m < n /\ (\A k \in ends : k <= m \/ n <= k) => IsInteger(SubSeq(s, m + 1, n - 1))

\* None of the words has a slash or two dots.
IsLocal(argument) == is_pathname_local(argument.text)

-----------------------------------------------------------------------------
Command ==
  /\ pc = "command"
  /\ IF args = <<>> \/ args[1].word = "help" THEN Return(2)
     ELSE IF args[1].word \notin Commands THEN Return(1)
     ELSE Set([parameters EXCEPT !.m_command = args[1].word], Tail(args), "flags")

\* Mutant of CommandOf: all flags are the controller's.
CommandOf_Controller(flag) == "controller"

CommandOf(flag) ==
  IF flag \in {"--worker-listen", "--controller-listen"} THEN "proxy" ELSE "controller"

\* A turn of the loop for a flag that is refused.
FlagFails ==
  /\ pc = "flags" /\ next_is_flag
  /\ LET flag == args[1].word
         values == IF flag \in {"--in", "--out"} THEN 2 ELSE 1
     IN  flag \notin Flags \/ parameters.m_command # CommandOf(flag) \/ Len(args) <= values
  /\ Return(1)

Accepted(flag) ==
  /\ pc = "flags" /\ next_is_flag
  /\ args[1].word = flag
  /\ parameters.m_command = CommandOf(flag)

\* Mutant of RemoteOf: the second name, whatever the flag.
RemoteOf_Second(flag, copy) == copy.destination

RemoteOf(flag, copy) == IF flag = "--in" THEN copy.destination ELSE copy.source

CopyFlag(flag) ==
  /\ Accepted(flag) /\ Len(args) >= 3
  /\ LET copy == [source |-> args[2], destination |-> args[3]]
     IN  IF ~IsLocal(RemoteOf(flag, copy)) THEN Return(1)
         ELSE Set(IF flag = "--in"
                  THEN [parameters EXCEPT !.m_in_copies = Append(@, copy)]
                  ELSE [parameters EXCEPT !.m_out_copies = Append(@, copy)],
                  SubSeq(args, 4, Len(args)), "flags")

EndpointFlag(flag) ==
  /\ Accepted(flag) /\ Len(args) >= 2
  /\ Set(IF flag = "--proxy"
         THEN [parameters EXCEPT !.m_proxy_endpoints = Append(@, args[2])]
         ELSE [parameters EXCEPT !.m_endpoints[flag] = args[2]],
         SubSeq(args, 3, Len(args)), "flags")

EndOfFlags ==
  /\ pc = "flags" /\ ~next_is_flag
  /\ Set(parameters, args, "rest")

WorkerRest ==
  /\ pc = "rest" /\ parameters.m_command = "worker"
  /\ IF Len(args) # 1 THEN Return(1)
     ELSE Set([parameters EXCEPT !.m_endpoints["worker"] = args[1]], <<>>, "done")

NothingRest ==
  /\ pc = "rest" /\ parameters.m_command \in {"proxy", "unittest"}
  /\ Return(IF args = <<>> THEN 0 ELSE 1)

\* fill_from_rest(m_arguments)
TheRest == SubSeq(args, 3, Len(args))

ControllerRest ==
  /\ pc = "rest" /\ parameters.m_command = "controller"
  /\ IF Len(args) < 2 \/ ~IsRange(args[1]) \/ ~IsLocal(args[2]) THEN Return(1)
     ELSE Set([parameters EXCEPT !.m_frames = args[1], !.m_executable = args[2],
                                 !.m_arguments = TheRest], <<>>, "done")

Next ==
  \/ Command \/ FlagFails \/ EndOfFlags
  \/ \E flag \in {"--in", "--out"} : CopyFlag(flag)
  \/ \E flag \in Flags \ {"--in", "--out"} : EndpointFlag(flag)
  \/ WorkerRest \/ NothingRest \/ ControllerRest

Spec == Init /\ [][Next]_vars
=============================================================================
