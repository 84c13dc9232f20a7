---------------------------- MODULE MCParameters ----------------------------
(***************************************************************************)
(* Command lines for TLC: short ones out of all kinds of arguments, and    *)
(* long texts in the places where texts matter, with ints of eight bits    *)
(* and longs of fourteen.                                                  *)
(***************************************************************************)
EXTENDS ParametersProperties

CONSTANTS MaxArguments, MaxGroups, MaxText  \* bounds

SequencesUpTo(S, n) == UNION {[1..k -> S] : k \in 0..n}

ControllerArguments ==
  {Word("--in"), Word("--out"), Word("--proxy"), Argument(<<"/">>), Argument(<<"x">>),
   Argument(<<"7">>)}

OtherArguments ==
  {Word(w) : w \in Flags \cup {"--unknown", "worker"}} \cup {Argument(<<>>), Argument(<<"-", "7">>)}

\* Flags with their values, and what may follow them.
Groups ==
  {<<Word("--in"), Argument(<<"/">>), Argument(<<"x">>)>>,
   <<Word("--in"), Word("--out"), Argument(<<"x">>)>>,
   <<Word("--out"), Argument(<<"x">>), Argument(<<"/">>)>>,
   <<Word("--proxy"), Argument(<<"x">>)>>, <<Word("--listen"), Word("--in")>>,
   <<Argument(<<"7">>), Argument(<<"x">>)>>}

\* Ranges of frames, and what is none.
Ranges == SequencesUpTo({"7", ",", "-", " "}, MaxText - 1) \cup
          SequencesUpTo({"7", ","}, MaxText + 2)

\* Names with parameters, and pathnames and end points.
Texts == SequencesUpTo({"%", "0", "1", "d", "."}, MaxText) \cup
         SequencesUpTo({"%", "1", "d", "/", ".", ":"}, MaxText - 1)

SomeCommandLines ==
  {<<Word("controller")>> \o s : s \in SequencesUpTo(ControllerArguments, MaxArguments)} \cup
  {<<Word("controller")>> \o FlattenSeq(s) : s \in SequencesUpTo(Groups, MaxGroups)} \cup
  {<<Word(w)>> \o s : w \in Commands \cup {"help"}, s \in SequencesUpTo(OtherArguments, 3)} \cup
  {<<>>, <<Argument(<<"x">>)>>} \cup
  {<<Word("controller"), Word("--in"), Argument(s), Argument(s), Argument(<<"7">>), Argument(<<"x">>),
     Argument(s)>> : s \in Texts} \cup
  {<<Word("controller"), Word("--out"), Argument(s), Argument(<<"x">>), Argument(<<"7">>), Argument(<<"x">>)>> :
     s \in Texts} \cup
  {<<Word("controller"), Word("--proxy"), Argument(s), Argument(<<"7">>), Argument(s), Argument(s)>> :
     s \in Texts} \cup
  {<<Word("controller"), Argument(s), Argument(<<"x">>)>> : s \in Ranges} \cup
  {<<Word("worker"), Argument(s)>> : s \in Texts}
=============================================================================
