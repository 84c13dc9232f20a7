------------------------------- MODULE Frames -------------------------------
(***************************************************************************)
(* The frames to render: parse() reads "first[,last[,step]]" and get_all() *)
(* lists them.                                                             *)
(*                                                                         *)
(* A text is a sequence of tokens.  A number is what strtol() reads in one *)
(* go, with the blanks and the sign before it; anything else is a comma or *)
(* some other character.                                                   *)
(***************************************************************************)
EXTENDS Strtol, Sequences

CONSTANTS
  Numbers,        \* that the user may write (a bound)
  Comma, Other,
  MaxTokens,      \* of a text (a bound)
  MaxFrames       \* frames that get_all() lists (a bound)

ASSUME BoundsAssumption == MaxTokens \in Nat /\ MaxFrames \in Nat
ASSUME TokensAssumption == Numbers \subseteq Int /\ Comma \notin Int /\ Other \notin Int

Tokens == Numbers \cup {Comma, Other}
Texts == UNION {[1..n -> Tokens] : n \in 0..MaxTokens}

VARIABLES
  spec,      \* the text
  pc,        \* "number", "after", "loop", "returned", "rejected" or "undefined"
  s,         \* where parse() is in the text
  fields,    \* the numbers it has read
  frame, v   \* of get_all()

vars == <<spec, pc, s, fields, frame, v>>

TypeOK ==
  /\ spec \in Texts
  /\ pc \in {"number", "after", "loop", "returned", "rejected", "undefined"}
  /\ s \in Nat \ {0}
  /\ fields \in Seq(Int) /\ Len(fields) <= 3
  /\ pc \in {"after", "loop", "returned", "undefined"} => fields # <<>>
  /\ frame \in Int
  /\ v \in Seq(Int)

Init ==
  /\ spec \in Texts
  /\ pc = "number"
  /\ s = 1
  /\ fields = <<>>
  /\ frame = 0
  /\ v = <<>>

-----------------------------------------------------------------------------
(* parse()                                                                 *)

AtNumber == s <= Len(spec) /\ spec[s] \notin {Comma, Other}
AtComma == s <= Len(spec) /\ spec[s] = Comma
AtEnd == s > Len(spec)

parse_int ==
  /\ pc = "number"
  /\ IF AtNumber
     THEN /\ fields' = Append(fields, AsInt(Clamped(spec[s])))
          /\ s' = s + 1
          /\ pc' = "after"
     ELSE pc' = "rejected" /\ UNCHANGED <<fields, s>>
  /\ UNCHANGED <<spec, frame, v>>

\* A comma announces the last frame, and then the step.
NextNumber ==
  /\ pc = "after"
  /\ AtComma /\ Len(fields) < 3
  /\ s' = s + 1
  /\ pc' = "number"
  /\ UNCHANGED <<spec, fields, frame, v>>

m_first == fields[1]
m_last == IF Len(fields) = 1 THEN m_first ELSE fields[2]
m_step ==
  CASE Len(fields) = 1 -> 1
    [] Len(fields) = 2 -> IF m_first <= m_last THEN 1 ELSE -1
    [] Len(fields) = 3 -> fields[3]

\* The rest of the text not looked at.
AllRead_IgnoreRest ==
  /\ pc = "after"
  /\ ~(AtComma /\ Len(fields) < 3)
  /\ pc' = "loop"
  /\ frame' = m_first
  /\ UNCHANGED <<spec, s, fields, v>>

\* parse() returns; get_all() starts if it was successful.
AllRead ==
  /\ pc = "after"
  /\ ~(AtComma /\ Len(fields) < 3)
  /\ IF AtEnd
     THEN pc' = "loop" /\ frame' = m_first
     ELSE pc' = "rejected" /\ UNCHANGED frame
  /\ UNCHANGED <<spec, s, fields, v>>

-----------------------------------------------------------------------------
(* get_all()                                                               *)

\* The last frame looked for, although a step may go past it.
is_done_AtLast == v # <<>> /\ v[Len(v)] = m_last

\* The last frame taken for one past the end.
is_done_OffByOne == IF m_step > 0 THEN frame >= m_last ELSE frame <= m_last

is_done == IF m_step > 0 THEN frame > m_last ELSE frame < m_last

\* frame += m_step in unsigned arithmetic.
Advance_Wrapping == frame' = AsInt(frame + m_step) /\ UNCHANGED pc

\* frame += m_step: the overflow of an int is undefined.
Advance ==
  /\ frame' = frame + m_step
  /\ pc' = IF frame' \in INT_MIN..INT_MAX THEN pc ELSE "undefined"

ListFrame ==
  /\ pc = "loop"
  /\ ~is_done
  /\ Len(v) < MaxFrames
  /\ v' = Append(v, frame)
  /\ Advance
  /\ UNCHANGED <<spec, s, fields>>

AllListed ==
  /\ pc = "loop"
  /\ is_done
  /\ pc' = "returned"
  /\ UNCHANGED <<spec, s, fields, frame, v>>

-----------------------------------------------------------------------------

Next == parse_int \/ NextNumber \/ AllRead \/ ListFrame \/ AllListed

Spec == Init /\ [][Next]_vars

\* One thread that never blocks.
FairSpec == Spec /\ WF_vars(Next)

-----------------------------------------------------------------------------
(* Properties.                                                             *)

\* The texts that README.md:70 describes, and the numbers in them.
Grammar(t) ==
  /\ Len(t) \in {1, 3, 5}
  /\ \A i \in 1..Len(t) : IF i % 2 = 1 THEN t[i] \in Numbers ELSE t[i] = Comma

\* parse() takes FIRST[,LAST[,STEP]] and nothing else: nothing is left out and
\* nothing follows.
AcceptsGrammar ==
  /\ pc \in {"loop", "returned", "undefined"} => Grammar(spec)
  /\ pc = "rejected" => ~Grammar(spec)

\* The frames that a text means, in ideal integers.
First == spec[1]
Last == IF Len(spec) >= 3 THEN spec[3] ELSE First
Step == IF Len(spec) = 5 THEN spec[5] ELSE IF First <= Last THEN 1 ELSE -1

\* The text means frames that are ints, up to the first one past the last.
Representable ==
  /\ Grammar(spec)
  /\ Step # 0
  /\ {First, Last, Step, Last + Step} \subseteq INT_MIN..INT_MAX

Count ==
  CASE Step > 0 -> IF First > Last THEN 0 ELSE (Last - First) \div Step + 1
    [] Step < 0 -> IF First < Last THEN 0 ELSE (First - Last) \div (-Step) + 1

\* get_all() lists the first frame, every step-th one after it in the
\* direction of the step, none beyond the last.
RangeListed ==
  pc = "returned" /\ Representable => v = [i \in 1..Count |-> First + (i - 1) * Step]

\* No frame is listed twice, in whichever direction and whatever the text: the
\* controller would hand it out to two workers.
NoFrameTwice ==
  v # <<>> /\ m_step # 0 => \A i, j \in 1..Len(v) : i # j => v[i] # v[j]

\* get_all() returns for every text that means frames.
GetAllReturns == (pc = "loop" /\ Representable) ~> pc = "returned"
=============================================================================
