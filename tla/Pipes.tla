-------------------------------- MODULE Pipes --------------------------------
(***************************************************************************)
(* What a proxy promises the workers and the controllers that connect to   *)
(* it: each of them gets at most one partner, of the other kind and for    *)
(* good; what one of the two writes is read by the other, in order, from   *)
(* the first chunk on, including what it wrote before it had a partner;    *)
(* data is lost only at the end of what was written; and a pair is parted  *)
(* only after one of the two has left.                                     *)
(***************************************************************************)
EXTENDS Naturals, SequencesExt

CONSTANTS Workers, Controllers

Peers == Workers \cup Controllers

VARIABLES
  written,  \* how many chunks each peer has written; its n-th is <<peer, n>>
  outbox,   \* what a peer without a partner has written
  inbox,    \* what is on its way to a peer
  read,     \* what each peer has read
  pairs,    \* the pairs <<worker, controller>>
  gone      \* the peers that have left

pipesVars == <<written, outbox, inbox, read, pairs, gone>>

Init ==
  /\ written = [p \in Peers |-> 0]
  /\ outbox = [p \in Peers |-> <<>>]
  /\ inbox = [p \in Peers |-> <<>>]
  /\ read = [p \in Peers |-> <<>>]
  /\ pairs = {}
  /\ gone = {}

Partners(p) == {q \in Peers : <<p, q>> \in pairs \/ <<q, p>> \in pairs}

Write(p) ==
  /\ p \notin gone
  /\ LET chunk == <<p, written[p] + 1>>
     IN  /\ written' = [written EXCEPT ![p] = @ + 1]
         /\ outbox' = [outbox EXCEPT ![p] = IF Partners(p) = {} THEN Append(@, chunk) ELSE @]
         /\ inbox' = [q \in Peers |-> IF q \in Partners(p) \ gone
                                      THEN Append(inbox[q], chunk) ELSE inbox[q]]
  /\ UNCHANGED <<read, pairs, gone>>

Read(p) ==
  /\ inbox[p] # <<>>
  /\ read' = [read EXCEPT ![p] = Append(@, Head(inbox[p]))]
  /\ inbox' = [inbox EXCEPT ![p] = Tail(@)]
  /\ UNCHANGED <<written, outbox, pairs, gone>>

Join(w, c) ==
  /\ \A p \in {w, c} : Partners(p) = {} /\ read[p] = <<>>
  /\ pairs' = pairs \cup {<<w, c>>}
  /\ inbox' = [inbox EXCEPT ![w] = IF w \in gone THEN @ ELSE outbox[c],
                            ![c] = IF c \in gone THEN @ ELSE outbox[w]]
  /\ outbox' = [outbox EXCEPT ![w] = <<>>, ![c] = <<>>]
  /\ UNCHANGED <<written, read, gone>>

\* A peer leaves: the last chunks from it, and to it, may be lost.
Leave(p) ==
  /\ p \notin gone
  /\ gone' = gone \cup {p}
  /\ outbox' \in {[outbox EXCEPT ![p] = s] : s \in Prefixes(outbox[p])}
  /\ \E s \in Prefixes(inbox[p]) :
       \/ Partners(p) = {} /\ inbox' = [inbox EXCEPT ![p] = s]
       \/ \E q \in Partners(p), t \in UNION {Prefixes(inbox[r]) : r \in Partners(p)} :
            IsPrefix(t, inbox[q]) /\ inbox' = [inbox EXCEPT ![p] = s, ![q] = t]
  /\ UNCHANGED <<written, read, pairs>>

\* What a peer wrote that left before it had a partner is forgotten.
Forget(p) ==
  /\ p \in gone
  /\ outbox' = [outbox EXCEPT ![p] = <<>>]
  /\ UNCHANGED <<written, inbox, read, pairs, gone>>

Part(w, c) ==
  /\ <<w, c>> \in pairs
  /\ {w, c} \cap gone # {}
  /\ pairs' = pairs \ {<<w, c>>}
  /\ gone' = gone \cup {w, c}
  /\ \E s \in Prefixes(inbox[w]), t \in Prefixes(inbox[c]) :
       inbox' = [inbox EXCEPT ![w] = s, ![c] = t]
  /\ UNCHANGED <<written, outbox, read>>

Next ==
  \/ \E p \in Peers : Write(p) \/ Read(p) \/ Leave(p) \/ Forget(p)
  \/ \E w \in Workers, c \in Controllers : Join(w, c) \/ Part(w, c)

Spec == Init /\ [][Next]_pipesVars
=============================================================================
