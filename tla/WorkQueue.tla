------------------------------ MODULE WorkQueue ------------------------------
(***************************************************************************)
(* What a controller promises of a batch, without workers, messages and    *)
(* sockets: every piece of work waits, is held, or is done; it is held by  *)
(* one holder at a time, given back when that holder goes, and never       *)
(* forgotten before it is done; done work stays done; and the queue is     *)
(* over only when everything is done.                                      *)
(***************************************************************************)
CONSTANT Work

VARIABLES
  todo,   \* what waits for a holder
  held,   \* what holders have; a holder keeps what it did until it gets more
  saved,  \* what is done
  over    \* whether the batch has ended

queueVars == <<todo, held, saved, over>>

\* Work that leaves nothing behind counts as done from the first.
Init ==
  /\ todo = Work
  /\ held = {}
  /\ saved \subseteq Work
  /\ over = FALSE

Take(w) ==
  /\ w \in todo
  /\ todo' = todo \ {w}
  /\ \/ held' = held \cup {w}
     \/ \E old \in held \cap saved : held' = (held \ {old}) \cup {w}
  /\ UNCHANGED <<saved, over>>

Save(w) ==
  /\ w \in held
  /\ saved' = saved \cup {w}
  /\ UNCHANGED <<todo, held, over>>

\* The holder is gone, whether or not it had done its work.
GiveBack(w) ==
  /\ w \in held
  /\ held' = held \ {w}
  /\ todo' = todo \cup {w}
  /\ UNCHANGED <<saved, over>>

\* The holder of done work gets something that is no work.
Release(w) ==
  /\ w \in held \cap saved
  /\ held' = held \ {w}
  /\ UNCHANGED <<todo, saved, over>>

End ==
  /\ todo = {}
  /\ held \subseteq saved
  /\ over' = TRUE
  /\ UNCHANGED <<todo, held, saved>>

Next ==
  \/ ~over /\ \E w \in Work : Take(w) \/ Save(w) \/ GiveBack(w) \/ Release(w)
  \/ ~over /\ End

Spec == Init /\ [][Next]_queueVars
=============================================================================
