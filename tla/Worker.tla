------------------------------- MODULE Worker -------------------------------
(***************************************************************************)
(* What a worker does with one request (worker.cpp).  A worker keeps no    *)
(* state between requests but the files below its current directory, so a  *)
(* handler is a function from a request and the files to a response and    *)
(* the files it leaves.  outcome is how the operating system treats it:    *)
(*   "ok"       the calls it makes succeed,                                *)
(*   "error"    the file cannot be opened or is refused, or the program    *)
(*              cannot be run or exits with a non-zero status,             *)
(*   "partial"  the file is open, but not written or read to its end, by   *)
(*              the worker or, before a COPY_IN, by the controller; or the *)
(*              program's output is not written to its end,                *)
(*   "signal"   the program is killed by a signal before it wrote its      *)
(*              output; WEXITSTATUS() of such a status is 0,               *)
(*   "fork"     fork() fails, and the status, which is then never written, *)
(*              reads as 0 (when it does not, that is an "error").         *)
(***************************************************************************)
EXTENDS Drp

\* "partial" goes unnoticed: read_file() and write_file() test the open only.
Outcomes == {"ok"} \cup (Faults \cap {"error", "partial", "signal", "fork"})

\* What a good call and one that breaks off make of a content.
Copied(content, outcome) == IF outcome = "partial" THEN Damaged ELSE content

Handled(newFiles, response) == [files |-> newFiles, response |-> response]

handle_welcome(request, files, outcome) ==
  Handled(files, Response("WELCOME", TRUE, NoFile))

handle_copy_in(request, files, outcome) ==
  IF outcome \in {"ok", "partial"}
  THEN Handled([files EXCEPT ![request.pathname] = Copied(request.value, outcome)],
               Response("COPY_IN", TRUE, NoFile))
  ELSE Handled(files, Response("COPY_IN", FALSE, NoFile))

\* The program is external: run for a frame, it writes every file that some
\* --out copy fetches for that frame.
RenderedFiles(files, frame, content) ==
  [p \in DOMAIN files |->
     IF \E k \in DOMAIN OutCopies : p = OutPath(k, frame) THEN content ELSE files[p]]

handle_execute(request, files, outcome) ==
  IF outcome \in {"ok", "partial"}
  THEN Handled(RenderedFiles(files, request.value, Copied(request.value, outcome)),
               Response("EXECUTE", TRUE, NoFile))
  ELSE Handled(files, Response("EXECUTE", outcome \in {"signal", "fork"}, NoFile))

handle_copy_out(request, files, outcome) ==
  IF outcome \in {"ok", "partial"} /\ files[request.pathname] # NoFile
  THEN Handled(files, Response("COPY_OUT", TRUE, Copied(files[request.pathname], outcome)))
  ELSE Handled(files, Response("COPY_OUT", FALSE, NoFile))

\* Mutant of handle: the type of the response is not set, so it is the first
\* of the enumeration.
handle_TypeUnset(request, files, outcome) ==
  Handled(files, Response("WELCOME", TRUE, NoFile))

\* The switch of start_worker().
handle(request, files, outcome) ==
  CASE request.request_type = "WELCOME"  -> handle_welcome(request, files, outcome)
    [] request.request_type = "COPY_IN"  -> handle_copy_in(request, files, outcome)
    [] request.request_type = "EXECUTE"  -> handle_execute(request, files, outcome)
    [] request.request_type = "COPY_OUT" -> handle_copy_out(request, files, outcome)
    [] OTHER -> Handled(files, Response(request.request_type, TRUE, NoFile))
=============================================================================
