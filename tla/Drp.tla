--------------------------------- MODULE Drp ---------------------------------
(***************************************************************************)
(* The Distray protocol: what a controller asks of a worker and what the   *)
(* worker answers (Drp.proto), the file copies of the command line         *)
(* (Parameters.hpp), and the names of the files the requests are about.    *)
(*                                                                         *)
(* File names and contents are abstracted to what the protocol does with   *)
(* them.  A pathname is <<direction, index of the copy, frame>>, where the *)
(* frame is the number substituted for "%d", or Unsubstituted when the     *)
(* name is used as it was written.  A content is the frame it was made     *)
(* for, in the same way, or Damaged: cut short or empty.                   *)
(***************************************************************************)
EXTENDS Integers, Sequences

CONSTANTS
  InCopies,   \* Parameters::m_in_copies, one record per --in flag
  OutCopies,  \* Parameters::m_out_copies, one record per --out flag
  AllFrames,  \* Frames::get_all(), the frames in the order to be rendered
  NoFile,     \* the content of a file that does not exist
  Damaged,    \* the content of a file that was not written or read to its end
  Faults      \* what may go wrong in a run, a subset of AllFaults

FileCopy == [source : BOOLEAN, destination : BOOLEAN]

ASSUME CopiesAssumption ==
  /\ InCopies \in Seq(FileCopy)
  /\ OutCopies \in Seq(FileCopy)

\* get_all() steps by a non-zero constant, so it never repeats a frame.
ASSUME FramesAssumption ==
  /\ AllFrames \in Seq(Int)
  /\ \A m, n \in DOMAIN AllFrames : AllFrames[m] = AllFrames[n] => m = n

ASSUME NoFileAssumption == NoFile \notin Int /\ Damaged \notin Int \cup {NoFile}

AllFaults ==
  {"close", "lost", "accept", "connect", "poll", "read_file", "write_file",
   "oversize", "error", "partial", "signal", "fork"}

\* A fork() that fails leaves any status behind, that of a failure included.
ASSUME FaultsAssumption ==
  Faults \subseteq AllFaults /\ ("fork" \in Faults => "error" \in Faults)

FrameSet == {AllFrames[n] : n \in DOMAIN AllFrames}

\* m_frame of a RemoteWorker that was never given a frame.
NoFrame == -1

-----------------------------------------------------------------------------
(* File copies and their names. *)

\* FileCopy::has_parameter(): does either name contain "%d" or "%0Nd"?
has_parameter(copy) == copy.source \/ copy.destination

Unsubstituted == -1

\* The frame that ends up in a name.  A name without a parameter stays as it
\* is, and so does every name when the value is negative.
substitute_parameter(hasParameter, value) ==
  IF hasParameter /\ value >= 0 THEN value ELSE Unsubstituted

NoPath == <<"none", 0, Unsubstituted>>

\* Mutant of OutPath: "%d" is not replaced.
OutPath_AsWritten(k, frame) == <<"out", k, Unsubstituted>>

\* Remote name of the k-th --in copy and of the k-th --out copy.
InPath(k, frame)  == <<"in", k, substitute_parameter(InCopies[k].destination, frame)>>
OutPath(k, frame) == <<"out", k, substitute_parameter(OutCopies[k].source, frame)>>

\* What is read locally for the k-th --in copy, and the local name under
\* which the k-th --out copy is saved.
InContent(k, frame) == substitute_parameter(InCopies[k].source, frame)
OutName(k, frame)   == <<k, substitute_parameter(OutCopies[k].destination, frame)>>

Names == FrameSet \cup {Unsubstituted}

\* read_file() and write_file() only report a file that cannot be opened:
\* where reads or writes may break off, any content may be damaged.
Partial(contents) == contents \cup (IF "partial" \in Faults THEN {Damaged} ELSE {})

Contents == Partial(Names \cup {NoFile})

RemotePaths ==
  ({"in"} \X (DOMAIN InCopies) \X Names) \cup ({"out"} \X (DOMAIN OutCopies) \X Names)

LocalPaths == (DOMAIN OutCopies) \X Names

-----------------------------------------------------------------------------
(* Messages.                                                               *)

RequestTypes == {"WELCOME", "COPY_IN", "EXECUTE", "COPY_OUT"}

\* value is the frame number among the arguments of an EXECUTE and, of a
\* COPY_IN, the local file that was read.  That a content was cut short
\* shows in the file made from it.
Request(type, pathname, value) ==
  [request_type |-> type, pathname |-> pathname, value |-> value]

WelcomeRequest == Request("WELCOME", NoPath, Unsubstituted)
CopyInRequest(k, frame) == Request("COPY_IN", InPath(k, frame), InContent(k, frame))

\* Mutant of ExecuteRequest: "%d" is not replaced in the arguments.
ExecuteRequest_AsWritten(frame) == Request("EXECUTE", NoPath, Unsubstituted)

ExecuteRequest(frame) == Request("EXECUTE", NoPath, substitute_parameter(TRUE, frame))

CopyOutRequest(k, frame) == Request("COPY_OUT", OutPath(k, frame), Unsubstituted)

\* success stands for CopyInResponse.success, CopyOutResponse.success and
\* ExecuteResponse.status = 0; content is the one of a CopyOutResponse.
Response(type, success, content) ==
  [request_type |-> type, success |-> success, content |-> content]

\* Placeholders for an empty slot.
NoRequest  == Request("NONE", NoPath, Unsubstituted)
NoResponse == Response("NONE", TRUE, NoFile)

RequestsOf(type, pathnames, values) ==
  [request_type : {type}, pathname : pathnames, value : values]

Requests ==
  RequestsOf("WELCOME", {NoPath}, {Unsubstituted}) \cup
  RequestsOf("COPY_IN", RemotePaths, Names) \cup
  RequestsOf("EXECUTE", {NoPath}, Names) \cup
  RequestsOf("COPY_OUT", RemotePaths, {Unsubstituted})

\* A COPY_OUT carries a content if it succeeded, and nothing else does.
Responses ==
  [request_type : RequestTypes \ {"COPY_OUT"}, success : BOOLEAN, content : {NoFile}] \cup
  [request_type : {"COPY_OUT"}, success : {FALSE}, content : {NoFile}] \cup
  [request_type : {"COPY_OUT"}, success : {TRUE}, content : Partial(Names)]
=============================================================================
