---------------------------- MODULE MCController ----------------------------
(***************************************************************************)
(* Instances of the controller for TLC.                                    *)
(***************************************************************************)
EXTENDS ControllerProperties, TLC

\* A file for all frames, one that is sent for every frame under the same
\* name, and one output file per frame.
SceneAndCamera == <<[source |-> FALSE, destination |-> FALSE],
                    [source |-> TRUE, destination |-> FALSE]>>
Camera == <<[source |-> TRUE, destination |-> FALSE]>>
NoCopies == <<>>
FrameImage == <<[source |-> FALSE, destination |-> TRUE]>>
LogAndImage == <<[source |-> FALSE, destination |-> FALSE],
                 [source |-> FALSE, destination |-> TRUE]>>
LogAndFrameImage == <<[source |-> FALSE, destination |-> FALSE],
                      [source |-> TRUE, destination |-> TRUE]>>

OneFrame == <<7>>
TwoFrames == <<3, 4>>

Symmetry == Permutations(Direct) \cup Permutations(Proxied)
=============================================================================
