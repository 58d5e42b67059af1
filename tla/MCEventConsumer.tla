--------------------------- MODULE MCEventConsumer ---------------------------
(***************************************************************************)
(* EventConsumer for TLC.                                                  *)
(***************************************************************************)
EXTENDS EventConsumer

\* The resolution agent never seeks; an operator replays the tickets.
MCModes == [intake |-> {"latest", "beginning", "offset"}, results |-> {"latest"}]
=============================================================================
