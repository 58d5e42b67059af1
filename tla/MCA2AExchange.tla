---------------------------- MODULE MCA2AExchange ----------------------------
(***************************************************************************)
(* A2AExchange for TLC.                                                    *)
(***************************************************************************)
EXTENDS A2AExchange, TLC

CONSTANTS t1, t2

\* t1 is awaited and t2 is not.
MCWants ==
  {t1 :> "served" @@ t2 :> kind : kind \in {"served", "garbled"}}
    \cup {t1 :> kind @@ t2 :> "served" : kind \in {"unserved", "rejected"}}
=============================================================================
