------------------------------- MODULE MCSeat -------------------------------
(***************************************************************************)
(* Instances of Seat for TLC.                                              *)
(***************************************************************************)
EXTENDS Seat

\* A report, a SET_REPORT of a size that does not fit, and an OPEN.
MCEvents ==
    {e \in AllEvents : \/ e.type = "OUTPUT" /\ HasFrame(e)
                       \/ e.type = "SET_REPORT" /\ ~e.fits}
=============================================================================
