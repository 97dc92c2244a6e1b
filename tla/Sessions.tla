------------------------------ MODULE Sessions ------------------------------
(***************************************************************************)
(* The sessions that what is noticed (Attention) and what the window is    *)
(* told (Stream) are both about.                                           *)
(***************************************************************************)
CONSTANT
    Session        \* ids; none is given out twice
=============================================================================
