-------------------------------- MODULE Inputs --------------------------------
(* A part that keeps no state is a function of what it is given, which grows step by
   step. *)

VARIABLE input   \* what a part is given, in a record that says of which part
=============================================================================
