--------------------------- MODULE MCGridControl ---------------------------
(* Constants of GridControl for its TLC runs. *)
EXTENDS GridControl

(* One configuration keeps its cap, one breaks it from the first tick. *)
MCConfigs == {[orders |-> 1, cap |-> 1], [orders |-> 2, cap |-> 1]}
=============================================================================
