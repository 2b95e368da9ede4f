--------------------------- MODULE MCElementEngine ---------------------------
(* Instances of ElementEngine for TLC.                                     *)
EXTENDS ElementEngine

(* Two pages, of which the first changes between two retrievals and the   *)
(* second mirrors what the first said at the beginning.                   *)
MCWeb == {[url |-> 1, body |-> 1], [url |-> 1, body |-> 2], [url |-> 2, body |-> 1]}
=============================================================================
