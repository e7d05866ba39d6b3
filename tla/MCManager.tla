----------------------------- MODULE MCManager -----------------------------
(* The instances of Manager that TLC checks: the handlers are model values. *)
EXTENDS Manager

CONSTANTS h1, h2

=============================================================================
