---------------------------- MODULE MCRestFetch ----------------------------
(* Two URLs, so that next URLs may go on, come back or go round, and times *)
(* that let the attempts run out before the context and after it.          *)
EXTENDS RestFetch

CONSTANTS u1, u2

MCUrl == {u1, u2}
=============================================================================
