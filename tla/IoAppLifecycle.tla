--------------------------- MODULE IoAppLifecycle ---------------------------
(***************************************************************************)
(* The refinement of ConnLifecycle by IoApp.                               *)
(***************************************************************************)
EXTENDS IoApp

(* ImplementsLifecycle: pushing, sending and giving up messages leaves the *)
(* life of the connection objects to the steps of ConnLifecycle; the push  *)
(* callback is a pause of its event loop.                                  *)
Conn == INSTANCE ConnLifecycle WITH pc <- IF pc = "push" THEN "loop" ELSE pc
ImplementsLifecycle == Conn!ConnInit /\ [][Conn!ConnNext]_(Conn!connVars)
=============================================================================
