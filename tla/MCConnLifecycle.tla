-------------------------- MODULE MCConnLifecycle ---------------------------
(* Small instances of ConnLifecycle. *)
EXTENDS ConnLifecycle
CONSTANTS c1, c2, c3, o1, o2, o3
ThreeConns == {c1, c2, c3}
ThreeObjs == {o1, o2, o3}
=============================================================================
