------------------------------ MODULE MCIoApp -------------------------------
(* Small instances of IoApp. *)
EXTENDS IoAppLifecycle
CONSTANTS c1, c2, o1, o2, m1, m2, m3
TwoConns == {c1, c2}
TwoObjs == {o1, o2}
ThreeMsgs == {m1, m2, m3}
(* Two messages for one connection, one for the other. *)
Targets == [m \in ThreeMsgs |-> IF m = m3 THEN c2 ELSE c1]
SwitchFirst == {m1}
CloseLast == {m3}
None == {}
=============================================================================
