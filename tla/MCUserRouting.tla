--------------------------- MODULE MCUserRouting ----------------------------
(***************************************************************************)
(* A small instance of UserRouting.  The rigid variable scene says which   *)
(* connections are opened and which messages are made.                     *)
(*   moves  one user who moves from connection 1 to connection 2, which    *)
(*          are on different IO threads                                    *)
(*   users  two users on one IO thread, the first with two connections     *)
(***************************************************************************)
EXTENDS UserRouting

CONSTANTS u1, u2, i1, i2, a1, a2, b1, m1, Scenes

MCUsers == {u1, u2}
MCConns == 1..4
MCIos == {i1, i2}
MCIoOf == [c \in MCConns |-> IF c = 2 THEN i2 ELSE i1]
MCMsgs == {a1, a2, b1, m1}
MCFor == [m \in MCMsgs |-> IF m = b1 THEN u2 ELSE u1]
MCAnswers == {a1, a2, b1}
MCClaims == {<<u1, 1>>, <<u1, 2>>, <<u2, 3>>, <<u1, 4>>}

VARIABLE scene

Used == [moves |-> {1, 2}, users |-> {1, 3, 4}]
Made == [moves |-> {a1, a2, m1}, users |-> {a1, b1, m1}]

MCInit == scene \in Scenes /\ Init

MCNext ==
    /\ Next
    /\ opened' \subseteq Used[scene]
    /\ \A h \in inHand' : h[1] \in Made[scene]
    /\ UNCHANGED scene

MCSpec == MCInit /\ [][MCNext]_<<vars, scene>> /\ Fairness

(* StaleEntryDropped: once a message has failed on a connection and is in  *)
(* the collector's queue, the table stops naming that connection for its   *)
(* user (as long as no freed message is in use).  The two answers are      *)
(* alike; one stands for both.                                             *)
StaleEntryDropped ==
    \A m \in {a1, m1}, c \in Used.moves :
        (scene = "moves" /\ FailedOn(m, c)) ~> Forgotten(m, c)
=============================================================================
