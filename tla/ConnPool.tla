------------------------------ MODULE ConnPool ------------------------------
(***************************************************************************)
(* The connections to one replica of the message server: ConnPool          *)
(* (thrift/pilot/conn_pool.inl) and the ThriftClient objects it holds      *)
(* (thrift_client.inl).  Everything a pool does runs under its lock_, so   *)
(* its methods are operators on the value of a pool; PooledClient decides  *)
(* who calls them when.                                                    *)
(*                                                                         *)
(* A client is the replica it was made for and the state of its socket:    *)
(* "broken" is open on this side while the replica has gone away.          *)
(* A pool is its list of clients, head first, the error count and the      *)
(* seconds of the back-off that are left: is_healthy_ compares the time of *)
(* the last error plus error_cnt_ squared with now.                        *)
(***************************************************************************)
EXTENDS Integers, Sequences

CONSTANTS
    ConnNum,    \* conn_num_, the clients a pool is filled with
    MaxErr      \* MAX_ERROR_CNT_THRESHOLD

Client(s, st) == [to |-> s, st |-> st]

IsOpen(c) == c.st # "closed"

\* open_service: nothing to do on a socket that is open on this side.
OpenService(c, up) == IF ~IsOpen(c) /\ up THEN [c EXCEPT !.st = "open"] ELSE c

CloseService(c) == [c EXCEPT !.st = "closed"]

\* How many of the conn_num_ clients init_ may get open.
Opens(up) == IF up THEN 1..ConnNum ELSE {0}

\* init_: the clients are opened one by one and those that fail are deleted; n succeed.
InitConns(s, n) == [i \in 1..n |-> Client(s, "open")]

NewPool(s, n) == [rep |-> s, conns |-> InitConns(s, n), err |-> 0, wait |-> 0]

\* refresh_ neither clears nor counts an error.
Refresh(p, n) == [p EXCEPT !.conns = InitConns(p.rep, n)]

\* try_get of the list takes the tail, put adds at the head.
AcquireClient(p) == p.conns[Len(p.conns)]

WithoutClient(p) == [p EXCEPT !.conns = SubSeq(@, 1, Len(@) - 1)]

\* release_client_: a client that comes back to a full list is deleted.
ReleaseClient(p, c) == IF Len(p.conns) > ConnNum THEN p ELSE [p EXCEPT !.conns = <<c>> \o @]

IsHealthy(p) ==
    CASE p.err = 0      -> "HEALTHY"
      [] p.err > MaxErr -> "DEAD"
      [] p.wait > 0     -> "NOT_NOW"
      [] OTHER          -> "HAVE_A_TRY"

\* The back-off of a dead pool is never looked at.
ReportError(p) ==
    [p EXCEPT !.err = @ + 1,
              !.wait = IF p.err + 1 > MaxErr THEN 0 ELSE (p.err + 1) * (p.err + 1)]

ClearError(p) == IF IsHealthy(p) = "HEALTHY" THEN p ELSE [p EXCEPT !.err = 0, !.wait = 0]
=============================================================================
