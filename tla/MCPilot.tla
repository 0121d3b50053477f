------------------------------- MODULE MCPilot -------------------------------
(***************************************************************************)
(* Small instances of what the server says to others.  The rigid variable  *)
(* scene says which module a behaviour is about; the variables of the      *)
(* others keep their first values.                                         *)
(*   share     PooledClient, two callers at one replica that fails and     *)
(*             recovers                                                    *)
(*   rotate    PooledClient, one caller, two replicas, retries, calls by id*)
(*   update    PooledClient without calls: registrations, status changes,  *)
(*             session losses, a replica that cannot be reached; the task  *)
(*             list overflows                                              *)
(*   mixed     PooledClient, calls by rotation while one of two replicas   *)
(*             goes or changes its status                                  *)
(*   register  ZkRegistration                                              *)
(*   dispatch  MessageRpc, two callers, one with an empty message          *)
(***************************************************************************)
EXTENDS ZkRegistration, FiniteSets, TLC

CONSTANTS s1, s2, c1, c2, Scenes, MaxErr, TaskPool, PathAtStart, MaxChanges, MaxLosses

VARIABLES scene, vec, map, cur, caller, up, pNode, path, pSession, pWatch, pEvents, tasks, free,
          svc, dropped, skipped, changes, pLosses,
          conns, owner, state, left, result, got, queued, faults

Share == INSTANCE PooledClient WITH
    Server <- {s1}, Caller <- {c1, c2}, Modes <- {"once"}, CanFail <- {s1}, ConnNum <- 2, Wrap <- 1,
    MaxChanges <- 0, MaxLosses <- 0,
    node <- pNode, session <- pSession, watch <- pWatch, events <- pEvents,
    losses <- pLosses

Rotate == INSTANCE PooledClient WITH
    Server <- {s1, s2}, Caller <- {c1}, Modes <- {"retry", "id"}, CanFail <- {s1}, ConnNum <- 1,
    Wrap <- 2, MaxChanges <- 0, MaxLosses <- 0,
    node <- pNode, session <- pSession, watch <- pWatch, events <- pEvents,
    losses <- pLosses

Update == INSTANCE PooledClient WITH
    Server <- {s1, s2}, Caller <- {c1}, Modes <- {}, CanFail <- {s1}, ConnNum <- 1, Wrap <- 2,
    node <- pNode, session <- pSession, watch <- pWatch, events <- pEvents,
    losses <- pLosses

Mixed == INSTANCE PooledClient WITH
    Server <- {s1, s2}, Caller <- {c1}, Modes <- {"once"}, CanFail <- {}, ConnNum <- 1,
    Wrap <- 2, MaxChanges <- 1, MaxLosses <- 0,
    node <- pNode, session <- pSession, watch <- pWatch, events <- pEvents,
    losses <- pLosses

Rpc == INSTANCE MessageRpc WITH
    Caller <- {c1, c2}, Body <- (c1 :> 0 @@ c2 :> 7), Attempts <- 3, MaxFaults <- 1

pilotVars    == <<vec, map, cur, caller, up, pNode, path, pSession, pWatch, pEvents, tasks, free,
                  svc, dropped, skipped, changes, pLosses>>
rpcVars      == <<conns, owner, state, left, result, got, queued, faults>>
mcVars       == <<scene, pilotVars, vars, rpcVars>>

MCInit ==
    /\ scene \in Scenes
    /\ CASE scene = "rotate" -> Rotate!Init
         [] scene = "update" -> Update!Init
         [] scene = "mixed"  -> Mixed!Init
         [] OTHER            -> Share!Init
    /\ Init /\ (scene # "register" => parents)
    /\ Rpc!Init

MCNext ==
    \/ scene = "share" /\ Share!Next /\ UNCHANGED <<scene, vars, rpcVars>>
    \/ scene = "rotate" /\ Rotate!Next /\ UNCHANGED <<scene, vars, rpcVars>>
    \/ scene = "update" /\ Update!Next /\ UNCHANGED <<scene, vars, rpcVars>>
    \/ scene = "mixed" /\ Mixed!Next /\ UNCHANGED <<scene, vars, rpcVars>>
    \/ scene = "register" /\ Next /\ UNCHANGED <<scene, pilotVars, rpcVars>>
    \/ scene = "dispatch" /\ Rpc!Next /\ UNCHANGED <<scene, pilotVars, vars>>

InShare(A) == scene = "share" /\ A /\ UNCHANGED <<scene, vars, rpcVars>>
InRotate(A) == scene = "rotate" /\ A /\ UNCHANGED <<scene, vars, rpcVars>>
InMixed(A) == scene = "mixed" /\ A /\ UNCHANGED <<scene, vars, rpcVars>>
InRegister(A) == scene = "register" /\ A /\ UNCHANGED <<scene, pilotVars, rpcVars>>
InDispatch(A) == scene = "dispatch" /\ A /\ UNCHANGED <<scene, pilotVars, vars>>

\* The fairness of the modules; of that of PooledClient, what CallReturns needs.
MCSpec ==
    /\ MCInit /\ [][MCNext]_mcVars
    /\ WF_mcVars(InRotate(Rotate!CallerStep(c1)) \/ InMixed(Mixed!CallerStep(c1)))
    /\ WF_mcVars(InRegister(Watcher)) /\ WF_mcVars(InRegister(Connect))
    /\ WF_mcVars(InRegister(\E k \in alive : k # sid /\ Expire(k)))
    /\ \A c \in {c1, c2} : WF_mcVars(InDispatch(Rpc!Step(c)))

\* All of the fairness of PooledClient, for the scene share alone.
SpecShare ==
    /\ MCInit /\ [][MCNext]_mcVars
    /\ WF_mcVars(InShare(Share!CallerStep(c1))) /\ WF_mcVars(InShare(Share!CallerStep(c2)))
    /\ WF_mcVars(InShare(Share!SvcStep)) /\ WF_mcVars(InShare(Share!Deliver))
    /\ WF_mcVars(InShare(Share!Connect)) /\ WF_mcVars(InShare(Share!Tick))

\* An empty pool that counts as healthy is waiting for a caller: otherwise nothing
\* would refill it.
HealthyPoolUsable ==
    /\ scene = "share" => Share!TypeOK /\ Share!HealthyPoolUsable
    /\ scene = "rotate" => Rotate!TypeOK /\ Rotate!HealthyPoolUsable

\* Once zookeeper's events are handled the list is what is registered and could be
\* connected to, unless a task was dropped since it was last read.
ListSettles ==
    /\ scene = "update" => Update!ListSettles
    /\ scene = "mixed" => Mixed!ListSettles

\* The list settles; no replica is listed twice, the map by id has the replicas of the
\* list and, without erased replicas, their indexes; no node of the task list is lost
\* or doubled.
ListSound ==
    /\ ListSettles
    /\ scene = "update" => Update!TypeOK /\ Update!VecSound /\ Update!NodesConserved
    /\ scene = "mixed" => Mixed!TypeOK /\ Mixed!VecSound /\ Mixed!NodesConserved
    /\ scene = "rotate" => Rotate!MapExact

\* The server is registered again and again, whatever was lost or restarted.
RegisteredAgain == scene = "register" => []<>(raced \/ node # 0)

\* A caller gets the answer to its own message, which is queued at most once for every
\* attempt.
DispatchExact == scene = "dispatch" => Rpc!AnswerIsMine /\ Rpc!AtMostAttempts

\* A call ends, with its retries, and so does every dispatch ("done" is for good).
\* While replicas are erased a call ends too, unless its pool is destroyed between
\* look-up and use.
CallsReturn ==
    /\ scene = "rotate" => Rotate!CallReturns
    /\ scene = "mixed" => Mixed!CallReturnsOrLost
    /\ scene = "dispatch" => <>(\A c \in {c1, c2} : state[c] = "done")

\* A replica that is back for good is used again.
PoolRecovers == scene = "share" => Share!PoolRecovers
=============================================================================
