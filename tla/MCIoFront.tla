----------------------------- MODULE MCIoFront ------------------------------
(***************************************************************************)
(* Small instances of the parts between the listening socket and the       *)
(* frames.  The rigid variable scene says which part a behaviour is about; *)
(* the variables of the other parts keep their first values.               *)
(*   sock      IoNotify, the socket channel: a byte for each socket        *)
(*   push      IoNotify, the message channel: a byte for each list         *)
(*   life      ConnLifecycle, three connections and three objects          *)
(*   framing   IoFraming, one client                                       *)
(*   sampling  IoSampling, three minutes of two seconds                    *)
(*   accept    IoAccept, the acceptor and three IO threads                 *)
(***************************************************************************)
EXTENDS IoNotify, Sequences

CONSTANTS c1, c2, c3, o1, o2, o3, NoConn, NoObj

Singles == {1}

\* Frame sizes, around the first buffer, its growth and the largest frame allowed.
Sizes == {<<5, 2, 4, 7, 3>>, <<3, 4, 9, 2>>, <<2, 2, 8, 8>>, <<6, 3, 3, 2>>}

VARIABLES
    scene,
    pQueue, pBytes, pOwed, pPc, pCount,
    lSockQ, lIssued, lPc, lList, lRegister, lConnCount, lCache, lRecycle, lLoopCount,
    lId, lDestroyed, lNewRan, lClosedNow,
    fScript, fSent, fEof, fSock, fGot, fRpos, fRsize, fRstate, fFrameSize, fPc, fB,
    fLen, fFrames,
    sNow, sCurrentHour, sTotal, sCell, sConn, sTaken,
    aBacklog, aMade, aId, aPc, aI, aSocketCount, aMin, aTo, aSockQueue, aTaken,
    aConnCount, aOnline, aDropped, aLate

Push == INSTANCE IoNotify WITH
    Batches <- {1, 2, 3}, ReadMax <- 4, NotifyCap <- 4,
    queue <- pQueue, bytes <- pBytes, owed <- pOwed, pc <- pPc, count <- pCount

Life == INSTANCE ConnLifecycle WITH
    Conns <- {c1, c2, c3}, Objs <- {o1, o2, o3}, Leftover <- FALSE, MaxLoop <- 3,
    sockQ <- lSockQ, issued <- lIssued, pc <- lPc, list <- lList, register <-
    lRegister, connCount <- lConnCount, cache <- lCache, recycle <- lRecycle,
    loopCount <- lLoopCount, id <- lId, destroyed <- lDestroyed, newRan <- lNewRan,
    closedNow <- lClosedNow

Framing == INSTANCE IoFraming WITH
    Scripts <- Sizes, Header <- 2, FrameMax <- 8, DefaultLen <- 4, Increment <- 2,
    Limit <- 4,
    script <- fScript, sent <- fSent, eof <- fEof, sock <- fSock, got <- fGot, rpos <-
    fRpos, rsize <- fRsize, rstate <- fRstate, frame_size <- fFrameSize, pc <- fPc, b
    <- fB, len <- fLen, frames <- fFrames

Sampling == INSTANCE IoSampling WITH
    Minutes <- 3, PerMinute <- 2, second_limit <- 1, minute_limit <- 2, hour_limit <-
    3, MaxNow <- 9,
    now <- sNow, current_hour <- sCurrentHour, total <- sTotal, cell <- sCell, conn <-
    sConn, taken <- sTaken

Acceptor == INSTANCE IoAccept WITH
    ClusterSize <- 3, SocketMax <- 3, Clients <- 5,
    backlog <- aBacklog, made <- aMade, id <- aId, pc <- aPc, i <- aI, socket_count <-
    aSocketCount, min <- aMin, to <- aTo, sock_queue <- aSockQueue, taken <- aTaken,
    conn_count <- aConnCount, online <- aOnline, dropped <- aDropped, late <- aLate

pushVars ==
    <<pQueue, pBytes, pOwed, pPc, pCount>>
lifeVars ==
    <<lSockQ, lIssued, lPc, lList, lRegister, lConnCount, lCache, lRecycle,
    lLoopCount, lId, lDestroyed, lNewRan, lClosedNow>>
framingVars ==
    <<fScript, fSent, fEof, fSock, fGot, fRpos, fRsize, fRstate, fFrameSize, fPc, fB,
    fLen, fFrames>>
samplingVars ==
    <<sNow, sCurrentHour, sTotal, sCell, sConn, sTaken>>
acceptVars ==
    <<aBacklog, aMade, aId, aPc, aI, aSocketCount, aMin, aTo, aSockQueue, aTaken,
    aConnCount, aOnline, aDropped, aLate>>
allVars ==
    <<scene, vars, pushVars, lifeVars, framingVars, samplingVars, acceptVars>>

MCInit ==
    /\ scene \in {"sock", "push", "life", "framing", "sampling", "accept"}
    /\ Init
    /\ Push!Init
    /\ Life!ConnInit
    /\ Framing!Init
    /\ Sampling!Init
    /\ Acceptor!Init
    /\ scene # "framing" => fScript = <<5, 2, 4, 7, 3>>

MCNext ==
    \/ /\ scene = "sock" /\ Next
       /\ UNCHANGED <<scene, pushVars, lifeVars, framingVars, samplingVars, acceptVars>>
    \/ /\ scene = "push" /\ Push!Next
       /\ UNCHANGED <<scene, vars, lifeVars, framingVars, samplingVars, acceptVars>>
    \/ /\ scene = "life" /\ Life!ConnNext
       /\ UNCHANGED <<scene, vars, pushVars, framingVars, samplingVars, acceptVars>>
    \/ /\ scene = "framing" /\ Framing!Next
       /\ UNCHANGED <<scene, vars, pushVars, lifeVars, samplingVars, acceptVars>>
    \/ /\ scene = "sampling" /\ Sampling!Next
       /\ UNCHANGED <<scene, vars, pushVars, lifeVars, framingVars, acceptVars>>
    \/ /\ scene = "accept" /\ Acceptor!Next
       /\ UNCHANGED <<scene, vars, pushVars, lifeVars, framingVars, samplingVars>>

InSock(A) == /\ scene = "sock" /\ A
             /\ UNCHANGED <<scene, pushVars, lifeVars, framingVars, samplingVars, acceptVars>>
InPush(A) == /\ scene = "push" /\ A
             /\ UNCHANGED <<scene, vars, lifeVars, framingVars, samplingVars, acceptVars>>
InLife(A) == /\ scene = "life" /\ A
             /\ UNCHANGED <<scene, vars, pushVars, framingVars, samplingVars, acceptVars>>
InFraming(A) == /\ scene = "framing" /\ A
                /\ UNCHANGED <<scene, vars, pushVars, lifeVars, samplingVars, acceptVars>>
InAccept(A) == /\ scene = "accept" /\ A
               /\ UNCHANGED <<scene, vars, pushVars, lifeVars, framingVars, samplingVars>>

\* The fairness of the parts, each in its own scene.
MCFairness ==
    /\ WF_allVars(InSock(Notify)) /\ WF_allVars(InSock(Take)) /\ WF_allVars(InSock(ReadBytes))
    /\ WF_allVars(InPush(Push!Notify)) /\ WF_allVars(InPush(Push!Take))
    /\ WF_allVars(InPush(Push!ReadBytes))
    /\ WF_allVars(InLife(Life!StartNew))
    /\ WF_allVars(InLife(\E o \in {o1, o2, o3} : Life!InitConn(o)))
    /\ WF_allVars(InLife(Life!EndNew)) /\ WF_allVars(InLife(Life!NextIteration))
    /\ WF_allVars(InFraming(Framing!Send))
    /\ WF_allVars(InFraming(Framing!Readable /\ Framing!ReadSocket))
    /\ WF_allVars(InAccept(Acceptor!dispatchConnection))
    /\ \A t \in 0..2 : WF_allVars(InAccept(Acceptor!IoStep(t)))

MCSpec == MCInit /\ [][MCNext]_allVars /\ MCFairness

\* What is queued for an IO thread reaches it: sockets by their bytes, messages at
\* the latest with the next list pushed, the acceptor's sockets one by one, and a
\* socket taken from the queue becomes a connection or is refused.
QueuedArrives ==
    /\ EveryElementTaken /\ Push!NextPushRescues
    /\ Life!EverySocketServed
    /\ scene = "accept" => Acceptor!AllPlaced

\* The frames handed up are frames the client sent, whole and in order; one that is
\* there completely does not wait for more bytes; and a connection is closed only for
\* a client that has closed its side.
FramesCut ==
    scene = "framing" =>
       /\ Framing!TypeOK
       /\ Framing!FramesIntact /\ Framing!NothingWaits /\ Framing!ClosedByClient

\* A client that goes on sending has all its frames handed up.
AllDelivered == scene = "framing" => Framing!AllDelivered

\* The cells hold the frames of their second, minute and hour, and a connection passes
\* at most one frame more than a limit in any of them.
RatesHeld ==
    scene = "sampling" =>
       Sampling!TypeOK /\ Sampling!CellsExact /\ Sampling!LimitsHold

\* A socket is with one IO thread or dropped; the threads hold at most io_max sockets
\* and those a scan of dispatchConnection could not see yet; and without closed
\* connections the loads of two threads differ by one and those.
SocketsPlaced ==
    scene = "accept" =>
       /\ Acceptor!TypeOK
       /\ Acceptor!OneThread /\ Acceptor!MaxHeld /\ Acceptor!Balanced
=============================================================================
