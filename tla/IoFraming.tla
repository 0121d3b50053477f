------------------------------ MODULE IoFraming ------------------------------
(***************************************************************************)
(* How one connection cuts the byte stream of its socket into frames:      *)
(* IoConnection::readSocket, its two states and its read buffer.           *)
(*                                                                         *)
(* A byte is known by its offset in the stream the client sends.  The      *)
(* buffer always holds consecutive bytes, so its contents are the offset   *)
(* of its first byte, got - rpos, and its length.  The IO thread runs a    *)
(* callback to its end; a recv may return fewer bytes than the client has  *)
(* sent, which also stands for bytes arriving between two calls of recv.   *)
(***************************************************************************)
EXTENDS Integers, Sequences, FiniteSetsExt

CONSTANTS
    Scripts,    \* what a client may send: the sizes of frames, headers included
    Header,     \* sizeof(int): the length in front of a frame
    FrameMax,   \* FRAME_MAX_SIZE
    DefaultLen, \* CONN_DEFAULT_READ_LEN
    Increment,  \* READ_BUFFER_INCREAMENT_SIZE
    Limit       \* frames after which the request limits refuse one

VARIABLES
    script,     \* the frames this client sends
    sent,       \* bytes the client has sent
    eof,        \* the client has closed its side
    sock,       \* the socket: "open", "closed" or "reset"
    got,        \* bytes read from the socket
    rpos,       \* _rpos
    rsize,      \* _rsize
    rstate,     \* _rsock_state
    frame_size, \* _frame_size
    pc,         \* where readSocket is: "idle", "data" or "loop"
    b, len,     \* the cursor of its loop over the frames of one buffer
    frames      \* the frames given to whenReceivedFrame: offset and size

vars == <<script, sent, eof, sock, got, rpos, rsize, rstate, frame_size, pc, b, len,
          frames>>
buffer == <<got, rpos, rsize, rstate, frame_size>>

Start[i \in 1..Len(script) + 1] ==
    IF i = 1 THEN 0 ELSE Start[i - 1] + script[i - 1]

Total == Start[Len(script) + 1]

(* The offset in the stream of the first byte in the buffer. *)
Base == got - rpos

(* What the length field at an offset of the stream says.  Bytes from the  *)
(* middle of a frame could say anything; they stand for the shortest frame.*)
(* The code adds the size of the header in 32 bits and keeps the sum in an *)
(* int in its loop; Scripts has lengths for which neither changes it.      *)
SizeAt(o) ==
    IF \E i \in DOMAIN script : Start[i] = o
    THEN script[CHOOSE i \in DOMAIN script : Start[i] = o]
    ELSE Header

TypeOK ==
    /\ script \in Scripts
    /\ sent \in 0..Total /\ eof \in BOOLEAN
    /\ sock \in {"open", "closed", "reset"}
    /\ got \in 0..sent
    /\ rsize \in DefaultLen..FrameMax /\ rpos \in 0..rsize
    /\ rstate \in {"FRAMING", "DATA_RECV"}
    /\ frame_size \in 0..FrameMax
    /\ pc \in {"idle", "data", "loop"}
    /\ b \in 0..rsize /\ len \in 0..rsize
    /\ frames \in Seq([at : Nat, size : Nat])

Init ==
    /\ script \in Scripts
    /\ sent = 0 /\ eof = FALSE /\ sock = "open" /\ got = 0
    /\ rpos = 0 /\ rsize = DefaultLen /\ rstate = "FRAMING" /\ frame_size = 0
    /\ pc = "idle" /\ b = 0 /\ len = 0
    /\ frames = <<>>

(***************************************************************************)
(* The client and the network.                                             *)
(***************************************************************************)
Send ==
    /\ ~eof /\ sent < Total
    /\ sent' = sent + 1
    /\ UNCHANGED <<script, eof, sock, pc, b, len, frames, buffer>>

Close ==
    /\ ~eof
    /\ eof' = TRUE
    /\ UNCHANGED <<script, sent, sock, pc, b, len, frames, buffer>>

EAGAIN == -1
ERROR == -2

(* What recv may return when asked for room bytes.  EINTR is retried, so   *)
(* it is no outcome; asked for no bytes, recv returns 0.                   *)
recv(room) ==
    IF sock # "open" THEN {ERROR}
    ELSE IF room = 0 THEN {0}
    ELSE {EAGAIN, ERROR}
         \cup 1..Min({room, sent - got})
         \cup (IF eof /\ sent = got THEN {0} ELSE {})

(***************************************************************************)
(* The steps of readSocket.                                                *)
(***************************************************************************)
closeSocket == sock' = "closed" /\ pc' = "idle" /\ UNCHANGED <<b, len>>
resetSocket == sock' = "reset" /\ pc' = "idle" /\ UNCHANGED <<b, len>>

Grown(size) ==
    IF size > rsize THEN Min({size + Increment, FrameMax}) ELSE rsize

\* Mutant of ReadHeader: a frame that is not there completely waits with the small buffer.
ReadHeaderWaits ==
    LET size == SizeAt(Base) IN
    IF size > FrameMax
    THEN resetSocket /\ UNCHANGED <<rsize, rstate, frame_size>>
    ELSE /\ frame_size' = size
         /\ IF size > rpos'
            THEN UNCHANGED <<rstate, pc>>
            ELSE rstate' = "DATA_RECV" /\ pc' = "data"
         /\ UNCHANGED <<rsize, b, len>>

(* The length field of the first frame: too large a frame resets the       *)
(* connection, a larger one than the buffer makes the buffer grow.         *)
ReadHeader ==
    LET size == SizeAt(Base) IN
    IF size > FrameMax
    THEN resetSocket /\ UNCHANGED <<rsize, rstate, frame_size>>
    ELSE /\ frame_size' = size
         /\ rsize' = Grown(size)
         /\ rstate' = "DATA_RECV" /\ pc' = "data"
         /\ UNCHANGED <<b, len>>

(* An error other than EAGAIN resets the socket, and the code goes on with *)
(* the bytes it already holds.                                             *)
ReadFraming ==
    /\ sock = "open" /\ pc = "idle" /\ rstate = "FRAMING"
    /\ \E n \in recv(rsize - rpos) :
         IF n = 0
         THEN closeSocket /\ UNCHANGED buffer
         ELSE LET pos == rpos + Max({n, 0}) IN
              /\ got' = got + Max({n, 0}) /\ rpos' = pos
              /\ IF pos < Header
                 THEN /\ sock' = IF n = ERROR THEN "reset" ELSE sock
                      /\ UNCHANGED <<rsize, rstate, frame_size, pc, b, len>>
                 ELSE /\ ReadHeader
                      /\ SizeAt(Base) <= FrameMax =>
                            sock' = IF n = ERROR THEN "reset" ELSE sock
    /\ UNCHANGED <<script, sent, eof, frames>>

(* After recv: a whole frame is delivered, more than one is looped over.   *)
Received(pos) ==
    IF pos < frame_size
    THEN rpos' = pos /\ pc' = "idle" /\ UNCHANGED <<b, len, rstate>>
    ELSE pc' = "loop" /\ b' = 0 /\ len' = pos /\ rpos' = pos /\ UNCHANGED rstate

ReadData ==
    /\ \/ pc = "data"
       \/ pc = "idle" /\ sock = "open" /\ rstate = "DATA_RECV"
    /\ IF frame_size - rpos <= 0
       THEN Received(rpos) /\ UNCHANGED <<sock, got>>
       ELSE \E n \in recv(frame_size - rpos) :
            \/ n = 0 /\ closeSocket /\ UNCHANGED <<got, rpos, rstate>>
            \/ n = ERROR /\ resetSocket /\ UNCHANGED <<got, rpos, rstate>>
            \/ /\ n = EAGAIN /\ pc' = "idle"
               /\ UNCHANGED <<sock, got, rpos, rstate, b, len>>
            \/ /\ n > 0 /\ got' = got + n /\ Received(rpos + n)
               /\ UNCHANGED sock
    /\ UNCHANGED <<script, sent, eof, rsize, frame_size, frames>>

\* Mutants of Cut: one frame an event; what is behind the last whole frame is forgotten.
CutEarly(next, left) ==
    /\ rpos' = left /\ rstate' = "FRAMING" /\ pc' = "idle"
    /\ b' = 0 /\ len' = 0

CutDropsRest(next, left) ==
    IF left >= Header /\ left >= SizeAt(Base + next)
    THEN b' = next /\ len' = left /\ UNCHANGED <<pc, rpos, rstate>>
    ELSE /\ rpos' = 0 /\ rstate' = "FRAMING" /\ pc' = "idle"
         /\ b' = 0 /\ len' = 0

(* One pass of the loop: the frame at the cursor goes to                   *)
(* whenReceivedFrame, and the leftover moves to the front of the buffer    *)
(* when it holds no other whole frame.                                     *)
Cut(next, left) ==
    IF left >= Header /\ left >= SizeAt(Base + next)
    THEN b' = next /\ len' = left /\ UNCHANGED <<pc, rpos, rstate>>
    ELSE /\ rpos' = left /\ rstate' = "FRAMING" /\ pc' = "idle"
         /\ b' = 0 /\ len' = 0

(* whenReceivedFrame refuses a frame beyond the request limits.            *)
Loop ==
    /\ pc = "loop"
    /\ LET size == IF b = 0 THEN frame_size ELSE SizeAt(Base + b) IN
       IF Len(frames) >= Limit
       THEN resetSocket /\ UNCHANGED <<rpos, rstate, frames>>
       ELSE /\ frames' = Append(frames, [at |-> Base + b, size |-> size])
            /\ Cut(b + size, len - size)
            /\ UNCHANGED sock
    /\ UNCHANGED <<script, sent, eof, got, rsize, frame_size>>

(* readHandler on EV_TIMEOUT, and handleTimeout. *)
Timeout ==
    /\ sock = "open" /\ pc = "idle"
    /\ resetSocket
    /\ UNCHANGED <<script, sent, eof, frames, buffer>>

ReadSocket == ReadFraming \/ ReadData \/ Loop

Next == Send \/ Close \/ ReadSocket \/ Timeout

Readable == sent > got \/ eof \/ pc # "idle"

(* libevent is level-triggered: the callback runs again while there is     *)
(* something to read, and a callback runs to its end.  The client of the   *)
(* run goes on sending.                                                    *)
Spec ==
    /\ Init /\ [][Next]_vars
    /\ WF_vars(Send) /\ WF_vars(Readable /\ ReadSocket)

(***************************************************************************)
(* Properties.                                                             *)
(***************************************************************************)

(* However the stream is cut into reads, whenReceivedFrame gets the frames *)
(* the client sent: all of them up to some point, in order, each from its  *)
(* first byte to its last.                                                 *)
FramesIntact ==
    /\ Len(frames) <= Len(script)
    /\ \A i \in DOMAIN frames : frames[i] = [at |-> Start[i], size |-> script[i]]

(* A callback of readSocket never returns with a whole frame in the        *)
(* buffer: no event would come for it before the client's next bytes.      *)
NothingWaits ==
    sock = "open" /\ pc = "idle" /\ rpos >= Header => rpos < SizeAt(Base)

(* readSocket takes "no bytes" for the end of the stream, so it closes a   *)
(* socket only when the client did: it never calls recv with a full buffer.*)
ClosedByClient == sock = "closed" => eof /\ got = sent

(* Unless the connection is closed or reset, every frame the client sends  *)
(* is delivered.                                                           *)
AllDelivered == <>(sock # "open" \/ eof \/ Len(frames) = Len(script))
=============================================================================
