------------------------------ MODULE IoNotify ------------------------------
(***************************************************************************)
(* How another thread hands work to an IO thread.  The dispatching thread  *)
(* appends to a mutex-protected queue and then writes one byte to a        *)
(* socketpair; the IO thread is woken by libevent when the socketpair is   *)
(* readable, takes the WHOLE queue, and then reads as many bytes as it     *)
(* took elements.  The code has two such channels per IO thread:           *)
(*                                                                         *)
(*   sockets   IoAppCluster::dispatchConnection / IoApp::newConnection,    *)
(*             one element per byte (Batches = {1});                       *)
(*   messages  IoAppCluster::dispatchPushList / IoApp::push, a LIST of     *)
(*             messages per byte (Batches of any size).                    *)
(*                                                                         *)
(* Each channel has exactly one dispatching thread: the accept thread for  *)
(* sockets, the local message router for messages.  Elements are counted,  *)
(* not named: nothing in the protocol looks at them.                       *)
(***************************************************************************)
EXTENDS Naturals

CONSTANTS
    Batches,    \* sizes of the lists the dispatcher appends before one byte
    ReadMax,    \* size of the buffer the IO thread reads bytes into (256)
    NotifyCap,  \* bytes the socketpair buffers before a write blocks
    MaxQueue    \* bound: the dispatcher does not append beyond this length

ASSUME IoNotifyAssumption ==
    /\ Batches \subseteq Nat \ {0}
    /\ ReadMax \in Nat \ {0}
    /\ NotifyCap \in Nat \ {0}
    /\ MaxQueue \in Nat

VARIABLES
    queue,  \* number of elements in the queue
    bytes,  \* number of unread bytes in the socketpair
    owed,   \* 1 while the dispatcher is between its put and its write
    pc,     \* "wait": in event_base_loop; "read": queue taken, bytes not read
    count   \* number of elements the IO thread has just taken

vars == <<queue, bytes, owed, pc, count>>

TypeOK ==
    /\ queue \in Nat
    /\ bytes \in Nat
    /\ owed \in {0, 1}
    /\ pc \in {"wait", "read"}
    /\ count \in Nat

Init ==
    /\ queue = 0
    /\ bytes = 0
    /\ owed = 0
    /\ pc = "wait"
    /\ count = 0

(* _sock_queue[to].put(fd, id), or _msg_queue[io].put(msg). *)
Put(n) ==
    /\ owed = 0
    /\ queue + n <= MaxQueue
    /\ queue' = queue + n
    /\ owed' = 1
    /\ UNCHANGED <<bytes, pc, count>>

(* newNotify / pushNotify: the write end is blocking. *)
Notify ==
    /\ owed = 1
    /\ bytes < NotifyCap
    /\ bytes' = bytes + 1
    /\ owed' = 0
    /\ UNCHANGED <<queue, pc, count>>

(* A slip: the handler takes the first element instead of the queue. *)
TakeFirst ==
    /\ pc = "wait"
    /\ bytes > 0
    /\ count' = IF queue > 0 THEN 1 ELSE 0
    /\ queue' = IF queue > 0 THEN queue - 1 ELSE 0
    /\ pc' = "read"
    /\ UNCHANGED <<bytes, owed>>

(* The handler runs when the read end is readable (level triggered) and    *)
(* empties the queue.                                                      *)
Take ==
    /\ pc = "wait"
    /\ bytes > 0
    /\ count' = queue
    /\ queue' = 0
    /\ pc' = "read"
    /\ UNCHANGED <<bytes, owed>>

(* A slip of the code below, kept to show that the properties notice it:   *)
(* one byte too many.                                                      *)
WantOneMore(n) == n + 1

(* How many bytes the handler asks for after taking n elements. *)
Want(n) == IF n > ReadMax THEN ReadMax ELSE IF n = 0 THEN 1 ELSE n

(* The read end is non-blocking: it returns what there is. *)
ReadBytes ==
    /\ pc = "read"
    /\ bytes' = IF bytes <= Want(count) THEN 0 ELSE bytes - Want(count)
    /\ pc' = "wait"
    /\ count' = 0
    /\ UNCHANGED <<queue, owed>>

Next ==
    \/ \E n \in Batches : Put(n)
    \/ Notify
    \/ Take
    \/ ReadBytes

(* The dispatcher finishes the call it is in and the IO thread keeps       *)
(* running its event loop; nothing forces a new connection or message.     *)
Fairness == WF_vars(Notify) /\ WF_vars(Take) /\ WF_vars(ReadBytes)

Spec == Init /\ [][Next]_vars /\ Fairness

-----------------------------------------------------------------------------
(* NoLostWakeup: while the IO thread sleeps, a non-empty queue always has  *)
(* a byte waiting in the socketpair or a dispatcher about to write one, so *)
(* an accepted socket is never left in _sock_queue with the event loop     *)
(* asleep (io_app.cpp newConnection against dispatchConnection).           *)
NoLostWakeup == pc = "wait" /\ queue > 0 => bytes > 0 \/ owed = 1

(* The bytes beyond those the queued elements account for. *)
Cover == IF pc = "read" THEN Want(count) ELSE 0

(* BytesCoverQueue: the inductive form of NoLostWakeup. The bytes written  *)
(* and owed are at least the elements queued plus the bytes the running    *)
(* handler may still take, i.e. a handler never eats the byte of an        *)
(* element it has not taken.                                               *)
BytesCoverQueue == bytes + owed >= queue + Cover

(* AtMostOneSpareByte: as long as a batch fits the read buffer, the bytes  *)
(* exceed what is queued by at most one: handlers racing with dispatchers  *)
(* do not pile up stale wakeups that would fill the socketpair and block   *)
(* the accept thread in newNotify.                                         *)
AtMostOneSpareByte == bytes + owed <= queue + Cover + 1

(* EveryElementTaken: an element put in the queue is taken by the IO       *)
(* thread (get() empties the queue, so a non-empty queue gets emptied).    *)
EveryElementTaken == queue > 0 ~> queue = 0

(* NextPushRescues: on the message channel, where one byte announces a     *)
(* list, elements can be stranded (push() reads a byte per message); the   *)
(* next dispatchPushList to the same IO thread delivers them all the same. *)
NextPushRescues == (pc = "wait" /\ bytes = 0 /\ owed = 1) ~> queue = 0
=============================================================================
