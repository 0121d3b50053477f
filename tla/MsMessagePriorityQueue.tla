----------------------- MODULE MsMessagePriorityQueue -----------------------
(***************************************************************************)
(* The queue of the app workers: one unlocked list for each priority, 0    *)
(* the highest, behind one mutex and one condition variable.  As in        *)
(* MsMessageBlockQueue, what is done under the mutex is one step, and a    *)
(* consumer that waits is woken and takes the mutex again in steps of its  *)
(* own.                                                                    *)
(***************************************************************************)
EXTENDS Naturals, FiniteSets, Sequences, FiniteSetsExt

CONSTANTS
    Msgs,
    Null,          \* a null pointer
    Consumers,     \* the app workers
    PriorityNum    \* _priority_num

Priorities == 0 .. PriorityNum - 1

VARIABLES
    next,    \* _next of every message
    head,    \* _head of the list of every priority
    tail,    \* _tail
    size,    \* _total_size of the list
    total,   \* _total_size of the queue
    free,    \* messages that are neither in the queue nor with a consumer
    lost,    \* messages put with a priority there is no list for
    pc,      \* of a consumer: "ready" to get, "waiting", "woken" or "busy"
    got,     \* what get has returned to it
    order    \* history: the messages of a priority in the order they were put

vars == <<next, head, tail, size, total, free, lost, pc, got, order>>

Waiting == {k \in Consumers : pc[k] = "waiting"}
Woken   == {k \in Consumers : pc[k] = "woken"}

Init ==
    /\ next = [m \in Msgs |-> Null]
    /\ head = [p \in Priorities |-> Null]
    /\ tail = [p \in Priorities |-> Null]
    /\ size = [p \in Priorities |-> 0]
    /\ total = 0
    /\ free = Msgs
    /\ lost = {}
    /\ pc = [k \in Consumers |-> "ready"]
    /\ got = [k \in Consumers |-> Null]
    /\ order = [p \in Priorities |-> <<>>]

(* pthread_cond_signal *)
Signal ==
    \/ Waiting = {} /\ UNCHANGED pc
    \/ \E k \in Waiting : pc' = [pc EXCEPT ![k] = "woken"]

(* MsMessageUnsafeQueue::put: _next of the message is left as it is. *)
PutUnsafe(m, p) ==
    /\ next' = IF tail[p] = Null THEN next ELSE [next EXCEPT ![tail[p]] = m]
    /\ head' = IF tail[p] = Null THEN [head EXCEPT ![p] = m] ELSE head
    /\ tail' = [tail EXCEPT ![p] = m]
    /\ size' = [size EXCEPT ![p] = @ + 1]

(* put(msg, priority) *)
Put(m, p) ==
    /\ m \in free
    /\ free' = free \ {m}
    /\ PutUnsafe(m, p)
    /\ total' = total + 1
    /\ order' = [order EXCEPT ![p] = Append(@, m)]
    /\ Signal
    /\ UNCHANGED <<lost, got>>

(* A priority out of range: put returns, and nobody frees the message. *)
PutNowhere(m) ==
    /\ m \in free
    /\ free' = free \ {m}
    /\ lost' = lost \cup {m}
    /\ UNCHANGED <<next, head, tail, size, total, pc, got, order>>

(* Mutant of GetUnsafe: the tail of a list that is empty now is kept. *)
GetUnsafeKeepsTail(p) ==
    /\ head' = [head EXCEPT ![p] = next[head[p]]]
    /\ size' = [size EXCEPT ![p] = @ - 1]
    /\ UNCHANGED tail

(* MsMessageUnsafeQueue::get *)
GetUnsafe(p) ==
    /\ head' = [head EXCEPT ![p] = next[head[p]]]
    /\ tail' = IF next[head[p]] = Null THEN [tail EXCEPT ![p] = Null] ELSE tail
    /\ size' = [size EXCEPT ![p] = @ - 1]

(* Mutant of FirstList: the search from the other end. *)
FirstListLow == Max({p \in Priorities : size[p] > 0})

(* _get: the first list with a message *)
FirstList == Min({p \in Priorities : size[p] > 0})

(* Mutant of Wait: a consumer that was woken does not look again. *)
WaitAgain(k) ==
    /\ \/ pc[k] = "ready" /\ total = 0
       \/ pc[k] = "woken"
    /\ pc' = [pc EXCEPT ![k] = "waiting"]
    /\ UNCHANGED <<next, head, tail, size, total, free, lost, got, order>>

Wait(k) ==
    /\ pc[k] \in {"ready", "woken"}
    /\ total = 0
    /\ pc' = [pc EXCEPT ![k] = "waiting"]
    /\ UNCHANGED <<next, head, tail, size, total, free, lost, got, order>>

(* pthread_cond_wait may return without a signal. *)
WakeUp(k) ==
    /\ pc[k] = "waiting"
    /\ pc' = [pc EXCEPT ![k] = "woken"]
    /\ UNCHANGED <<next, head, tail, size, total, free, lost, got, order>>

Get(k) ==
    /\ pc[k] \in {"ready", "woken"}
    /\ total > 0
    /\ GetUnsafe(FirstList)
    /\ got' = [got EXCEPT ![k] = head[FirstList]]
    /\ next' = [next EXCEPT ![head[FirstList]] = Null]
    /\ total' = total - 1
    /\ order' = [order EXCEPT ![FirstList] = Tail(@)]
    /\ pc' = [pc EXCEPT ![k] = "busy"]
    /\ UNCHANGED <<free, lost>>

(* The worker has processed the message, which goes elsewhere. *)
Process(k) ==
    /\ pc[k] = "busy"
    /\ free' = free \cup {got[k]}
    /\ got' = [got EXCEPT ![k] = Null]
    /\ pc' = [pc EXCEPT ![k] = "ready"]
    /\ UNCHANGED <<next, head, tail, size, total, lost, order>>

Next ==
    \/ \E m \in Msgs, p \in Priorities : Put(m, p)
    \/ \E m \in Msgs : PutNowhere(m)
    \/ \E k \in Consumers : Wait(k)
    \/ \E k \in Consumers : WakeUp(k)
    \/ \E k \in Consumers : Get(k)
    \/ \E k \in Consumers : Process(k)

(* A thread that can take the mutex or work on gets to run. *)
Fairness ==
    \A k \in Consumers : WF_vars(Wait(k)) /\ WF_vars(Get(k)) /\ WF_vars(Process(k))

Spec == Init /\ [][Next]_vars /\ Fairness

-----------------------------------------------------------------------------
(* PriorityLists: every list, followed along _next, holds the messages put *)
(* with its priority in the order they were put; both counts are right;    *)
(* a message in a list is nowhere else.                                    *)
PriorityLists ==
    /\ \A p \in Priorities :
        LET q == order[p]
        IN  /\ size[p] = Len(q)
            /\ head[p] = IF q = <<>> THEN Null ELSE q[1]
            /\ tail[p] = IF q = <<>> THEN Null ELSE q[Len(q)]
            /\ \A i \in 1..Len(q) :
                /\ next[q[i]] = IF i = Len(q) THEN Null ELSE q[i + 1]
                /\ q[i] \notin free \cup lost \cup {got[k] : k \in Consumers}
    /\ total = Cardinality(UNION {{order[p][i] : i \in 1..Len(order[p])} :
                                     p \in Priorities})

(* SleepersCovered: when a worker waits, as many woken workers are on      *)
(* their way as there are messages, so nobody sleeps over a message.       *)
SleepersCovered == Waiting # {} => total <= Cardinality(Woken)

(* HighestFirst: what a worker gets is the oldest message of the highest   *)
(* priority there is.                                                      *)
HighestFirst ==
    [][\A k \in Consumers : got'[k] \notin {got[k], Null} =>
          LET p == Min({q \in Priorities : order[q] # <<>>})
          IN  got'[k] = Head(order[p])]_vars

(* TopServed: a message of the highest priority is eventually taken out.   *)
(* One of a lower priority may stay for good while higher ones come in.    *)
TopServed ==
    \A m \in Msgs : head[0] = m ~> head[0] # m
=============================================================================
