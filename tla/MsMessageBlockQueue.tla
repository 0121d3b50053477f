------------------------ MODULE MsMessageBlockQueue -------------------------
(***************************************************************************)
(* The blocking queue between the threads of the server: a list of         *)
(* messages linked through _next, a mutex and a condition variable.  What  *)
(* a thread does while it holds the mutex is one step; waiting for the     *)
(* condition, being woken and taking the mutex again are steps of their    *)
(* own, so that another consumer can get in between.                       *)
(*                                                                         *)
(* The server uses the queue in two ways: the auth workers and the         *)
(* broker's workers are several consumers that call get(1), fed by put;    *)
(* the local router and the collector are one consumer that calls get(),   *)
(* fed by put and putList.                                                 *)
(***************************************************************************)
EXTENDS Naturals, Sequences, FiniteSets

CONSTANTS
    Msgs,
    Null,       \* a null pointer
    Consumers,  \* threads that get messages
    Uses        \* the ways a queue is used: by whom, the count of get (for
                \* get() more than any list has), the longest list put

ASSUME QueueAssumption ==
    /\ Null \notin Msgs
    /\ IsFiniteSet(Msgs) /\ IsFiniteSet(Consumers)
    /\ \A u \in Uses :
          /\ u.consumers \subseteq Consumers
          /\ u.count \in Nat \ {0}
          /\ u.lists \in Nat \ {0}
          /\ Cardinality(u.consumers) = 1 \/ u.lists = 1

VARIABLES
    use,    \* how this queue is used
    next,   \* _next of every message
    list,   \* _list, the first message
    tail,   \* _tail, the last
    size,   \* _list_size
    free,   \* messages that are neither in the queue nor with a consumer
    pc,     \* of a consumer: "ready" to get, "waiting", "woken" or "busy"
    got     \* what get has returned to it

vars == <<use, next, list, tail, size, free, pc, got>>

Waiting == {k \in Consumers : pc[k] = "waiting"}
Woken == {k \in Consumers : pc[k] = "woken"}

Elements(s) == {s[i] : i \in DOMAIN s}
Lists(N) == UNION {[1..n -> Msgs] : n \in N}

(* q is the list of messages that starts at head, for the given values of  *)
(* _next.                                                                  *)
IsChain(q, head, links) ==
    /\ head = IF Len(q) = 0 THEN Null ELSE q[1]
    /\ \A i \in 1..Len(q) :
          links[q[i]] = IF i = Len(q) THEN Null ELSE q[i + 1]

(* What following _next from head gives. *)
Walk(head, links) ==
    LET at[i \in 1..Cardinality(Msgs)] ==
            IF i = 1 THEN head
            ELSE IF at[i - 1] = Null THEN Null ELSE links[at[i - 1]]
    IN  at
Chain(head, links) ==
    [i \in 1..Cardinality({j \in 1..Cardinality(Msgs) : Walk(head, links)[j] # Null})
        |-> Walk(head, links)[i]]

TypeOK ==
    /\ use \in Uses
    /\ next \in [Msgs -> Msgs \cup {Null}]
    /\ {list, tail} \subseteq Msgs \cup {Null}
    /\ size \in Nat
    /\ free \subseteq Msgs
    /\ pc \in [Consumers -> {"ready", "waiting", "woken", "busy"}]
    /\ got \in [Consumers -> Msgs \cup {Null}]

Init ==
    /\ use \in Uses
    /\ next = [m \in Msgs |-> Null]
    /\ list = Null /\ tail = Null
    /\ size = 0
    /\ free = Msgs
    /\ pc = [k \in Consumers |-> "ready"]
    /\ got = [k \in Consumers |-> Null]

-----------------------------------------------------------------------------
(* Mutants of Signal: no signal at all, and no signal while a woken   *)
(* thread is on its way.                                                   *)
SignalNone == UNCHANGED pc
SignalIfNoneWoken ==
    \/ (Waiting = {} \/ Woken # {}) /\ UNCHANGED pc
    \/ Woken = {} /\ \E k \in Waiting : pc' = [pc EXCEPT ![k] = "woken"]

(* pthread_cond_signal wakes one of the threads that wait, if there is any. *)
Signal ==
    \/ Waiting = {} /\ UNCHANGED pc
    \/ \E k \in Waiting : pc' = [pc EXCEPT ![k] = "woken"]

(* The chain q is appended, links being _next with q linked. *)
Link(q, links) ==
    /\ Elements(q) \subseteq free
    /\ free' = free \ Elements(q)
    /\ next' = IF tail = Null THEN links ELSE [links EXCEPT ![tail] = q[1]]
    /\ list' = IF tail = Null THEN q[1] ELSE list
    /\ tail' = q[Len(q)]
    /\ size' = size + Len(q)
    /\ Signal
    /\ UNCHANGED <<use, got>>

(* Mutant of Put: _next of the message is left as it is. *)
PutAsIs(m) == Link(<<m>>, next)

(* put resets _next: the message may come from another list. *)
Put(m) == Link(<<m>>, [next EXCEPT ![m] = Null])

(* putList counts the messages up to the one without a successor. *)
PutList(q) ==
    /\ \A i, j \in DOMAIN q : q[i] = q[j] => i = j
    /\ Link(q, [m \in Msgs |->
          IF m \in Elements(q)
          THEN LET i == CHOOSE i \in DOMAIN q : q[i] = m
               IN  IF i = Len(q) THEN Null ELSE q[i + 1]
          ELSE next[m]])

-----------------------------------------------------------------------------
(* get finds the queue empty, at the first look or after it was woken. *)
Wait(k) ==
    /\ pc[k] \in {"ready", "woken"}
    /\ size = 0
    /\ pc' = [pc EXCEPT ![k] = "waiting"]
    /\ UNCHANGED <<use, next, list, tail, size, free, got>>

(* pthread_cond_wait may return without a signal. *)
WakeUp(k) ==
    /\ pc[k] = "waiting"
    /\ pc' = [pc EXCEPT ![k] = "woken"]
    /\ UNCHANGED <<use, next, list, tail, size, free, got>>

(* The first messages, which get(count) walks along. *)
FirstCount(q) ==
    /\ Len(q) = use.count
    /\ q[1] = list
    /\ \A i \in 1..(use.count - 1) : next[q[i]] = q[i + 1]

(* Mutant of GetSome: the last message taken keeps its successor. *)
GetSomeLinked(k) ==
    /\ pc[k] \in {"ready", "woken"}
    /\ size > use.count
    /\ \E q \in [1..use.count -> Msgs] :
          /\ FirstCount(q)
          /\ list' = next[q[use.count]]
    /\ size' = size - use.count
    /\ got' = [got EXCEPT ![k] = list]
    /\ pc' = [pc EXCEPT ![k] = "busy"]
    /\ UNCHANGED <<use, next, tail, free>>

(* get(count) with more than count messages in the queue. *)
GetSome(k) ==
    /\ pc[k] \in {"ready", "woken"}
    /\ size > use.count
    /\ \E q \in [1..use.count -> Msgs] :
          /\ FirstCount(q)
          /\ list' = next[q[use.count]]
          /\ next' = [next EXCEPT ![q[use.count]] = Null]
    /\ size' = size - use.count
    /\ got' = [got EXCEPT ![k] = list]
    /\ pc' = [pc EXCEPT ![k] = "busy"]
    /\ UNCHANGED <<use, tail, free>>

(* get(), and get(count) with no more than count messages. *)
GetAll(k) ==
    /\ pc[k] \in {"ready", "woken"}
    /\ size \in 1..use.count
    /\ list' = Null /\ tail' = Null
    /\ size' = 0
    /\ got' = [got EXCEPT ![k] = list]
    /\ pc' = [pc EXCEPT ![k] = "busy"]
    /\ UNCHANGED <<use, next, free>>

(* The consumer is done with its messages, which go elsewhere with the     *)
(* _next they have.                                                        *)
Process(k) ==
    /\ pc[k] = "busy"
    /\ free' = free \cup Elements(Chain(got[k], next))
    /\ got' = [got EXCEPT ![k] = Null]
    /\ pc' = [pc EXCEPT ![k] = "ready"]
    /\ UNCHANGED <<use, next, list, tail, size>>

Next ==
    \/ \E m \in Msgs : Put(m)
    \/ \E q \in Lists(2..use.lists) : PutList(q)
    \/ \E k \in use.consumers : Wait(k)
    \/ \E k \in use.consumers : WakeUp(k)
    \/ \E k \in use.consumers : GetSome(k)
    \/ \E k \in use.consumers : GetAll(k)
    \/ \E k \in use.consumers : Process(k)

(* A thread that can take the mutex or work on gets to run. *)
Fairness ==
    \A k \in Consumers :
        /\ WF_vars(Wait(k))
        /\ WF_vars(GetSome(k) \/ GetAll(k))
        /\ WF_vars(Process(k))

Spec == Init /\ [][Next]_vars /\ Fairness

-----------------------------------------------------------------------------
(* Linked: _list, _tail, _list_size and the _next of the messages describe *)
(* one list, of messages that nobody else holds.                           *)
Linked ==
    \E q \in [1..size -> Msgs] :
        /\ IsChain(q, list, next)
        /\ \A i, j \in 1..size : q[i] = q[j] => i = j
        /\ tail = IF size = 0 THEN Null ELSE q[size]
        /\ Elements(q) \cap free = {}

(* WaitersCovered: when a consumer waits, at least as many woken consumers *)
(* are on their way as there are messages: putting one message signals     *)
(* once, and nobody sleeps over a message.                                 *)
WaitersCovered == Waiting # {} => size <= Cardinality(Woken)

(* QueueSound: the list is linked as the counts say, and when a worker     *)
(* waits at least as many woken ones are on their way as there are         *)
(* messages.                                                               *)
QueueSound == TypeOK /\ Linked /\ WaitersCovered

(* EveryMessageTaken: a message in the queue is eventually taken out of it, *)
(* however the consumers and the producers interleave.                     *)
EveryMessageTaken ==
    \A m \in Msgs :
        m \in Elements(Chain(list, next)) ~> m \notin Elements(Chain(list, next))

(* Fifo: the linked list is a queue that gives out its messages in the     *)
(* order they were put in, each to one consumer, in batches.               *)
Queue == INSTANCE FifoQueue WITH
             queue <- Chain(list, next),
             batch <- [k \in Consumers |-> Chain(got[k], next)]
Fifo == Queue!FifoSpec
=============================================================================
