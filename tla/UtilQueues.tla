----------------------------- MODULE UtilQueues -----------------------------
(***************************************************************************)
(* The queues of framework/lib: SimpleQueue, a linked list that keeps its  *)
(* unused nodes; PriorityQueue, several of them behind a mutex and a       *)
(* condition variable; and BlockQueue, one list behind a mutex, with the   *)
(* code of SimpleQueue repeated.  What is done under the mutex is one      *)
(* step.                                                                   *)
(***************************************************************************)
EXTENDS Integers, Sequences, FiniteSets, SequencesExt, FiniteSetsExt

CONSTANTS
    Consumers,    \* threads that call get or getM
    PriorityNum,  \* lists of a PriorityQueue
    NodeCount,    \* DEFAULT_NODE_COUNT
    Want,         \* the second argument of getM
    MaxPuts       \* bound on the values put; they are numbered

VARIABLES
    kind,   \* "block" or "priority": the class of this queue
    lists,  \* the lists of the queue: one, or one for each priority
    puts,   \* values put so far
    pc,     \* of a consumer: "ready", "waiting", "woken"
    call,   \* of a consumer: "get" or "getM", its last call
    got,    \* of a consumer: the values its last call returned
    order   \* history: the values of every list in the order they were put

vars == <<kind, lists, puts, pc, call, got, order>>

NULL == 0   \* a null pointer; nodes are numbered from 1

Waiting == {k \in Consumers : pc[k] = "waiting"}
Woken   == {k \in Consumers : pc[k] = "woken"}
Sizes   == MapThenFoldSet(LAMBDA a, b : a + b, 0, LAMBDA p : lists[p].size,
                          LAMBDA S : CHOOSE p \in S : TRUE, DOMAIN lists)

(***************************************************************************)
(* SimpleQueue.                                                            *)
(***************************************************************************)
\* open: nodes in the idle list only
open == [list |-> NULL, tail |-> NULL, size |-> 0, idle |-> NodeCount,
         next |-> [n \in 1 .. NodeCount |-> n - 1],
         v |-> [n \in 1 .. NodeCount |-> 0]]

\* a node from the idle list, or a new one
Allocate(q) ==
  IF q.idle # NULL THEN [node |-> q.idle, q |-> [q EXCEPT !.idle = q.next[q.idle]]]
  ELSE [node |-> Len(q.next) + 1,
        q |-> [q EXCEPT !.next = Append(@, NULL), !.v = Append(@, 0)]]

_put(q0, value) ==
  LET n == Allocate(q0).node
      q == Allocate(q0).q
      linked == [q.next EXCEPT ![n] = NULL]
  IN  [q EXCEPT !.v[n] = value,
                !.next = IF q.tail # NULL THEN [linked EXCEPT ![q.tail] = n]
                         ELSE linked,
                !.list = IF q.tail # NULL THEN @ ELSE n,
                !.tail = n,
                !.size = @ + 1]

\* the first node goes to the idle list; its value is returned
Unlink(q) ==
  LET n == q.list
  IN  [q EXCEPT !.list = q.next[n],
                !.tail = IF q.next[n] = NULL THEN NULL ELSE @,
                !.next[n] = q.idle,
                !.idle = n,
                !.size = @ - 1]

_get(q) == [q |-> Unlink(q), v |-> <<q.v[q.list]>>]

\* getM's loop: the successor is read before the node is given back
Walk(q, c) ==
  FoldLeft(LAMBDA r, i :
             LET n == r.node
             IN  [node |-> r.q.next[n], v |-> Append(r.v, r.q.v[n]),
                  q |-> [r.q EXCEPT !.next[n] = r.q.idle, !.idle = n]],
           [node |-> q.list, v |-> <<>>, q |-> q], [i \in 1 .. c |-> i])

\* Mutant of getM: the tail of a list that is empty now is kept.
getMKeepsTail(q, want) ==
  LET c == Min({want, q.size})
      w == Walk(q, c)
  IN  IF q.size <= 0 THEN [q |-> q, v |-> <<>>]
      ELSE [v |-> w.v, q |-> [w.q EXCEPT !.list = w.node, !.size = @ - c]]

getM(q, want) ==
  LET c == Min({want, q.size})
      w == Walk(q, c)
  IN  IF q.size <= 0 THEN [q |-> q, v |-> <<>>]
      ELSE [v |-> w.v,
            q |-> [w.q EXCEPT !.list = w.node,
                              !.tail = IF w.node = NULL THEN NULL ELSE @,
                              !.size = @ - c]]

(***************************************************************************)
(* The classes with a mutex.                                               *)
(***************************************************************************)
Init ==
  /\ kind \in {"block", "priority"}
  /\ lists = [p \in 0 .. (IF kind = "block" THEN 0 ELSE PriorityNum - 1) |-> open]
  /\ puts = 0
  /\ pc = [k \in Consumers |-> "ready"]
  /\ call = [k \in Consumers |-> "get"]
  /\ got = [k \in Consumers |-> <<>>]
  /\ order = [p \in DOMAIN lists |-> <<>>]

\* Mutants of Signal: none while a woken thread is on its way, and none at all.
SignalIfNoneWoken ==
  \/ (Waiting = {} \/ Woken # {}) /\ UNCHANGED pc
  \/ Woken = {} /\ \E k \in Waiting : pc' = [pc EXCEPT ![k] = "woken"]

SignalNone == UNCHANGED pc

\* pthread_cond_signal
Signal ==
  \/ Waiting = {} /\ UNCHANGED pc
  \/ \E k \in Waiting : pc' = [pc EXCEPT ![k] = "woken"]

Added(p) ==
  /\ puts < MaxPuts
  /\ puts' = puts + 1
  /\ lists' = [lists EXCEPT ![p] = _put(@, puts + 1)]
  /\ order' = [order EXCEPT ![p] = Append(@, puts + 1)]
  /\ Signal
  /\ UNCHANGED <<kind, call, got>>

BlockPut == kind = "block" /\ Added(0)

PriorityPut(p) == kind = "priority" /\ Added(p)

\* a priority out of range: the value is dropped, and one consumer is woken
PriorityPutNowhere ==
  /\ kind = "priority"
  /\ puts < MaxPuts
  /\ puts' = puts + 1
  /\ Signal
  /\ UNCHANGED <<kind, lists, call, got, order>>

Return(k, values) ==
  /\ got' = [got EXCEPT ![k] = values]
  /\ pc' = [pc EXCEPT ![k] = "ready"]
  /\ order' = [p \in DOMAIN order |->
                 SelectSeq(order[p], LAMBDA v : ~Contains(values, v))]
  /\ UNCHANGED <<kind, puts>>

Sleep(k, c) ==
  /\ pc' = [pc EXCEPT ![k] = "waiting"]
  /\ call' = [call EXCEPT ![k] = c]
  /\ got' = [got EXCEPT ![k] = <<>>]
  /\ UNCHANGED <<kind, lists, puts, order>>

\* the call starts, or goes on where it waited
Calls(k, c) ==
  \/ pc[k] = "ready"
  \/ pc[k] = "woken" /\ call[k] = c

BlockGet(k) ==
  /\ kind = "block" /\ Calls(k, "get")
  /\ \/ Sizes = 0 /\ Sleep(k, "get")
     \/ /\ Sizes > 0
        /\ lists' = [lists EXCEPT ![0] = _get(@).q]
        /\ call' = [call EXCEPT ![k] = "get"]
        /\ Return(k, _get(lists[0]).v)

BlockGetM(k) ==
  /\ kind = "block" /\ Calls(k, "getM")
  /\ \/ Sizes = 0 /\ Sleep(k, "getM")
     \/ /\ Sizes > 0
        /\ lists' = [lists EXCEPT ![0] = getM(@, Want).q]
        /\ call' = [call EXCEPT ![k] = "getM"]
        /\ Return(k, getM(lists[0], Want).v)

First == Min({p \in DOMAIN lists : lists[p].size > 0})

PriorityGet(k) ==
  /\ kind = "priority" /\ Calls(k, "get")
  /\ \/ Sizes = 0 /\ Sleep(k, "get")
     \/ /\ Sizes > 0
        /\ lists' = [lists EXCEPT ![First] = _get(@).q]
        /\ call' = [call EXCEPT ![k] = "get"]
        /\ Return(k, _get(lists[First]).v)

\* Mutant of Gather: every list is asked for the whole count.
GatherAll(c) ==
  FoldLeft(LAMBDA r, p :
             LET m == getM(lists[p], c)
             IN  [v |-> r.v \o m.v, q |-> [r.q EXCEPT ![p] = m.q]],
           [v |-> <<>>, q |-> lists],
           [i \in 1 .. Cardinality(DOMAIN lists) |-> i - 1])

\* the lists in turn, until c values are there
Gather(c) ==
  FoldLeft(LAMBDA r, p :
             LET m == getM(lists[p], c - Len(r.v))
             IN  IF Len(r.v) = c THEN r
                 ELSE [v |-> r.v \o m.v, q |-> [r.q EXCEPT ![p] = m.q]],
           [v |-> <<>>, q |-> lists],
           [i \in 1 .. Cardinality(DOMAIN lists) |-> i - 1])

\* getM reads the size once: a thread that found it 0 waits in its loop for
\* good, whatever is put and whoever wakes it.
PriorityGetM(k) ==
  /\ kind = "priority"
  /\ \/ pc[k] = "ready" /\ Sizes = 0 /\ Sleep(k, "getM")
     \/ pc[k] = "woken" /\ call[k] = "getM" /\ Sleep(k, "getM")
     \/ /\ pc[k] = "ready" /\ Sizes > 0
        /\ LET g == Gather(Min({Want, Sizes}))
           IN  lists' = g.q /\ Return(k, g.v)
        /\ call' = [call EXCEPT ![k] = "getM"]

Get(k) == BlockGet(k) \/ BlockGetM(k) \/ PriorityGet(k) \/ PriorityGetM(k)

Next ==
  \/ BlockPut
  \/ \E p \in DOMAIN lists : PriorityPut(p)
  \/ PriorityPutNowhere
  \/ \E k \in Consumers : Get(k)

Spec == Init /\ [][Next]_vars /\ \A k \in Consumers : WF_vars(Get(k))

(***************************************************************************)
(* Properties.                                                             *)
(***************************************************************************)
\* the nodes from n on along _next
From(q, n) ==
  LET at[i \in 1 .. Len(q.next)] ==
        IF i = 1 THEN n ELSE IF at[i-1] = NULL THEN NULL ELSE q.next[at[i-1]]
  IN  SelectSeq(at, LAMBDA m : m # NULL)

\* Every node a list has made is in the list or in its idle list, once; the
\* list holds the values put into it and not returned, in the order they were
\* put.
NodesKept ==
  \A p \in DOMAIN lists :
    LET q == lists[p]
        full == From(q, q.list)
        idle == From(q, q.idle)
    IN  /\ Len(full) + Len(idle) = Len(q.next)
        /\ ToSet(full) \union ToSet(idle) = DOMAIN q.next
        /\ q.size = Len(full)
        /\ [i \in DOMAIN full |-> q.v[full[i]]] = order[p]
        /\ q.tail = IF full = <<>> THEN NULL ELSE Last(full)

\* getM returns the values in sequence, from the highest priority to the
\* lowest and within one in the order they were put, as many as it was asked
\* for or as there are; get returns the first of them.
InSequence ==
  [][\A k \in Consumers : got'[k] # got[k] /\ got'[k] # <<>> =>
       LET all == FoldLeft(LAMBDA r, p : r \o order[p], <<>>,
                           [i \in 1 .. Cardinality(DOMAIN order) |-> i - 1])
           n == IF call'[k] = "get" THEN 1 ELSE Min({Want, Len(all)})
       IN  got'[k] = SubSeq(all, 1, n)]_vars

\* As long as nobody waits in PriorityQueue::getM, no consumer sleeps over a
\* value: the woken ones are at least as many as the values.
NobodySleepsOver ==
  (kind = "block" \/ \A k \in Waiting \union Woken : call[k] = "get") =>
    (Waiting # {} => Sizes <= Cardinality(Woken))

\* A value put into a BlockQueue is eventually returned.
BlockServes ==
  \A v \in 1 .. MaxPuts :
    (kind = "block" /\ Contains(order[0], v)) ~> ~Contains(order[0], v)
=============================================================================
