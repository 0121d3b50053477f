--------------------- MODULE MsMessageBlockQueueProofs ----------------------
(***************************************************************************)
(* For every number of messages and of consumers, and for both uses the    *)
(* server makes of the queue: nobody sleeps over a message, the links      *)
(* always describe one list, and the linked list implements FifoQueue.     *)
(***************************************************************************)
EXTENDS MsMessageBlockQueue, FiniteSetTheorems, FunctionTheorems,
        WellFoundedInduction, TLAPS

(* WaitersCovered is inductive together with the types it speaks of and    *)
(* the fact that nobody but the consumers of this use calls get: a lone    *)
(* consumer that waits is the only one to be woken by a whole list.        *)
Covered ==
    /\ use \in Uses
    /\ size \in Nat
    /\ pc \in [Consumers -> {"ready", "waiting", "woken", "busy"}]
    /\ \A k \in Consumers : k \notin use.consumers => pc[k] = "ready"
    /\ WaitersCovered

-----------------------------------------------------------------------------
(* The woken consumers can be counted. *)
LEMMA WokenFinite ==
    IsFiniteSet(Woken) /\ Cardinality(Woken) \in Nat
<1>1. Woken \subseteq Consumers /\ IsFiniteSet(Consumers)
  BY QueueAssumption DEF Woken
<1>2. IsFiniteSet(Woken)
  BY <1>1, FS_Subset
<1> QED
  BY <1>2, FS_CardinalityType

(* A signalled consumer leaves those that wait for those that are woken. *)
LEMMA Signalled ==
    ASSUME pc \in [Consumers -> {"ready", "waiting", "woken", "busy"}],
           NEW k \in Waiting, pc' = [pc EXCEPT ![k] = "woken"]
    PROVE  /\ Waiting' = Waiting \ {k}
           /\ Cardinality(Woken') = Cardinality(Woken) + 1
<1>1. k \in Consumers /\ pc[k] = "waiting" /\ k \notin Woken
  BY DEF Waiting, Woken
<1>2. Waiting' = Waiting \ {k}
  BY <1>1 DEF Waiting
<1>3. Woken' = Woken \cup {k}
  BY <1>1 DEF Woken
<1>4. Cardinality(Woken \cup {k}) = Cardinality(Woken) + 1
  BY <1>1, WokenFinite, FS_AddElement, Zenon
<1> QED
  BY <1>2, <1>3, <1>4

(* A consumer that gets messages is no longer woken, and nobody begins to  *)
(* wait.                                                                   *)
LEMMA Served ==
    ASSUME pc \in [Consumers -> {"ready", "waiting", "woken", "busy"}],
           NEW k \in Consumers, pc[k] \in {"ready", "woken"},
           pc' = [pc EXCEPT ![k] = "busy"]
    PROVE  /\ Waiting' = Waiting
           /\ Cardinality(Woken') \in Nat
           /\ Cardinality(Woken') >= Cardinality(Woken) - 1
<1>1. Waiting' = Waiting /\ Woken' = Woken \ {k}
  BY DEF Waiting, Woken
<1>2. /\ IsFiniteSet(Woken \ {k})
      /\ Cardinality(Woken \ {k}) = IF k \in Woken THEN Cardinality(Woken) - 1
                                                   ELSE Cardinality(Woken)
  BY WokenFinite, FS_RemoveElement
<1>3. Cardinality(Woken \ {k}) \in Nat
  BY <1>2, FS_CardinalityType
<1> QED
  BY <1>1, <1>2, <1>3, WokenFinite

(* The length of a list that putList is given. *)
LEMMA ListLength ==
    ASSUME NEW N \in SUBSET Nat, NEW q \in Lists(N)
    PROVE  Len(q) \in N
<1>1. PICK n \in N : q \in [1..n -> Msgs]
  BY DEF Lists
<1>2. q \in Seq(Msgs) /\ Len(q) = n
  BY <1>1
<1> QED
  BY <1>2

(* Appending a list and signalling once: either it is one message, or the  *)
(* queue has one consumer.                                                 *)
LEMMA LinkCovers ==
    ASSUME Covered, NEW q, NEW links, Link(q, links), Len(q) \in Nat,
           Len(q) = 1 \/ Cardinality(use.consumers) = 1
    PROVE  Covered'
<1> USE DEF Covered
<1>1. size' = size + Len(q) /\ use' = use /\ Signal
  BY DEF Link
<1>2. CASE Waiting = {} /\ UNCHANGED pc
  BY <1>1, <1>2 DEF WaitersCovered, Waiting
<1>3. ASSUME NEW k \in Waiting, pc' = [pc EXCEPT ![k] = "woken"]
      PROVE  Covered'
  <2>1. /\ Waiting' = Waiting \ {k}
        /\ Cardinality(Woken') = Cardinality(Woken) + 1
        /\ Cardinality(Woken) \in Nat
    BY <1>3, Signalled, WokenFinite, Zenon
  <2>2. k \in use.consumers
    BY <1>3 DEF Waiting
  <2>3. CASE Len(q) = 1
    <3>1. size <= Cardinality(Woken)
      BY <1>3 DEF WaitersCovered
    <3>2. size' <= Cardinality(Woken')
      BY <1>1, <2>1, <2>3, <3>1
    <3> QED
      BY <1>1, <1>3, <2>2, <3>2 DEF WaitersCovered, Waiting
  <2>4. CASE Cardinality(use.consumers) = 1
    <3>1. use.consumers \subseteq Consumers /\ IsFiniteSet(Consumers)
      BY QueueAssumption
    <3>2. IsFiniteSet(use.consumers)
      BY <3>1, FS_Subset
    <3>3. PICK x : use.consumers = {x}
      BY <2>4, <3>2, FS_Singleton, Zenon
    <3>4. Waiting \subseteq use.consumers
      BY DEF Waiting
    <3>5. Waiting' = {}
      BY <2>1, <2>2, <3>3, <3>4
    <3> QED
      BY <1>1, <1>3, <2>2, <3>5 DEF WaitersCovered, Waiting
  <2> QED
    BY <2>3, <2>4
<1> QED
  BY <1>1, <1>2, <1>3 DEF Signal

-----------------------------------------------------------------------------
(* Whatever happens, waiting consumers stay covered. *)
LEMMA CoverKept ==
    ASSUME Covered, [Next]_vars
    PROVE  Covered'
<1> USE DEF Covered
<1>uses. /\ use.consumers \subseteq Consumers
         /\ use.lists \in Nat \ {0} /\ use.count \in Nat \ {0}
         /\ Cardinality(use.consumers) = 1 \/ use.lists = 1
  BY QueueAssumption, Zenon
<1>put. ASSUME NEW m \in Msgs, Put(m)
        PROVE  Covered'
  <2>1. Link(<<m>>, [next EXCEPT ![m] = Null]) /\ Len(<<m>>) = 1
    BY <1>put DEF Put
  <2> QED
    BY <2>1, LinkCovers
<1>putList. ASSUME NEW q \in Lists(2..use.lists), PutList(q)
            PROVE  Covered'
  <2>1. Len(q) \in 2..use.lists
    BY <1>uses, ListLength
  <2>2. Cardinality(use.consumers) = 1
    BY <1>uses, <2>1
  <2>3. PICK links : Link(q, links)
    BY <1>putList DEF PutList
  <2> QED
    BY <1>uses, <2>1, <2>2, <2>3, LinkCovers
<1>wait. ASSUME NEW k \in use.consumers, Wait(k)
         PROVE  Covered'
  <2>1. Cardinality(Woken') \in Nat
    <3>1. Woken' \subseteq Consumers /\ IsFiniteSet(Consumers)
      BY QueueAssumption DEF Woken
    <3> QED
      BY <3>1, FS_Subset, FS_CardinalityType
  <2> QED
    BY <1>uses, <1>wait, <2>1 DEF Wait, WaitersCovered
<1>wakeUp. ASSUME NEW k \in use.consumers, WakeUp(k)
           PROVE  Covered'
  <2>1. k \in Waiting /\ pc' = [pc EXCEPT ![k] = "woken"]
    BY <1>uses, <1>wakeUp DEF WakeUp, Waiting
  <2>2. Cardinality(Woken') = Cardinality(Woken) + 1 /\ size <= Cardinality(Woken)
    BY <2>1, Signalled, Zenon DEF WaitersCovered
  <2>3. size' <= Cardinality(Woken')
    BY <1>wakeUp, <2>2, WokenFinite DEF WakeUp
  <2> QED
    BY <1>uses, <1>wakeUp, <2>3 DEF WakeUp, WaitersCovered
<1>get. ASSUME NEW k \in use.consumers, GetSome(k) \/ GetAll(k)
        PROVE  Covered'
  <2>1. /\ pc[k] \in {"ready", "woken"} /\ pc' = [pc EXCEPT ![k] = "busy"]
        /\ size' \in Nat /\ size' <= size - 1 /\ use' = use
    BY <1>uses, <1>get DEF GetSome, GetAll
  <2>2. /\ Waiting' = Waiting
        /\ Cardinality(Woken') \in Nat
        /\ Cardinality(Woken') >= Cardinality(Woken) - 1
    BY <1>uses, <2>1, Served, Zenon
  <2>3. Waiting' # {} => size' <= Cardinality(Woken')
    BY <2>1, <2>2, WokenFinite DEF WaitersCovered
  <2> QED
    BY <1>uses, <2>1, <2>3 DEF WaitersCovered
<1>process. ASSUME NEW k \in use.consumers, Process(k)
            PROVE  Covered'
  <2>1. pc[k] = "busy" /\ pc' = [pc EXCEPT ![k] = "ready"] /\ UNCHANGED <<use, size>>
    BY <1>process DEF Process
  <2>2. Waiting' = Waiting /\ Woken' = Woken
    BY <1>uses, <2>1 DEF Waiting, Woken
  <2> QED
    BY <1>uses, <2>1, <2>2 DEF WaitersCovered
<1>stutter. CASE UNCHANGED vars
  <2>1. Waiting' = Waiting /\ Woken' = Woken
    BY <1>stutter DEF vars, Waiting, Woken
  <2> QED
    BY <1>stutter, <2>1 DEF vars, WaitersCovered
<1> QED
  BY <1>put, <1>putList, <1>wait, <1>wakeUp, <1>get, <1>process, <1>stutter, Zenon DEF Next

(* A consumer that waits is covered: there are at least as many woken      *)
(* consumers on their way as messages in the queue, whoever puts, takes,   *)
(* is woken without cause or comes back from work in between.              *)
THEOREM NobodySleepsOverMessages == Spec => []WaitersCovered
<1>init. Init => Covered
  BY DEF Init, Covered, WaitersCovered, Waiting
<1>covered. Covered => WaitersCovered
  BY DEF Covered
<1> QED
  BY <1>init, <1>covered, CoverKept, PTL DEF Spec

-----------------------------------------------------------------------------
(* A non-empty set of natural numbers has a least element, since finite    *)
(* sets are well-founded under inclusion.                                  *)
LEMMA LeastNatural ==
    ASSUME NEW T, T \subseteq Nat, T # {}
    PROVE  \E x \in T : \A y \in T : x <= y
<1> DEFINE I == {0..n : n \in T}
           R == StrictSubsetOrdering(Nat)
<1>1. I \subseteq FiniteSubsetsOf(Nat) /\ I # {}
  <2>1. \A n \in T : 0..n \in SUBSET Nat
    OBVIOUS
  <2>2. \A n \in T : IsFiniteSet(0..n)
    BY FS_Interval
  <2> QED
    BY <2>1, <2>2, Zenon DEF FiniteSubsetsOf
<1>2. PICK X \in I : \A Y \in I : ~(<<Y, X>> \in R)
  <2>1. IsWellFoundedOn(R, FiniteSubsetsOf(Nat))
    BY FS_StrictSubsetOrderingWellFounded
  <2> HIDE DEF I, R
  <2> QED
    BY <1>1, <2>1, WFMin
<1>3. PICK x \in T : X = 0..x
  OBVIOUS
<1>4. ASSUME NEW y \in T, y < x
      PROVE  FALSE
  <2>1. 0..y \in I /\ 0..y \in SUBSET Nat /\ 0..x \in SUBSET Nat
    OBVIOUS
  <2>2. 0..y \subseteq 0..x /\ 0..y # 0..x
    <3>1. x \in Nat /\ y \in Nat
      OBVIOUS
    <3>2. x \in 0..x /\ ~(x \in 0..y)
      BY <3>1, <1>4
    <3> QED
      BY <3>1, <3>2, <1>4
  <2>3. <<0..y, X>> \in R
    BY <1>3, <2>1, <2>2 DEF StrictSubsetOrdering
  <2> QED
    BY <1>2, <2>1, <2>3, Zenon
<1> QED
  BY <1>4

(* The size of 1..n. *)
LEMMA IntervalSize ==
    ASSUME NEW n \in Nat
    PROVE  Cardinality(1..n) = n
<1>1. Cardinality(1..n) = IF 1 > n THEN 0 ELSE n - 1 + 1
  <2>1. 1 \in Int /\ n \in Int
    OBVIOUS
  <2> QED
    BY ONLY <2>1, FS_Interval
<1>2. (IF 1 > n THEN 0 ELSE n - 1 + 1) = n
  OBVIOUS
<1> QED
  BY <1>1, <1>2

Once(s) == \A i, j \in 1..Len(s) : s[i] = s[j] => i = j

(* A list that holds no message twice is no longer than there are messages. *)
LEMMA OnceFits ==
    ASSUME NEW s \in Seq(Msgs), Once(s)
    PROVE  Cardinality(Msgs) \in Nat /\ Len(s) <= Cardinality(Msgs)
<1>1. s \in Injection(1..Len(s), Msgs)
  BY DEF Once, Injection, IsInjective
<1>2. IsFiniteSet(Msgs)
  BY QueueAssumption
<1>3. Cardinality(1..Len(s)) = Len(s) /\ Len(s) \in Nat
  BY IntervalSize
<1> QED
  BY <1>1, <1>2, <1>3, FS_Injection, FS_CardinalityType

(* Whoever follows the links of the list r sees r. *)
LEMMA SamePath ==
    ASSUME NEW q \in Seq(Msgs), NEW r \in Seq(Msgs), NEW head, NEW links,
           IsChain(r, head, links), q # <<>> => q[1] = head,
           \A i \in 1..(Len(q) - 1) : links[q[i]] = q[i + 1]
    PROVE  \A i \in 1..Len(q) : i <= Len(r) /\ q[i] = r[i]
<1> DEFINE T == {i \in 1..Len(q) : ~(i <= Len(r) /\ q[i] = r[i])}
<1>len. /\ Len(q) \in Nat /\ Len(r) \in Nat /\ Null \notin Msgs
        /\ \A i \in 1..Len(q) : q[i] \in Msgs
  BY QueueAssumption
<1>1. SUFFICES ASSUME T # {} PROVE FALSE
  OBVIOUS
<1>2. T \subseteq Nat
  BY <1>len
<1>3. PICK x \in T : \A y \in T : x <= y
  <2> HIDE DEF T
  <2> QED
    BY <1>1, <1>2, LeastNatural, Zenon
<1>4. CASE x = 1
  <2>1. q # <<>> /\ q[1] = head /\ head \in Msgs
    BY <1>len, <1>4
  <2> QED
    BY <1>len, <1>4, <2>1 DEF IsChain
<1>5. CASE x # 1
  <2>1. x - 1 \in 1..(Len(q) - 1) /\ x - 1 \in 1..Len(q) /\ ~(x <= x - 1)
    BY <1>len, <1>5
  <2>2. x - 1 <= Len(r) /\ q[x - 1] = r[x - 1]
    BY <1>3, <2>1
  <2>3. links[r[x - 1]] = q[x] /\ q[x] \in Msgs
    BY <1>len, <2>1, <2>2
  <2>4. links[r[x - 1]] = IF x - 1 = Len(r) THEN Null ELSE r[x]
    BY <1>len, <2>1, <2>2 DEF IsChain
  <2>5. x - 1 # Len(r) /\ q[x] = r[x]
    BY <1>len, <2>3, <2>4, Zenon
  <2> QED
    BY <1>len, <2>1, <2>2, <2>5
<1> QED
  BY <1>4, <1>5

(* Chain computes the list that is linked. *)
WalkStep(at, head, links) ==
    [i \in 1..Cardinality(Msgs) |->
        IF i = 1 THEN head
        ELSE IF at[i - 1] = Null THEN Null ELSE links[at[i - 1]]]

LEMMA ChainIs ==
    ASSUME NEW q \in Seq(Msgs), Once(q), NEW head, NEW links, IsChain(q, head, links)
    PROVE  Chain(head, links) = q
<1> DEFINE N == Cardinality(Msgs)
           w == [i \in 1..N |-> IF i <= Len(q) THEN q[i] ELSE Null]
           at == Walk(head, links)
<1>1. N \in Nat /\ Len(q) \in Nat /\ Len(q) <= N /\ Null \notin Msgs
      /\ \A i \in 1..Len(q) : q[i] \in Msgs
  BY OnceFits, QueueAssumption
<1>2. w = WalkStep(w, head, links)
  <2> SUFFICES ASSUME NEW i \in 1..N
               PROVE  w[i] = IF i = 1 THEN head
                             ELSE IF w[i - 1] = Null THEN Null ELSE links[w[i - 1]]
    BY Zenon DEF WalkStep
  <2>1. CASE i = 1
    BY <1>1, <2>1 DEF IsChain
  <2>2. CASE i # 1
    <3>1. i - 1 \in 1..N /\ w[i - 1] = IF i - 1 <= Len(q) THEN q[i - 1] ELSE Null
      BY <1>1, <2>2
    <3>2. i - 1 <= Len(q) => /\ q[i - 1] # Null
                             /\ links[q[i - 1]] = IF i - 1 = Len(q) THEN Null ELSE q[i]
      BY <1>1, <2>2 DEF IsChain
    <3> QED
      BY <1>1, <2>2, <3>1, <3>2
  <2> QED
    BY <2>1, <2>2, Zenon
<1>3. at = WalkStep(at, head, links)
  <2>1. at = CHOOSE f : f = WalkStep(f, head, links)
    BY DEF Walk, WalkStep
  <2> HIDE DEF at, w
  <2> QED
    BY <1>2, <2>1
<1>4. at = w
  <2> DEFINE T == {i \in 1..N : at[i] # w[i]}
  <2>1. /\ \A i \in 1..N : at[i] = IF i = 1 THEN head
                           ELSE IF at[i - 1] = Null THEN Null ELSE links[at[i - 1]]
        /\ \A i \in 1..N : w[i] = IF i = 1 THEN head
                           ELSE IF w[i - 1] = Null THEN Null ELSE links[w[i - 1]]
    <3> HIDE DEF at, w
    <3> QED
      BY <1>2, <1>3, Zenon DEF WalkStep
  <2>2. at = [i \in 1..N |-> at[i]]
    <3> HIDE DEF at
    <3> QED
      BY <1>3 DEF WalkStep
  <2> HIDE DEF at, w, N
  <2>3. ASSUME T # {}
        PROVE  FALSE
    <3>1. T \subseteq Nat
      BY <1>1
    <3>2. PICK x \in T : \A y \in T : x <= y
      <4> HIDE DEF T
      <4> QED
        BY <2>3, <3>1, LeastNatural, Zenon
    <3>3. x # 1
      BY <1>1, <2>1, Zenon
    <3>4. x - 1 \in 1..N /\ ~(x <= x - 1)
      BY <1>1, <3>3
    <3>5. at[x - 1] = w[x - 1]
      BY <3>2, <3>4
    <3> QED
      BY <2>1, <3>3, <3>5
  <2> QED
    BY <2>2, <2>3 DEF w
<1>5. {j \in 1..N : w[j] # Null} = 1..Len(q)
  BY <1>1
<1>6. Cardinality(1..Len(q)) = Len(q)
  BY <1>1, IntervalSize
<1>7. Chain(head, links) = [i \in 1..Len(q) |-> w[i]]
  <2> HIDE DEF w
  <2> QED
    BY <1>4, <1>5, <1>6, Zenon DEF Chain
<1>8. [i \in 1..Len(q) |-> w[i]] = [i \in 1..Len(q) |-> q[i]]
  BY <1>1
<1> QED
  BY <1>1, <1>7, <1>8

-----------------------------------------------------------------------------
(* The invariant of Linked and Fifo: q is in the queue and b[k] is what    *)
(* consumer k has taken; no message is in two of these lists or free.      *)
Layout(q, b) ==
    /\ next \in [Msgs -> Msgs \cup {Null}] /\ free \subseteq Msgs
    /\ got \in [Consumers -> Msgs \cup {Null}]
    /\ q \in Seq(Msgs) /\ Once(q) /\ IsChain(q, list, next)
    /\ Len(q) = size
    /\ tail = IF size = 0 THEN Null ELSE q[size]
    /\ Elements(q) \cap free = {}
    /\ b \in [Consumers -> Seq(Msgs)]
    /\ \A k \in Consumers :
          /\ Once(b[k]) /\ IsChain(b[k], got[k], next)
          /\ Elements(b[k]) \cap free = {}
          /\ Elements(b[k]) \cap Elements(q) = {}
          /\ pc[k] = "busy" <=> b[k] # <<>>
          /\ \A j \in Consumers : j # k => Elements(b[j]) \cap Elements(b[k]) = {}

(* A list whose messages keep their _next is still linked. *)
LEMMA ChainKept ==
    ASSUME NEW s \in Seq(Msgs), NEW head, NEW links, NEW others, IsChain(s, head, links),
           \A m \in Elements(s) : others[m] = links[m]
    PROVE  IsChain(s, head, others)
<1>1. \A i \in 1..Len(s) : s[i] \in Elements(s)
  BY DEF Elements
<1> QED
  BY <1>1 DEF IsChain

(* The lists read off the links are those of the layout. *)
LEMMA LayoutRead ==
    ASSUME NEW q, NEW b, Layout(q, b)
    PROVE  /\ Chain(list, next) = q
           /\ [k \in Consumers |-> Chain(got[k], next)] = b
<1>1. Chain(list, next) = q
  BY ChainIs DEF Layout
<1>2. \A k \in Consumers : Chain(got[k], next) = b[k]
  BY ChainIs DEF Layout
<1> QED
  BY <1>1, <1>2 DEF Layout

LEMMA LayoutReadNext ==
    ASSUME NEW q, NEW b, Layout(q, b)'
    PROVE  /\ Chain(list, next)' = q
           /\ [k \in Consumers |-> Chain(got[k], next)]' = b
<1>1. Chain(list', next') = q
  BY ChainIs DEF Layout
<1>2. \A k \in Consumers : Chain(got'[k], next') = b[k]
  BY ChainIs DEF Layout
<1> QED
  BY <1>1, <1>2 DEF Layout

(* The elements of two lists one behind the other. *)
LEMMA ConcatLists ==
    ASSUME NEW q \in Seq(Msgs), NEW s \in Seq(Msgs)
    PROVE  /\ q \o s \in Seq(Msgs) /\ Len(q \o s) = Len(q) + Len(s)
           /\ \A i \in 1..Len(q) : (q \o s)[i] = q[i]
           /\ \A i \in (Len(q) + 1)..(Len(q) + Len(s)) : (q \o s)[i] = s[i - Len(q)]
           /\ Elements(q \o s) = Elements(q) \cup Elements(s)
<1>1. /\ q \o s \in Seq(Msgs) /\ Len(q \o s) = Len(q) + Len(s)
      /\ Len(q) \in Nat /\ Len(s) \in Nat
      /\ \A i \in 1..Len(q) : (q \o s)[i] = q[i]
      /\ \A i \in (Len(q) + 1)..(Len(q) + Len(s)) : (q \o s)[i] = s[i - Len(q)]
      /\ DOMAIN (q \o s) = 1..(Len(q) + Len(s))
      /\ DOMAIN q = 1..Len(q) /\ DOMAIN s = 1..Len(s)
  OBVIOUS
<1>2. Elements(q \o s) \subseteq Elements(q) \cup Elements(s)
  <2> SUFFICES ASSUME NEW i \in 1..(Len(q) + Len(s))
               PROVE  (q \o s)[i] \in Elements(q) \cup Elements(s)
    BY <1>1 DEF Elements
  <2>1. i \in 1..Len(q) \/ (i \in (Len(q) + 1)..(Len(q) + Len(s)) /\ i - Len(q) \in 1..Len(s))
    BY <1>1
  <2> QED
    BY <1>1, <2>1 DEF Elements
<1>3. Elements(q) \subseteq Elements(q \o s)
  <2>1. \A i \in 1..Len(q) : i \in 1..(Len(q) + Len(s))
    BY <1>1
  <2> QED
    BY <1>1, <2>1 DEF Elements
<1>4. Elements(s) \subseteq Elements(q \o s)
  <2> SUFFICES ASSUME NEW i \in 1..Len(s)
               PROVE  s[i] \in Elements(q \o s)
    BY <1>1 DEF Elements
  <2>1. /\ i + Len(q) \in (Len(q) + 1)..(Len(q) + Len(s))
        /\ i + Len(q) \in 1..(Len(q) + Len(s)) /\ (i + Len(q)) - Len(q) = i
    BY <1>1
  <2> QED
    BY <1>1, <2>1 DEF Elements
<1> QED
  BY <1>1, <1>2, <1>3, <1>4

(* put and putList: the list s goes behind the queue. *)
LEMMA LinkKeepsLayout ==
    ASSUME TypeOK, NEW q, NEW b, Layout(q, b), NEW s \in Seq(Msgs), s # <<>>, Once(s),
           NEW links, links \in [Msgs -> Msgs \cup {Null}], IsChain(s, s[1], links),
           \A m \in Msgs : m \notin Elements(s) => links[m] = next[m],
           Link(s, links)
    PROVE  Layout(q \o s, b)'
<1> DEFINE z == q \o s
           n == Len(q)
           l == Len(s)
<1>1. /\ q \in Seq(Msgs) /\ n = size /\ n \in Nat /\ l \in Nat \ {0}
      /\ \A i \in 1..n : q[i] \in Msgs /\ q[i] \in Elements(q)
      /\ \A i \in 1..l : s[i] \in Msgs /\ s[i] \in Elements(s)
  <2>1. q \in Seq(Msgs) /\ n = size
    BY DEF Layout
  <2> QED
    BY <2>1 DEF Elements
<1>2. /\ z \in Seq(Msgs) /\ Len(z) = n + l
      /\ \A i \in 1..n : z[i] = q[i]
      /\ \A i \in (n + 1)..(n + l) : z[i] = s[i - n]
      /\ Elements(z) = Elements(q) \cup Elements(s)
  BY <1>1, ConcatLists, Zenon
<1>3. /\ Elements(s) \subseteq free /\ free' = free \ Elements(s)
      /\ next' = IF tail = Null THEN links ELSE [links EXCEPT ![tail] = s[1]]
      /\ list' = IF tail = Null THEN s[1] ELSE list
      /\ tail' = s[l] /\ size' = size + l /\ got' = got
  BY Zenon DEF Link
<1>4. Elements(q) \cap Elements(s) = {} /\ \A k \in Consumers : Elements(b[k]) \cap Elements(s) = {}
  BY <1>3 DEF Layout
<1>5. /\ n = 0 => tail = Null
      /\ n # 0 => tail = q[n] /\ tail \in Elements(q) /\ tail \in Msgs /\ tail # Null
  BY <1>1, QueueAssumption DEF Layout
<1>6. \A m \in Msgs : m \notin Elements(s) /\ m # tail => next'[m] = next[m]
  BY <1>3, <1>5, Zenon
<1>7. /\ \A m \in Elements(s) : m \in Msgs /\ m # tail
      /\ \A m \in Elements(s) : next'[m] = links[m]
  <2>1. \A m \in Elements(s) : m \in Msgs
    BY DEF Elements
  <2>2. \A m \in Elements(s) : m # tail
    BY <1>4, <1>5, <2>1, QueueAssumption
  <2> QED
    BY <1>3, <1>5, <2>1, <2>2, Zenon
<1> HIDE DEF z, n, l
<1>8. Once(z)
  <2> SUFFICES ASSUME NEW i \in 1..(n + l), NEW j \in 1..(n + l), z[i] = z[j]
               PROVE  i = j
    BY <1>2 DEF Once
  <2>1. CASE i \in 1..n /\ j \in 1..n
    BY <1>2, <2>1 DEF Layout, Once, n
  <2>2. CASE i \in (n + 1)..(n + l) /\ j \in (n + 1)..(n + l)
    <3>1. s[i - n] = s[j - n] /\ i - n \in 1..l /\ j - n \in 1..l
      BY <1>1, <1>2, <2>2
    <3>2. i - n = j - n
      BY <3>1 DEF Once, l
    <3> QED
      BY <1>1, <3>2
  <2>3. CASE i \in 1..n /\ j \in (n + 1)..(n + l)
    <3>1. j - n \in 1..l
      BY <1>1, <2>3
    <3> QED
      BY <1>1, <1>2, <1>4, <2>3, <3>1, Zenon
  <2>4. CASE j \in 1..n /\ i \in (n + 1)..(n + l)
    <3>1. i - n \in 1..l
      BY <1>1, <2>4
    <3> QED
      BY <1>1, <1>2, <1>4, <2>4, <3>1
  <2> QED
    BY <1>1, <2>1, <2>2, <2>3, <2>4
<1>9. IsChain(z, list', next')
  <2>1. list' = z[1]
    <3>1. CASE n = 0
      <4>1. 1 \in (n + 1)..(n + l) /\ 1 - n = 1
        BY <1>1, <3>1
      <4> QED
        BY <1>2, <1>3, <1>5, <3>1, <4>1
    <3>2. CASE n # 0
      <4>1. 1 \in 1..n /\ list' = list
        BY <1>1, <1>3, <1>5, <3>2
      <4> QED
        BY <1>1, <1>2, <3>2, <4>1, Zenon DEF Layout, IsChain, n
    <3> QED
      BY <3>1, <3>2, Zenon
  <2>2. ASSUME NEW i \in 1..(n + l)
        PROVE  next'[z[i]] = IF i = n + l THEN Null ELSE z[i + 1]
    <3>1. CASE i \in 1..n /\ i # n
      <4>1. /\ z[i] = q[i] /\ z[i + 1] = q[i + 1] /\ i # n + l
            /\ q[i] \notin Elements(s) /\ q[i] \in Msgs
        BY <1>1, <1>2, <1>4, <3>1
      <4>2. q[i] # tail
        <5>1. n # 0 /\ n \in 1..n /\ i # n
          BY <1>1, <3>1
        <5> QED
          BY <1>5, <3>1, <5>1, Zenon DEF Layout, Once, n
      <4>3. next[q[i]] = q[i + 1]
        BY <3>1, Zenon DEF Layout, IsChain, n
      <4> QED
        BY <1>6, <4>1, <4>2, <4>3, Zenon
    <3>2. CASE i = n
      <4>1. n # 0 /\ z[i] = tail /\ z[i + 1] = s[1] /\ i # n + l
        <5>1. n # 0 /\ n \in 1..n /\ n + 1 \in (n + 1)..(n + l) /\ (n + 1) - n = 1
          BY <1>1, <3>2
        <5> QED
          BY <1>1, <1>2, <1>5, <3>2, <5>1
      <4> QED
        BY <1>3, <1>5, <4>1, Zenon
    <3>3. CASE i \in (n + 1)..(n + l)
      <4>1. z[i] = s[i - n] /\ i - n \in 1..l /\ (i = n + l <=> i - n = l)
        BY <1>1, <1>2, <3>3
      <4>2. i # n + l => z[i + 1] = s[(i - n) + 1]
        <5>1. i # n + l => i + 1 \in (n + 1)..(n + l) /\ (i + 1) - n = (i - n) + 1
          BY <1>1, <3>3
        <5> QED
          BY <1>2, <5>1
      <4>3. links[s[i - n]] = IF i - n = l THEN Null ELSE s[(i - n) + 1]
        BY <4>1, Zenon DEF IsChain, l
      <4> QED
        BY <1>1, <1>7, <4>1, <4>2, <4>3
    <3> QED
      BY <1>1, <3>1, <3>2, <3>3
  <2>3. Len(z) # 0
    BY <1>1, <1>2
  <2> QED
    BY <1>2, <2>1, <2>2, <2>3, Zenon DEF IsChain
<1>10. Len(z) = size' /\ tail' = IF size' = 0 THEN Null ELSE z[size']
  <2>1. n + l \in (n + 1)..(n + l) /\ (n + l) - n = l /\ n + l # 0 /\ size' = n + l
    BY <1>1, <1>3
  <2> QED
    BY <1>2, <1>3, <2>1, Zenon
<1>11. Elements(z) \cap free' = {}
  BY <1>2, <1>3, Zenon DEF Layout
<1>12. ASSUME NEW k \in Consumers
       PROVE  /\ Once(b[k]) /\ IsChain(b[k], got'[k], next')
              /\ Elements(b[k]) \cap free' = {}
              /\ Elements(b[k]) \cap Elements(z) = {}
              /\ pc'[k] = "busy" <=> b[k] # <<>>
              /\ \A j \in Consumers : j # k => Elements(b[j]) \cap Elements(b[k]) = {}
  <2>1. b[k] \in Seq(Msgs) /\ IsChain(b[k], got[k], next)
    BY Zenon DEF Layout
  <2>2. \A m \in Elements(b[k]) : m \in Msgs /\ m # tail /\ m \notin Elements(s)
    <3>1. \A m \in Elements(b[k]) : m \in Msgs
      BY <2>1 DEF Elements
    <3> QED
      BY <1>4, <1>5, <3>1, QueueAssumption, Zenon DEF Layout
  <2>3. IsChain(b[k], got'[k], next')
    BY <1>3, <1>6, <2>1, <2>2, ChainKept, Zenon
  <2>4. pc'[k] = "busy" <=> pc[k] = "busy"
    BY Zenon DEF Link, Signal, Waiting, TypeOK
  <2> QED
    BY <1>2, <1>3, <1>4, <2>3, <2>4, Zenon DEF Layout
<1>13. /\ next' \in [Msgs -> Msgs \cup {Null}] /\ free' \subseteq Msgs
       /\ got' \in [Consumers -> Msgs \cup {Null}]
  <2>1. s[1] \in Msgs
    BY <1>1
  <2> QED
    BY <1>3, <2>1 DEF TypeOK
<1> QED
  BY <1>2, <1>8, <1>9, <1>10, <1>11, <1>12, <1>13, Zenon DEF Layout, z

(* The first n of a list and the others. *)
LEMMA SplitList ==
    ASSUME NEW q \in Seq(Msgs), Once(q), NEW n \in 1..Len(q)
    PROVE  LET t == SubSeq(q, 1, n)
               r == SubSeq(q, n + 1, Len(q))
           IN  /\ t \in Seq(Msgs) /\ Len(t) = n /\ t # <<>>
               /\ \A i \in 1..n : t[i] = q[i]
               /\ r \in Seq(Msgs) /\ Len(r) = Len(q) - n
               /\ \A i \in 1..(Len(q) - n) : r[i] = q[i + n]
               /\ Once(t) /\ Once(r)
               /\ Elements(t) \subseteq Elements(q) /\ Elements(r) \subseteq Elements(q)
               /\ Elements(t) \cap Elements(r) = {}
<1> DEFINE t == SubSeq(q, 1, n)
           r == SubSeq(q, n + 1, Len(q))
<1>1. /\ Len(q) \in Nat /\ n \in Nat /\ 1 <= n /\ n <= Len(q)
      /\ t \in Seq(Msgs) /\ Len(t) = n
      /\ \A i \in 1..n : t[i] = q[i]
  OBVIOUS
<1>2. r \in Seq(Msgs) /\ Len(r) = Len(q) - n
  BY <1>1
<1>3. \A i \in 1..(Len(q) - n) : r[i] = q[i + n]
  BY <1>1
<1>4. DOMAIN q = 1..Len(q) /\ DOMAIN t = 1..n /\ DOMAIN r = 1..(Len(q) - n) /\ t # <<>>
  BY <1>1, <1>2
<1> HIDE DEF t, r
<1>5. Once(t)
  <2>1. \A i \in 1..n : i \in 1..Len(q)
    BY <1>1
  <2> QED
    BY <1>1, <2>1 DEF Once
<1>6. \A i \in 1..(Len(q) - n) : i + n \in 1..Len(q) /\ ~(i + n \in 1..n)
  BY <1>1
<1>7. Once(r)
  <2> SUFFICES ASSUME NEW i \in 1..(Len(q) - n), NEW j \in 1..(Len(q) - n), r[i] = r[j]
               PROVE  i = j
    BY <1>2 DEF Once
  <2>1. i + n = j + n
    BY <1>3, <1>6 DEF Once
  <2> QED
    BY <1>1, <2>1
<1>8. Elements(t) \subseteq Elements(q) /\ Elements(r) \subseteq Elements(q)
  <2>1. \A i \in 1..n : i \in 1..Len(q)
    BY <1>1
  <2> QED
    BY <1>1, <1>3, <1>4, <1>6, <2>1, Zenon DEF Elements
<1>9. Elements(t) \cap Elements(r) = {}
  <2> SUFFICES ASSUME NEW i \in 1..n, NEW j \in 1..(Len(q) - n), t[i] = r[j]
               PROVE  FALSE
    BY <1>4 DEF Elements
  <2>1. i \in 1..Len(q) /\ q[i] = q[j + n]
    BY <1>1, <1>3
  <2> QED
    BY <1>6, <2>1, Zenon DEF Once
<1> QED
  BY <1>1, <1>2, <1>3, <1>4, <1>5, <1>7, <1>8, <1>9, Zenon DEF t, r

(* get: consumer k takes the first n messages. *)
LEMMA TakeKeepsLayout ==
    ASSUME TypeOK, NEW q, NEW b, Layout(q, b), NEW k \in Consumers, pc[k] # "busy",
           NEW n \in 1..Len(q),
           next' = [next EXCEPT ![q[n]] = Null],
           list' = IF n = Len(q) THEN Null ELSE q[n + 1],
           tail' = IF n = Len(q) THEN Null ELSE tail,
           size' = size - n, free' = free,
           got' = [got EXCEPT ![k] = list],
           pc' = [pc EXCEPT ![k] = "busy"]
    PROVE  /\ b[k] = <<>>
           /\ Layout(SubSeq(q, n + 1, Len(q)), [b EXCEPT ![k] = SubSeq(q, 1, n)])'
<1> DEFINE t == SubSeq(q, 1, n)
           r == SubSeq(q, n + 1, Len(q))
           c == [b EXCEPT ![k] = t]
<1>1. /\ q \in Seq(Msgs) /\ Once(q) /\ Len(q) \in Nat /\ n \in Nat /\ 1 <= n /\ n <= Len(q)
      /\ \A i \in 1..Len(q) : q[i] \in Msgs
      /\ size = Len(q) /\ b \in [Consumers -> Seq(Msgs)]
  BY DEF Layout
<1>2. /\ t \in Seq(Msgs) /\ Len(t) = n /\ t # <<>>
      /\ \A i \in 1..n : t[i] = q[i]
      /\ r \in Seq(Msgs) /\ Len(r) = Len(q) - n
      /\ \A i \in 1..(Len(q) - n) : r[i] = q[i + n]
      /\ Once(t) /\ Once(r)
      /\ Elements(t) \subseteq Elements(q) /\ Elements(r) \subseteq Elements(q)
      /\ Elements(t) \cap Elements(r) = {}
  BY <1>1, SplitList, Zenon
<1>3. b[k] = <<>>
  BY Zenon DEF Layout
<1>4. /\ list = q[1]
      /\ \A i \in 1..Len(q) : next[q[i]] = IF i = Len(q) THEN Null ELSE q[i + 1]
      /\ \A i \in 1..Len(q) : i # n => q[i] # q[n]
      /\ \A i \in 1..Len(q) : q[i] \in Elements(q)
  <2>1. IsChain(q, list, next) /\ Len(q) # 0
    BY <1>1 DEF Layout
  <2>2. \A i \in 1..Len(q) : i # n => q[i] # q[n]
    BY <1>1, Zenon DEF Once
  <2>3. \A i \in 1..Len(q) : q[i] \in Elements(q)
    <3>1. DOMAIN q = 1..Len(q)
      BY <1>1
    <3> QED
      BY <3>1, Zenon DEF Elements
  <2> QED
    BY <2>1, <2>2, <2>3, Zenon DEF IsChain
<1>5. \A m \in Msgs : next'[m] = IF m = q[n] THEN Null ELSE next[m]
  BY Zenon DEF TypeOK
<1> HIDE DEF t, r
<1>6. IsChain(t, list, next')
  <2>1. ASSUME NEW i \in 1..n
        PROVE  next'[t[i]] = IF i = n THEN Null ELSE t[i + 1]
    <3>1. i \in 1..Len(q) /\ (i # n => i # Len(q) /\ i + 1 \in 1..n)
      BY <1>1
    <3> QED
      BY <1>1, <1>2, <1>4, <1>5, <3>1
  <2>2. list = t[1] /\ n # 0
    BY <1>1, <1>2, <1>4
  <2> QED
    BY <1>2, <2>1, <2>2, Zenon DEF IsChain
<1>7. IsChain(r, list', next')
  <2>1. ASSUME NEW i \in 1..(Len(q) - n)
        PROVE  next'[r[i]] = IF i = Len(q) - n THEN Null ELSE r[i + 1]
    <3>1. /\ i + n \in 1..Len(q) /\ i + n # n /\ (i + n = Len(q) <=> i = Len(q) - n)
          /\ i # Len(q) - n => i + 1 \in 1..(Len(q) - n) /\ (i + 1) + n = (i + n) + 1
      BY <1>1
    <3> QED
      BY <1>1, <1>2, <1>4, <1>5, <3>1
  <2>2. list' = IF Len(q) - n = 0 THEN Null ELSE r[1]
    <3>1. (n = Len(q) <=> Len(q) - n = 0) /\ (n # Len(q) => 1 \in 1..(Len(q) - n) /\ 1 + n = n + 1)
      BY <1>1
    <3> QED
      BY <1>2, <3>1, Zenon
  <2> QED
    BY <1>2, <2>1, <2>2, Zenon DEF IsChain
<1>8. Len(r) = size' /\ tail' = IF size' = 0 THEN Null ELSE r[size']
  <2>1. size' = Len(q) - n /\ (size' = 0 <=> n = Len(q))
    BY <1>1
  <2>2. n # Len(q) => tail = q[Len(q)] /\ size' \in 1..(Len(q) - n) /\ size' + n = Len(q)
    <3>1. tail = IF size = 0 THEN Null ELSE q[size]
      BY Zenon DEF Layout
    <3>2. n # Len(q) => size' \in 1..(Len(q) - n) /\ size' + n = Len(q) /\ size # 0
      BY <1>1, <2>1
    <3> QED
      BY <1>1, <3>1, <3>2, Zenon
  <2>3. n # Len(q) => r[size'] = q[Len(q)]
    BY <1>2, <2>2, Zenon
  <2> QED
    BY <1>2, <2>1, <2>2, <2>3, Zenon
<1>9. Elements(r) \cap free' = {}
  BY <1>2, Zenon DEF Layout
<1>10. /\ c \in [Consumers -> Seq(Msgs)] /\ c[k] = t
       /\ \A j \in Consumers : j # k => c[j] = b[j]
  <2>1. c = [j \in Consumers |-> IF j = k THEN t ELSE b[j]]
    BY <1>1, Zenon
  <2> QED
    BY <1>1, <1>2, <2>1, Zenon
<1> HIDE DEF c
<1>11. \A j \in Consumers : j # k => Elements(b[j]) \cap Elements(q) = {}
  BY Zenon DEF Layout
<1>12. ASSUME NEW j \in Consumers
       PROVE  /\ Once(c[j]) /\ IsChain(c[j], got'[j], next')
              /\ Elements(c[j]) \cap free' = {}
              /\ Elements(c[j]) \cap Elements(r) = {}
              /\ pc'[j] = "busy" <=> c[j] # <<>>
              /\ \A i \in Consumers : i # j => Elements(c[i]) \cap Elements(c[j]) = {}
  <2>1. CASE j = k
    <3>1. got'[j] = list /\ pc'[j] = "busy"
      BY <2>1, Zenon DEF TypeOK
    <3>2. Elements(t) \cap free' = {}
      BY <1>2, Zenon DEF Layout
    <3>3. \A i \in Consumers : i # j => Elements(c[i]) \cap Elements(c[j]) = {}
      BY <1>2, <1>10, <1>11, <2>1, Zenon
    <3> QED
      BY <1>2, <1>6, <1>10, <2>1, <3>1, <3>2, <3>3, Zenon
  <2>2. CASE j # k
    <3>1. got'[j] = got[j] /\ pc'[j] = pc[j] /\ c[j] = b[j]
      BY <1>10, <2>2, Zenon DEF TypeOK
    <3>2. b[j] \in Seq(Msgs) /\ IsChain(b[j], got[j], next)
      BY Zenon DEF Layout
    <3>3. \A m \in Elements(b[j]) : next'[m] = next[m]
      <4>1. \A m \in Elements(b[j]) : m \in Msgs
        BY <3>2 DEF Elements
      <4>2. q[n] \in Elements(q)
        BY <1>4, Zenon
      <4> QED
        BY <1>5, <1>11, <2>2, <4>1, <4>2, Zenon
    <3>4. IsChain(b[j], got[j], next')
      BY <3>2, <3>3, ChainKept, Zenon
    <3>5. \A i \in Consumers : i # j => Elements(c[i]) \cap Elements(c[j]) = {}
      <4> TAKE i \in Consumers
      <4>1. CASE i = k
        BY <1>2, <1>10, <1>11, <2>2, <3>1, <4>1, Zenon
      <4>2. CASE i # k
        BY <1>10, <3>1, <4>2, Zenon DEF Layout
      <4> QED
        BY <4>1, <4>2, Zenon
    <3>6. Elements(b[j]) \cap Elements(r) = {}
      BY <1>2, <1>11, <2>2, Zenon
    <3> QED
      BY <3>1, <3>4, <3>5, <3>6, Zenon DEF Layout
  <2> QED
    BY <2>1, <2>2, Zenon
<1>13. /\ next' \in [Msgs -> Msgs \cup {Null}] /\ free' \subseteq Msgs
       /\ got' \in [Consumers -> Msgs \cup {Null}]
  BY Zenon DEF TypeOK
<1> QED
  BY <1>2, <1>3, <1>7, <1>8, <1>9, <1>10, <1>12, <1>13, Zenon DEF Layout, r, c, t

(* The consumer is done: its messages are free again. *)
LEMMA ProcessKeepsLayout ==
    ASSUME TypeOK, NEW q, NEW b, Layout(q, b), NEW k \in Consumers, Process(k)
    PROVE  b[k] # <<>> /\ Layout(q, [b EXCEPT ![k] = <<>>])'
<1> DEFINE c == [b EXCEPT ![k] = <<>>]
<1>1. /\ pc[k] = "busy" /\ got' = [got EXCEPT ![k] = Null] /\ pc' = [pc EXCEPT ![k] = "ready"]
      /\ UNCHANGED <<next, list, tail, size>>
      /\ free' = free \cup Elements(b[k])
  <2>1. Chain(got[k], next) = b[k]
    BY ChainIs DEF Layout
  <2> QED
    BY <2>1, Zenon DEF Process
<1>2. b[k] # <<>>
  BY <1>1, Zenon DEF Layout
<1>3. <<>> \in Seq(Msgs) /\ Len(<<>>) = 0 /\ Elements(<<>>) = {}
  BY DEF Elements
<1>4. /\ c \in [Consumers -> Seq(Msgs)] /\ c[k] = <<>>
      /\ \A j \in Consumers : j # k => c[j] = b[j]
  <2>1. b \in [Consumers -> Seq(Msgs)]
    BY Zenon DEF Layout
  <2>2. c = [j \in Consumers |-> IF j = k THEN <<>> ELSE b[j]]
    BY <2>1, Zenon
  <2> QED
    BY <1>3, <2>1, <2>2
<1> HIDE DEF c
<1>5. ASSUME NEW j \in Consumers
      PROVE  /\ Once(c[j]) /\ IsChain(c[j], got'[j], next')
             /\ Elements(c[j]) \cap free' = {}
             /\ Elements(c[j]) \cap Elements(q) = {}
             /\ pc'[j] = "busy" <=> c[j] # <<>>
             /\ \A i \in Consumers : i # j => Elements(c[i]) \cap Elements(c[j]) = {}
  <2>1. CASE j = k
    <3>1. got'[j] = Null /\ pc'[j] = "ready"
      BY <1>1, <2>1 DEF TypeOK
    <3>2. Once(<<>>) /\ IsChain(<<>>, Null, next')
      BY <1>3 DEF Once, IsChain
    <3> QED
      BY <1>3, <1>4, <2>1, <3>1, <3>2, Zenon
  <2>2. CASE j # k
    <3>1. got'[j] = got[j] /\ pc'[j] = pc[j] /\ c[j] = b[j] /\ next' = next
      BY <1>1, <1>4, <2>2, Zenon DEF TypeOK
    <3>2. \A i \in Consumers : i # j => Elements(c[i]) \cap Elements(c[j]) = {}
      BY <1>3, <1>4, <3>1, Zenon DEF Layout
    <3>3. Elements(b[j]) \cap free' = {}
      BY <1>1, <2>2, Zenon DEF Layout
    <3> QED
      BY <3>1, <3>2, <3>3, Zenon DEF Layout
  <2> QED
    BY <2>1, <2>2, Zenon
<1>6. Elements(q) \cap free' = {}
  BY <1>1, Zenon DEF Layout
<1>7. /\ next' \in [Msgs -> Msgs \cup {Null}] /\ free' \subseteq Msgs
      /\ got' \in [Consumers -> Msgs \cup {Null}]
  <2>1. Elements(b[k]) \subseteq Msgs
    BY DEF Layout, Elements
  <2> QED
    BY <1>1, <2>1, Zenon DEF TypeOK
<1> QED
  BY <1>1, <1>2, <1>4, <1>5, <1>6, <1>7, Zenon DEF Layout, c

(* Waiting and waking move no message. *)
LEMMA IdleKeepsLayout ==
    ASSUME NEW q, NEW b, Layout(q, b), UNCHANGED <<next, list, tail, size, free, got>>,
           \A k \in Consumers : pc'[k] = "busy" <=> pc[k] = "busy"
    PROVE  Layout(q, b)'
  BY Zenon DEF Layout

(* What a step does to the queue q and to the batches b. *)
Appends(q, b, r, c) ==
    /\ c = b
    /\ \E s \in Seq(Msgs) :
          /\ s # <<>> /\ Once(s) /\ r = q \o s
          /\ Elements(s) \cap Elements(q) = {}
          /\ \A k \in Consumers : Elements(s) \cap Elements(b[k]) = {}
Takes(q, b, r, c) ==
    \E k \in Consumers :
        /\ b[k] = <<>>
        /\ \E n \in 1..Len(q) :
              /\ r = SubSeq(q, n + 1, Len(q))
              /\ c = [b EXCEPT ![k] = SubSeq(q, 1, n)]
Finishes(q, b, r, c) ==
    /\ r = q
    /\ \E k \in Consumers : b[k] # <<>> /\ c = [b EXCEPT ![k] = <<>>]

QueueStep(q, b, r, c) ==
    Appends(q, b, r, c) \/ Takes(q, b, r, c) \/ Finishes(q, b, r, c) \/ (r = q /\ c = b)

(* A list of free messages is appended. *)
LEMMA LinkAppends ==
    ASSUME TypeOK, NEW q, NEW b, Layout(q, b), NEW s \in Seq(Msgs), s # <<>>, Once(s),
           NEW links, links \in [Msgs -> Msgs \cup {Null}], IsChain(s, s[1], links),
           \A m \in Msgs : m \notin Elements(s) => links[m] = next[m],
           Link(s, links)
    PROVE  \E r, c : Layout(r, c)' /\ QueueStep(q, b, r, c)
<1>1. Layout(q \o s, b)'
  BY LinkKeepsLayout, Zenon
<1>2. Elements(s) \subseteq free
  BY Zenon DEF Link
<1>3. Appends(q, b, q \o s, b)
  <2>1. /\ Elements(s) \cap Elements(q) = {}
        /\ \A k \in Consumers : Elements(s) \cap Elements(b[k]) = {}
    BY <1>2, Zenon DEF Layout
  <2> QED
    BY <2>1, Zenon DEF Appends
<1> QED
  BY <1>1, <1>3, Zenon DEF QueueStep

LEMMA PutAppends ==
    ASSUME TypeOK, NEW q, NEW b, Layout(q, b), NEW m \in Msgs, Put(m)
    PROVE  \E r, c : Layout(r, c)' /\ QueueStep(q, b, r, c)
<1> DEFINE links == [next EXCEPT ![m] = Null]
<1>1. /\ <<m>> \in Seq(Msgs) /\ <<m>> # <<>> /\ Len(<<m>>) = 1 /\ <<m>>[1] = m
      /\ \A i \in 1..1 : i = 1
      /\ Elements(<<m>>) = {m}
  BY DEF Elements
<1>2. /\ links \in [Msgs -> Msgs \cup {Null}] /\ links[m] = Null
      /\ \A x \in Msgs : x \notin {m} => links[x] = next[x]
  BY DEF TypeOK
<1>3. Link(<<m>>, links)
  BY DEF Put
<1> HIDE DEF links
<1>4. Once(<<m>>) /\ IsChain(<<m>>, <<m>>[1], links)
  BY <1>1, <1>2 DEF Once, IsChain
<1> QED
  BY <1>1, <1>2, <1>3, <1>4, LinkAppends, Zenon

LEMMA PutListAppends ==
    ASSUME TypeOK, NEW q, NEW b, Layout(q, b), use.lists \in Nat,
           NEW s \in Lists(2..use.lists), PutList(s)
    PROVE  \E r, c : Layout(r, c)' /\ QueueStep(q, b, r, c)
<1> DEFINE pos(m) == CHOOSE i \in DOMAIN s : s[i] = m
           links == [m \in Msgs |->
                       IF m \in Elements(s)
                       THEN IF pos(m) = Len(s) THEN Null ELSE s[pos(m) + 1]
                       ELSE next[m]]
<1>1. s \in Seq(Msgs) /\ Len(s) \in Nat /\ Len(s) >= 2
  <2>1. PICK n \in 2..use.lists : s \in [1..n -> Msgs]
    BY DEF Lists
  <2> QED
    BY <2>1
<1>2. DOMAIN s = 1..Len(s) /\ s # <<>> /\ \A i \in 1..Len(s) : s[i] \in Msgs /\ s[i] \in Elements(s)
  BY <1>1 DEF Elements
<1>3. Once(s)
  BY <1>2 DEF PutList, Once
<1>4. Link(s, links)
  BY DEF PutList
<1>5. \A i \in 1..Len(s) : pos(s[i]) = i
  BY <1>2, <1>3 DEF Once
<1> HIDE DEF pos
<1>6. \A i \in 1..Len(s) : links[s[i]] = IF i = Len(s) THEN Null ELSE s[i + 1]
  BY <1>2, <1>5, Zenon
<1>7. links \in [Msgs -> Msgs \cup {Null}]
  <2> SUFFICES ASSUME NEW m \in Msgs
               PROVE  links[m] \in Msgs \cup {Null}
    OBVIOUS
  <2>1. CASE m \in Elements(s)
    <3>1. PICK i \in 1..Len(s) : m = s[i]
      BY <1>2, <2>1, Zenon DEF Elements
    <3>2. i # Len(s) => i + 1 \in 1..Len(s)
      BY <1>1
    <3> HIDE DEF links
    <3> QED
      BY <1>2, <1>6, <3>1, <3>2, Zenon
  <2>2. CASE m \notin Elements(s)
    BY <2>2 DEF TypeOK
  <2> QED
    BY <2>1, <2>2, Zenon
<1>8. \A m \in Msgs : m \notin Elements(s) => links[m] = next[m]
  OBVIOUS
<1> HIDE DEF links
<1>9. IsChain(s, s[1], links)
  BY <1>1, <1>6 DEF IsChain
<1> QED
  BY <1>1, <1>2, <1>3, <1>4, <1>7, <1>8, <1>9, LinkAppends, Zenon

LEMMA GetAllTakes ==
    ASSUME TypeOK, NEW q, NEW b, Layout(q, b), NEW k \in Consumers, GetAll(k)
    PROVE  \E r, c : Layout(r, c)' /\ QueueStep(q, b, r, c)
<1> DEFINE n == Len(q)
<1>1. q \in Seq(Msgs) /\ n \in 1..n /\ n = size /\ n \in Nat /\ IsChain(q, list, next)
  BY DEF Layout, GetAll, TypeOK
<1>2. q[n] \in Msgs /\ next[q[n]] = Null
  BY <1>1 DEF IsChain
<1>3. next' = [next EXCEPT ![q[n]] = Null]
  <2>1. next' = next /\ next \in [Msgs -> Msgs \cup {Null}]
    BY DEF GetAll, TypeOK
  <2> QED
    BY <1>2, <2>1
<1>4. /\ pc[k] # "busy" /\ list' = Null /\ tail' = Null /\ size' = size - n /\ free' = free
      /\ got' = [got EXCEPT ![k] = list] /\ pc' = [pc EXCEPT ![k] = "busy"]
  BY <1>1 DEF GetAll
<1>5. /\ b[k] = <<>>
      /\ Layout(SubSeq(q, n + 1, Len(q)), [b EXCEPT ![k] = SubSeq(q, 1, n)])'
  <2>1. /\ list' = IF n = Len(q) THEN Null ELSE q[n + 1]
        /\ tail' = IF n = Len(q) THEN Null ELSE tail
    BY <1>4, Zenon
  <2>2. n \in 1..Len(q)
    BY <1>1
  <2> HIDE DEF n
  <2> QED
    BY <1>3, <1>4, <2>1, <2>2, TakeKeepsLayout, Zenon
<1>6. Takes(q, b, SubSeq(q, n + 1, Len(q)), [b EXCEPT ![k] = SubSeq(q, 1, n)])
  BY <1>1, <1>5, Zenon DEF Takes
<1> QED
  BY <1>5, <1>6 DEF QueueStep

LEMMA GetSomeTakes ==
    ASSUME TypeOK, NEW q, NEW b, Layout(q, b), NEW k \in Consumers, GetSome(k),
           use.count \in Nat \ {0}
    PROVE  \E r, c : Layout(r, c)' /\ QueueStep(q, b, r, c)
<1>1. PICK n \in Nat \ {0} : n = use.count
  OBVIOUS
<1>2. q \in Seq(Msgs) /\ Len(q) \in Nat /\ Len(q) = size /\ n < Len(q) /\ IsChain(q, list, next)
  BY <1>1 DEF Layout, GetSome
<1>3. PICK p \in [1..n -> Msgs] :
          /\ FirstCount(p)
          /\ list' = next[p[n]]
          /\ next' = [next EXCEPT ![p[n]] = Null]
  BY <1>1, Zenon DEF GetSome
<1>4. /\ p \in Seq(Msgs) /\ Len(p) = n /\ p[1] = list
      /\ \A i \in 1..(Len(p) - 1) : next[p[i]] = p[i + 1]
  BY <1>1, <1>3 DEF FirstCount
<1>5. \A i \in 1..n : p[i] = q[i]
  BY <1>2, <1>4, SamePath, Zenon
<1>6. p[n] = q[n] /\ n \in 1..Len(q) /\ n # Len(q) /\ next[q[n]] = q[n + 1]
  BY <1>2, <1>5 DEF IsChain
<1>7. /\ pc[k] # "busy" /\ tail' = tail /\ size' = size - n /\ free' = free
      /\ got' = [got EXCEPT ![k] = list] /\ pc' = [pc EXCEPT ![k] = "busy"]
  BY <1>1, Zenon DEF GetSome
<1>8. /\ b[k] = <<>>
      /\ Layout(SubSeq(q, n + 1, Len(q)), [b EXCEPT ![k] = SubSeq(q, 1, n)])'
  <2>1. /\ list' = IF n = Len(q) THEN Null ELSE q[n + 1]
        /\ tail' = IF n = Len(q) THEN Null ELSE tail
        /\ next' = [next EXCEPT ![q[n]] = Null]
    BY <1>3, <1>6, <1>7, Zenon
  <2> QED
    BY <1>6, <1>7, <2>1, TakeKeepsLayout, Zenon
<1>9. Takes(q, b, SubSeq(q, n + 1, Len(q)), [b EXCEPT ![k] = SubSeq(q, 1, n)])
  BY <1>6, <1>8, Zenon DEF Takes
<1> QED
  BY <1>8, <1>9, Zenon DEF QueueStep

-----------------------------------------------------------------------------
(* Linked and Fifo hold because the lists stay laid out like this.         *)
QueueInv == Covered /\ \E q, b : Layout(q, b)

(* The variables of a queue laid out like this have their types. *)
LEMMA LayoutTypes ==
    ASSUME Covered, NEW q, NEW b, Layout(q, b)
    PROVE  TypeOK
<1>1. q \in Seq(Msgs) /\ Len(q) \in Nat /\ Len(q) = size /\ IsChain(q, list, next)
  BY DEF Layout
<1>2. list \in Msgs \cup {Null}
  BY <1>1 DEF IsChain
<1>3. tail \in Msgs \cup {Null}
  <2>1. tail = IF size = 0 THEN Null ELSE q[size]
    BY Zenon DEF Layout
  <2> QED
    BY <1>1, <2>1
<1> QED
  BY <1>2, <1>3, Zenon DEF Layout, Covered, TypeOK

(* Every step keeps the layout, and is a step of a queue. *)
LEMMA LayoutKept ==
    ASSUME Covered, NEW q, NEW b, Layout(q, b), [Next]_vars
    PROVE  \E r, c : Layout(r, c)' /\ QueueStep(q, b, r, c)
<1>types. /\ TypeOK
          /\ use.consumers \subseteq Consumers
          /\ use.lists \in Nat /\ use.count \in Nat \ {0}
  BY LayoutTypes, QueueAssumption, Zenon DEF Covered
<1>put. ASSUME NEW m \in Msgs, Put(m)
        PROVE  \E r, c : Layout(r, c)' /\ QueueStep(q, b, r, c)
  BY <1>types, <1>put, PutAppends, Zenon
<1>putList. ASSUME NEW s \in Lists(2..use.lists), PutList(s)
            PROVE  \E r, c : Layout(r, c)' /\ QueueStep(q, b, r, c)
  BY <1>types, <1>putList, PutListAppends, Zenon
<1>idle. ASSUME \/ \E k \in use.consumers : Wait(k) \/ WakeUp(k)
                \/ UNCHANGED vars
         PROVE  \E r, c : Layout(r, c)' /\ QueueStep(q, b, r, c)
  <2>1. UNCHANGED <<next, list, tail, size, free, got>>
    BY <1>idle, Zenon DEF Wait, WakeUp, vars
  <2>2. \A j \in Consumers : pc'[j] = "busy" <=> pc[j] = "busy"
    BY <1>types, <1>idle, Zenon DEF Wait, WakeUp, vars, TypeOK
  <2>3. Layout(q, b)'
    BY <2>1, <2>2, IdleKeepsLayout, Zenon
  <2> QED
    BY <2>3, Zenon DEF QueueStep
<1>getSome. ASSUME NEW k \in use.consumers, GetSome(k)
            PROVE  \E r, c : Layout(r, c)' /\ QueueStep(q, b, r, c)
  BY <1>types, <1>getSome, GetSomeTakes, Zenon
<1>getAll. ASSUME NEW k \in use.consumers, GetAll(k)
           PROVE  \E r, c : Layout(r, c)' /\ QueueStep(q, b, r, c)
  BY <1>types, <1>getAll, GetAllTakes, Zenon
<1>process. ASSUME NEW k \in use.consumers, Process(k)
            PROVE  \E r, c : Layout(r, c)' /\ QueueStep(q, b, r, c)
  <2>1. b[k] # <<>> /\ Layout(q, [b EXCEPT ![k] = <<>>])'
    BY <1>types, <1>process, ProcessKeepsLayout, Zenon
  <2>2. Finishes(q, b, q, [b EXCEPT ![k] = <<>>])
    BY <1>types, <2>1, Zenon DEF Finishes
  <2> QED
    BY <2>1, <2>2, Zenon DEF QueueStep
<1> QED
  BY <1>put, <1>putList, <1>idle, <1>getSome, <1>getAll, <1>process, Zenon DEF Next

(* The empty queue. *)
LEMMA InitialLayout ==
    ASSUME Init
    PROVE  /\ Covered
           /\ Layout(<<>>, [k \in Consumers |-> <<>>])
<1>1. Covered
  BY Zenon DEF Init, Covered, WaitersCovered, Waiting
<1>2. <<>> \in Seq(Msgs) /\ Len(<<>>) = 0 /\ Elements(<<>>) = {}
  BY DEF Elements
<1>3. Once(<<>>) /\ IsChain(<<>>, Null, next)
  BY <1>2 DEF Once, IsChain
<1> QED
  BY <1>1, <1>2, <1>3, Zenon DEF Init, Layout

LEMMA QueueKept ==
    /\ Init => QueueInv
    /\ QueueInv /\ [Next]_vars => QueueInv'
<1>1. Init => QueueInv
  BY InitialLayout DEF QueueInv
<1>2. ASSUME QueueInv, [Next]_vars
      PROVE  QueueInv'
  <2>1. PICK q, b : Layout(q, b)
    BY <1>2 DEF QueueInv
  <2>2. Covered'
    BY <1>2, CoverKept DEF QueueInv
  <2>3. \E r, c : Layout(r, c)'
    BY <1>2, <2>1, LayoutKept, Zenon DEF QueueInv
  <2> QED
    BY <2>2, <2>3 DEF QueueInv
<1> QED
  BY <1>1, <1>2

-----------------------------------------------------------------------------
(* _list, _tail, _list_size and the _next of the messages describe one     *)
(* list of messages nobody else holds, and nobody sleeps over one, through *)
(* every interleaving of put, putList, get(count), get() and what the      *)
(* consumers do with the messages.                                         *)
THEOREM QueueStaysSound == Spec => []QueueSound
<1>sound. QueueInv => QueueSound
  <2> SUFFICES ASSUME QueueInv
               PROVE  QueueSound
    OBVIOUS
  <2>1. PICK q, b : Layout(q, b)
    BY DEF QueueInv
  <2>2. TypeOK /\ WaitersCovered
    BY <2>1, LayoutTypes DEF QueueInv, Covered
  <2>3. q \in [1..size -> Msgs]
    BY <2>1 DEF Layout
  <2>4. Linked
    BY <2>1, <2>3, Zenon DEF Linked, Layout, Once
  <2> QED
    BY <2>2, <2>4, Zenon DEF QueueSound
<1> QED
  BY <1>sound, QueueKept, PTL DEF Spec

(* A step of the queue q with the batches b is one of the specification    *)
(* of a queue.                                                             *)
LEMMA QueueStepIsFifo ==
    ASSUME NEW q, NEW b, Layout(q, b), NEW r, NEW c, Layout(r, c)', QueueStep(q, b, r, c)
    PROVE  [Queue!FifoNext]_(Queue!fifoVars)
<1>read. /\ Chain(list, next) = q /\ Chain(list, next)' = r
         /\ [k \in Consumers |-> Chain(got[k], next)] = b
         /\ [k \in Consumers |-> Chain(got[k], next)]' = c
  BY LayoutRead, LayoutReadNext
<1>types. q \in Seq(Msgs) /\ Len(q) \in Nat /\ b \in [Consumers -> Seq(Msgs)]
  BY DEF Layout
<1>appends. ASSUME Appends(q, b, r, c)
            PROVE  Queue!Enqueue
  <2>1. PICK s \in Seq(Msgs) :
            /\ s # <<>> /\ Once(s) /\ r = q \o s
            /\ Elements(s) \cap Elements(q) = {}
            /\ \A k \in Consumers : Elements(s) \cap Elements(b[k]) = {}
    BY <1>appends, Zenon DEF Appends
  <2>2. SubSeq(r, Len(q) + 1, Len(r)) = s
    <3>1. /\ r \in Seq(Msgs) /\ Len(r) = Len(q) + Len(s) /\ Len(s) \in Nat
          /\ \A i \in (Len(q) + 1)..(Len(q) + Len(s)) : r[i] = s[i - Len(q)]
      BY <1>types, <2>1, ConcatLists
    <3>2. SubSeq(r, Len(q) + 1, Len(r)) = [i \in 1..Len(s) |-> r[i + Len(q)]]
      BY <1>types, <3>1
    <3>3. \A i \in 1..Len(s) :
              i + Len(q) \in (Len(q) + 1)..(Len(q) + Len(s)) /\ (i + Len(q)) - Len(q) = i
      BY <1>types, <3>1
    <3>4. SubSeq(r, Len(q) + 1, Len(r)) = [i \in 1..Len(s) |-> s[i]]
      BY <3>1, <3>2, <3>3, Zenon
    <3>5. s = [i \in 1..Len(s) |-> s[i]]
      OBVIOUS
    <3> QED
      BY <3>4, <3>5, Zenon
  <2>3. \A t \in {q} \cup {b[k] : k \in Consumers} : Queue!Elements(s) \cap Queue!Elements(t) = {}
    BY <2>1, Zenon DEF Queue!Elements, Elements
  <2>4. Queue!Elements(s) \subseteq Msgs /\ \A i, j \in DOMAIN s : s[i] = s[j] => i = j
    BY <2>1 DEF Queue!Elements, Once
  <2>5. c = b
    BY <1>appends, Zenon DEF Appends
  <2> QED
    BY <1>read, <2>1, <2>2, <2>3, <2>4, <2>5, Zenon DEF Queue!Enqueue
<1>takes. ASSUME Takes(q, b, r, c)
          PROVE  \E k \in Consumers : Queue!Dequeue(k)
  BY <1>read, <1>takes, Zenon DEF Queue!Dequeue, Takes
<1>finishes. ASSUME Finishes(q, b, r, c)
             PROVE  \E k \in Consumers : Queue!Finish(k)
  BY <1>read, <1>finishes, Zenon DEF Queue!Finish, Finishes
<1> QED
  BY <1>read, <1>appends, <1>takes, <1>finishes, Zenon DEF QueueStep, Queue!FifoNext, Queue!fifoVars

(* The linked list gives out its messages in the order they were put in,   *)
(* each to one consumer: it implements FifoQueue.                          *)
THEOREM QueueIsFifo == Spec => Fifo
<1>init. Init => Queue!FifoInit
  <2> SUFFICES ASSUME Init
               PROVE  Queue!FifoInit
    OBVIOUS
  <2>1. Layout(<<>>, [k \in Consumers |-> <<>>])
    BY InitialLayout
  <2> QED
    BY <2>1, LayoutRead, Zenon DEF Queue!FifoInit
<1>step. QueueInv /\ [Next]_vars => [Queue!FifoNext]_(Queue!fifoVars)
  <2> SUFFICES ASSUME QueueInv, [Next]_vars
               PROVE  [Queue!FifoNext]_(Queue!fifoVars)
    OBVIOUS
  <2>1. PICK q, b : Layout(q, b)
    BY DEF QueueInv
  <2>2. PICK r, c : Layout(r, c)' /\ QueueStep(q, b, r, c)
    BY <2>1, LayoutKept DEF QueueInv
  <2> QED
    BY <2>1, <2>2, QueueStepIsFifo
<1> QED
  BY <1>init, <1>step, QueueKept, PTL DEF Spec, Fifo, Queue!FifoSpec
=============================================================================
