------------------------------ MODULE FifoQueue -----------------------------
(***************************************************************************)
(* What a message queue of the server promises: messages come out in the   *)
(* order they went in, each to one consumer, one or several at a time.     *)
(***************************************************************************)
EXTENDS Naturals, Sequences

CONSTANTS Msgs, Consumers

VARIABLES
    queue,  \* the messages in the queue
    batch   \* what every consumer has taken and not yet processed

fifoVars == <<queue, batch>>

Elements(s) == {s[i] : i \in DOMAIN s}

FifoInit ==
    /\ queue = <<>>
    /\ batch = [k \in Consumers |-> <<>>]

(* Messages that are nowhere in use are put in. *)
Enqueue ==
    LET new == SubSeq(queue', Len(queue) + 1, Len(queue'))
    IN  /\ queue' = queue \o new
        /\ new # <<>> /\ Elements(new) \subseteq Msgs
        /\ \A i, j \in DOMAIN new : new[i] = new[j] => i = j
        /\ \A s \in {queue} \cup {batch[k] : k \in Consumers} :
              Elements(new) \cap Elements(s) = {}
        /\ UNCHANGED batch

Dequeue(k) ==
    /\ batch[k] = <<>>
    /\ \E n \in 1..Len(queue) :
          /\ batch' = [batch EXCEPT ![k] = SubSeq(queue, 1, n)]
          /\ queue' = SubSeq(queue, n + 1, Len(queue))

Finish(k) ==
    /\ batch[k] # <<>>
    /\ batch' = [batch EXCEPT ![k] = <<>>]
    /\ UNCHANGED queue

FifoNext == Enqueue \/ \E k \in Consumers : Dequeue(k) \/ Finish(k)

FifoSpec == FifoInit /\ [][FifoNext]_fifoVars
=============================================================================
