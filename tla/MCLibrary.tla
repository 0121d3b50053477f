----------------------------- MODULE MCLibrary ------------------------------
(***************************************************************************)
(* Small instances of the classes that the server's threads use as a       *)
(* library.  The rigid variable scene says which one a behaviour is about; *)
(* the others stay as they are.                                            *)
(*   blocking  MsMessageBlockQueue, as the workers and as the router use it*)
(*   priority  MsMessagePriorityQueue, two app workers                     *)
(*   util      the queues of framework/lib                                 *)
(*   strings   string_algorithms, all pairs of strings                     *)
(*   ini       IniFileReader, all files of a few lines                     *)
(*   packs     the generated message classes, two ImPack objects           *)
(***************************************************************************)
EXTENDS ProtoMessage, MsMessageBlockQueue

CONSTANTS m1, m2, m3, m4, k1, k2, k3, Scenes

VARIABLES
    scene,
    pNext, pHead, pTail, pSize, pTotal, pFree, pLost, pPc, pGot, pOrder,
    kind, lists, puts, uPc, call, uGot, order,
    s, t,
    lines, section_name, section_count, ini_kv_map, ini_kv_status_map, exited,
    a, b, ops

Four == {m1, m2, m3, m4}
ThreeConsumers == {k1, k2, k3}

\* Workers that take single messages, and a router that takes all.
TwoUses == {[consumers |-> ThreeConsumers, count |-> 1, lists |-> 1],
            [consumers |-> {k1}, count |-> 4, lists |-> 3]}

Pri == INSTANCE MsMessagePriorityQueue WITH
    Msgs <- {m1, m2, m3, m4}, Consumers <- {k1, k2}, PriorityNum <- 2,
    next <- pNext, head <- pHead, tail <- pTail, size <- pSize, total <- pTotal,
    free <- pFree, lost <- pLost, pc <- pPc, got <- pGot, order <- pOrder

\* Two values in one list are more than its one node.
Util == INSTANCE UtilQueues WITH
    Consumers <- {k1, k2}, PriorityNum <- 2, NodeCount <- 1, Want <- 2, MaxPuts <- 3,
    pc <- uPc, got <- uGot

Str == INSTANCE StringInputs WITH
    Letters <- {"a", "b"}, Delims <- {<<"a", "b">>, <<"a", "a">>}, MaxLen <- 3

\* One section has the name under which the value of a key of another is kept.
Ini == INSTANCE IniFileReader WITH
    Names <- {<<"s">>, <<"t">>, <<"k", "@", "s">>}, Keys <- {<<>>, <<"k">>, <<"l">>},
    Values <- {<<>>, <<"v">>}, MaxLines <- 4

\* What arrives: fields out of order, twice, packed, of the wrong wire type, with an
\* unknown number or enum value, cut off, behind an end tag.
D(n, f) == Nested(n, WireSize(f), f)
V(n, v) == Token(n, "varint", v)
B(n, len) == Token(n, "delimited", len)
InMsg(f) == <<D(2, <<D(3, f)>>)>>

Streams ==
  { InMsg(<<V(1, 7), Token(6, "fixed32", 1), V(2, 3)>>),
    InMsg(<<[B(3, 3) EXCEPT !.ints = <<5, 300>>], V(3, 4)>>),
    InMsg(<<V(4, 9), V(4, 2), V(12, 1)>>),
    InMsg(<<B(8, 200), V(8, 1), [B(11, 3) EXCEPT !.full = FALSE]>>),
    InMsg(<<V(7, 5), Token(1, "end", 0), V(2, 6)>>),
    <<V(1, 8), V(3, 4), V(1, 2)>>,
    <<D(2, <<D(5, <<V(1, 1), B(2, 2)>>), V(9, 1)>>), V(3, 0)>>,
    <<D(2, <<D(5, <<V(1, 6)>>)>>), D(2, <<D(5, <<B(2, 4)>>), D(1, <<>>)>>)>> }

\* A number of two bytes, a string whose length takes two.
Pack == INSTANCE PackObjects WITH Numbers <- {300}, Lengths <- {130}, MaxOps <- 3

priVars  == <<pNext, pHead, pTail, pSize, pTotal, pFree, pLost, pPc, pGot, pOrder>>
utilVars == <<kind, lists, puts, uPc, call, uGot, order>>
iniVars  == <<lines, section_name, section_count, ini_kv_map, ini_kv_status_map, exited>>
packVars == <<a, b, ops>>
mcVars   == <<scene, vars, priVars, utilVars, s, t, iniVars, packVars>>

MCInit ==
  /\ scene \in Scenes
  /\ Init /\ (scene # "blocking" => use.lists = 1)
  /\ Pri!Init /\ Util!Init /\ Str!Init /\ Ini!Init /\ Pack!Init
  /\ scene # "util" => kind = "block"

InBlock(A) == scene = "blocking" /\ A
              /\ UNCHANGED <<scene, priVars, utilVars, s, t, iniVars, packVars>>
InPri(A)   == scene = "priority" /\ A
              /\ UNCHANGED <<scene, vars, utilVars, s, t, iniVars, packVars>>
InUtil(A)  == scene = "util" /\ A
              /\ UNCHANGED <<scene, vars, priVars, s, t, iniVars, packVars>>

MCNext ==
  \/ scene = "blocking" /\ Next
     /\ UNCHANGED <<scene, priVars, utilVars, s, t, iniVars, packVars>>
  \/ scene = "priority" /\ Pri!Next
     /\ UNCHANGED <<scene, vars, utilVars, s, t, iniVars, packVars>>
  \/ scene = "util" /\ Util!Next
     /\ UNCHANGED <<scene, vars, priVars, s, t, iniVars, packVars>>
  \/ scene = "strings" /\ Str!Next
     /\ UNCHANGED <<scene, vars, priVars, utilVars, iniVars, packVars>>
  \/ scene = "ini" /\ Ini!Next
     /\ UNCHANGED <<scene, vars, priVars, utilVars, s, t, packVars>>
  \/ scene = "packs" /\ Pack!Next
     /\ UNCHANGED <<scene, vars, priVars, utilVars, s, t, iniVars>>

\* A thread that can take the mutex or work on gets to run.
MCFairness ==
  /\ \A k \in ThreeConsumers :
       /\ WF_mcVars(InBlock(Wait(k)))
       /\ WF_mcVars(InBlock(GetSome(k) \/ GetAll(k)))
       /\ WF_mcVars(InBlock(Process(k)))
  /\ \A k \in {k1, k2} :
       /\ WF_mcVars(InPri(Pri!Wait(k)))
       /\ WF_mcVars(InPri(Pri!Get(k)))
       /\ WF_mcVars(InPri(Pri!Process(k)))
       /\ WF_mcVars(InUtil(Util!Get(k)))

MCSpec == MCInit /\ [][MCNext]_mcVars /\ MCFairness

\* A worker gets the oldest message of the highest priority, get and getM of the
\* library's queues return the values in sequence, and what is first in its turn, or
\* in a BlockQueue, is eventually taken.
ServedInSequence ==
    Pri!HighestFirst /\ Pri!TopServed /\ Util!InSequence /\ Util!BlockServes

\* No worker sleeps over a message and no consumer of a library queue over a value,
\* unless one waits in PriorityQueue::getM.
NobodySleepsOver ==
    /\ scene = "priority" => Pri!SleepersCovered
    /\ scene = "util" => Util!NobodySleepsOver

\* The lists of the priority queue hold each message once and in order, and the nodes
\* of the library's queues are neither lost nor doubled.
ListsWhole ==
    /\ scene = "priority" => Pri!PriorityLists
    /\ scene = "util" => Util!NodesKept

\* The string functions against their reference definitions: Trim leaves the words, one
\* replacement between two of them; EditDistance is the cost of the cheapest way to set
\* the strings against each other, swaps behind the first characters included; LCSS is
\* the longest common subsequence; Split's fields join again.
StringsAsDefined ==
    scene = "strings" =>
       Str!TrimmedWords /\ Str!EditsCheapest /\ Str!LongestCommon /\ Str!SplitJoins

\* The reader answers what the file says: the last value of a key, all items of a
\* section in the order of the file, and how often a section or item is there.
FileAnswers ==
    scene = "ini" => Ini!LastItemWins /\ Ini!SectionListed /\ Ini!CountsExact

\* What an object writes another reads back as the same, in as many bytes as ByteSize
\* says; merging two objects is reading what one and then the other writes; and a field
\* that is not set has its default, so that an object can be used again.
PacksAgree ==
    scene = "packs" =>
       Pack!RoundTrip /\ Pack!SizeExact /\ Pack!MergeIsConcat /\ Pack!UnsetIsDefault

\* EditDistance counts a swap of neighbours as one operation, wherever it is
\* (string_algorithms.h:43).
SwapsCounted == scene = "strings" => Str!SwapsCounted
=============================================================================
