------------------------------ MODULE MessageRpc ------------------------------
(***************************************************************************)
(* The call by which a message leaves the server: MessageBroker::dispatch  *)
(* (thrift/broker/message_broker.cpp) calls Message.dispatch through the   *)
(* proxy (message_proxy.h, three attempts), the generated client           *)
(* (thrift/gen/Message.cpp) and the structures of thrift/gen/ms_types.cpp; *)
(* the generated processor calls the handler, which queues the message.    *)
(* The callers share one connection of the pool, one at a time.  The       *)
(* sequence number of every call is 0, and nothing in a reply says which   *)
(* call it answers.                                                        *)
(*                                                                         *)
(* A structure is a record of its set fields; on the wire it is a sequence *)
(* of fields [id, type, val].  A connection keeps what was written to it   *)
(* until it is read, also after the client has closed it.                  *)
(***************************************************************************)
EXTENDS Integers, Sequences, FiniteSets, SequencesExt

CONSTANTS Caller,      \* threads that dispatch, one message each
          Body,        \* of a caller: its message, 0 when it is empty
          Attempts,    \* 3 in INVOKE_AND_RETURN_WITHIN_3_ATTEMPTS
          MaxFaults    \* bound on broken connections and failing handlers

VARIABLES
  conns,     \* connections in the order they were opened; the last is in use
  owner,     \* the caller who has the client, or None
  state,     \* of a caller: "start", "send", "wait", "done"
  left,      \* of a caller: attempts left
  result,    \* of a caller: "dispatched" (dispatch returned 0), "failed" (-1)
  got,       \* of a caller: the code of the response it was given, or NoCode
  queued,    \* messages the handler has given to the workers, in order
  faults

vars == <<conns, owner, state, left, result, got, queued, faults>>

None == "none"
NoCode == -1

(***************************************************************************)
(* ms_types.cpp, Message.cpp: structures.                                  *)
(***************************************************************************)
FieldOf(id, type, val) == [id |-> id, type |-> type, val |-> val]

\* The fields of a struct that is read: those with a known number and the
\* type that goes with it; the last one wins, the others are skipped.
ReadStruct(types, fields) ==
  LET Known(f) == f.id \in DOMAIN types /\ types[f.id] = f.type
      kept == SelectSeq(fields, Known)
      ids == {kept[k].id : k \in DOMAIN kept}
      LastOf(i) == CHOOSE k \in DOMAIN kept :
                     /\ kept[k].id = i
                     /\ \A j \in DOMAIN kept : kept[j].id = i => j <= k
  IN  [i \in ids |-> kept[LastOf(i)].val]

\* MessageRequest: msh_id, msg_id, msg
MessageRequest_read(fields) ==
  ReadStruct(<<"I64", "STRING", "STRING">>, fields)

MessageRequest_write(r) ==
  <<FieldOf(1, "I64", r.msh_id), FieldOf(2, "STRING", r.msg_id),
    FieldOf(3, "STRING", r.msg)>>

\* MessageResponse: code, msg
MessageResponse_read(fields) == ReadStruct(<<"I32", "STRING">>, fields)

MessageResponse_write(code) == <<FieldOf(1, "I32", code)>>

\* Message_dispatch_args, Message_dispatch_pargs: the request, number 1
Message_dispatch_pargs_write(r) ==
  <<FieldOf(1, "STRUCT", MessageRequest_write(r))>>

Message_dispatch_args_read(fields) ==
  LET s == ReadStruct(<<"STRUCT">>, fields)
  IN  IF 1 \in DOMAIN s THEN MessageRequest_read(s[1]) ELSE <<>>

\* Message_dispatch_result, Message_dispatch_presult: the answer, number 0
Message_dispatch_result_write(code) ==
  <<FieldOf(0, "STRUCT", MessageResponse_write(code))>>

Message_dispatch_presult_read(fields) ==
  LET s == ReadStruct([i \in {0} |-> "STRUCT"], fields)
  IN  IF 0 \in DOMAIN s
      THEN [success |-> TRUE, code |-> MessageResponse_read(s[0])[1]]
      ELSE [success |-> FALSE, code |-> 0]

(***************************************************************************)
(* The client: dispatch of MessageBroker, the proxy, the pooled client.    *)
(***************************************************************************)
Opened == [in |-> <<>>, out |-> <<>>, open |-> TRUE, up |-> TRUE]

cur == Len(conns)

Init ==
  /\ conns = <<Opened>> /\ owner = None /\ queued = <<>> /\ faults = 0
  /\ state = [c \in Caller |-> "start"]
  /\ left = [c \in Caller |-> Attempts]
  /\ result = [c \in Caller |-> None]
  /\ got = [c \in Caller |-> NoCode]

\* What dispatch of MessageBroker makes of a response, and of an exception
\* that leaves the proxy: a refused message counts as dispatched.
Return(c, code) ==
  /\ state' = [state EXCEPT ![c] = "done"]
  /\ result' = [result EXCEPT ![c] = IF code = NoCode THEN "failed"
                                                        ELSE "dispatched"]
  /\ got' = [got EXCEPT ![c] = code]

\* An attempt has failed, and n are left.
Retry(c, n) ==
  IF n = 0 THEN Return(c, NoCode)
  ELSE /\ state' = [state EXCEPT ![c] = "start"]
       /\ UNCHANGED <<result, got>>

\* Mutant of Acquire: an attempt does not count.
AcquireUncounted(c) ==
  /\ state[c] = "start"
  /\ IF owner = None
     THEN owner' = c /\ state' = [state EXCEPT ![c] = "send"] /\ UNCHANGED <<result, got>>
     ELSE UNCHANGED owner /\ Retry(c, left[c])
  /\ UNCHANGED <<conns, left, queued, faults>>

\* acquire_thrift_client; the pool has one client.  While another caller has it
\* there is none: the answer is NULL at once, and the attempt is used up.
Acquire(c) ==
  /\ state[c] = "start"
  /\ left' = [left EXCEPT ![c] = @ - 1]
  /\ IF owner = None
     THEN owner' = c /\ state' = [state EXCEPT ![c] = "send"] /\ UNCHANGED <<result, got>>
     ELSE UNCHANGED owner /\ Retry(c, left[c] - 1)
  /\ UNCHANGED <<conns, queued, faults>>

Request(c) == [msh_id |-> 1, msg_id |-> c, msg |-> Body[c]]

send_dispatch(c) ==
  /\ state[c] = "send"
  /\ conns' = [conns EXCEPT ![cur].in =
                 Append(@, [name |-> "dispatch", type |-> "CALL",
                            args |-> Message_dispatch_pargs_write(Request(c))])]
  /\ state' = [state EXCEPT ![c] = "wait"]
  /\ UNCHANGED <<owner, left, result, got, queued, faults>>

\* recv_dispatch with a reply there.  A reply with the result returns it; an
\* exception of the peer leaves the connection open (CONN_OK).
recv_dispatch(c) ==
  /\ state[c] = "wait" /\ conns[cur].out # <<>>
  /\ LET reply == Head(conns[cur].out)
         r == Message_dispatch_presult_read(reply.args)
     IN  IF reply.type = "REPLY" /\ r.success
         THEN Return(c, r.code)
         ELSE Retry(c, left[c])
  /\ conns' = [conns EXCEPT ![cur].out = Tail(@)]
  /\ owner' = None
  /\ UNCHANGED <<left, queued, faults>>

\* Mutant of Reconnect: the connection is kept.
ReconnectKeepsOpen(s) == s

\* CONN_RECONNECT: close_service, open_service
Reconnect(s) == Append([s EXCEPT ![Len(s)].open = FALSE], Opened)

\* TIMED_OUT: the reply is not there yet
Timeout(c) ==
  /\ state[c] = "wait" /\ conns[cur].out = <<>>
  /\ conns' = Reconnect(conns)
  /\ owner' = None
  /\ Retry(c, left[c])
  /\ UNCHANGED <<left, queued, faults>>

\* the connection broke: sending or reading throws
Broken(c) ==
  /\ state[c] \in {"send", "wait"} /\ ~conns[cur].up
  /\ conns' = Reconnect(conns)
  /\ owner' = None
  /\ Retry(c, left[c])
  /\ UNCHANGED <<left, queued, faults>>

(***************************************************************************)
(* The server: dispatchCall, process_dispatch, the handler.                *)
(***************************************************************************)
OK == 1
ERROR == 2

\* MessageHandler::dispatch: the message it queues, and the code
Handle(request) ==
  IF 3 \in DOMAIN request /\ request[3] # 0
  THEN [queue |-> <<[id |-> request[2], msg |-> request[3]]>>, code |-> OK]
  ELSE [queue |-> <<>>, code |-> ERROR]

Reply(k, type, args) ==
  [conns EXCEPT ![k].in = Tail(@),
                ![k].out = IF conns[k].open /\ conns[k].up
                           THEN Append(@, [name |-> "dispatch", type |-> type,
                                           args |-> args])
                           ELSE @]

\* A call that arrived is read and answered whether or not its client is
\* still there.
process_dispatch(k) ==
  /\ conns[k].in # <<>>
  /\ LET h == Handle(Message_dispatch_args_read(Head(conns[k].in).args))
     IN  /\ queued' = queued \o h.queue
         /\ conns' = Reply(k, "REPLY", Message_dispatch_result_write(h.code))
  /\ UNCHANGED <<owner, state, left, result, got, faults>>

\* The processor answers with an exception: the handler threw, or
\* dispatchCall does not know the name.
process_fails(k) ==
  /\ conns[k].in # <<>> /\ faults < MaxFaults
  /\ faults' = faults + 1
  /\ conns' = Reply(k, "EXCEPTION", <<>>)
  /\ UNCHANGED <<owner, state, left, result, got, queued>>

\* The network: the connection breaks; what was on its way is lost or not.
Break ==
  /\ faults < MaxFaults /\ conns[cur].up
  /\ faults' = faults + 1
  /\ \E lost \in BOOLEAN :
       conns' = [conns EXCEPT ![cur].up = FALSE, ![cur].out = <<>>,
                              ![cur].in = IF lost THEN <<>> ELSE @]
  /\ UNCHANGED <<owner, state, left, result, got, queued>>

Step(c) == \/ Acquire(c) \/ send_dispatch(c) \/ recv_dispatch(c)
           \/ Timeout(c) \/ Broken(c)

Next ==
  \/ \E c \in Caller : Step(c)
  \/ \E k \in DOMAIN conns : process_dispatch(k) \/ process_fails(k)
  \/ Break

Spec == /\ Init /\ [][Next]_vars
        /\ \A c \in Caller : WF_vars(Step(c))

(***************************************************************************)
(* Properties.                                                             *)
(***************************************************************************)
Times(c) == Cardinality({i \in DOMAIN queued : queued[i].id = c})

\* The code a caller is given is the one for its own message, whatever calls
\* of others were given up on the connection before, and OK is given only for
\* a message that is with the workers, byte for byte.
AnswerIsMine ==
  \A c \in Caller : got[c] # NoCode =>
    /\ got[c] = IF Body[c] = 0 THEN ERROR ELSE OK
    /\ got[c] = OK => \E i \in DOMAIN queued :
                        queued[i] = [id |-> c, msg |-> Body[c]]

\* A message is queued at most once for every attempt begun: a retry after a
\* time-out may queue a message twice, a message that was answered never again.
AtMostAttempts ==
  \A c \in Caller : /\ Times(c) <= Attempts - left[c]
                    /\ result[c] = "dispatched" /\ left[c] = Attempts - 1 => Times(c) <= 1

=============================================================================
