------------------------------ MODULE Dispatch ------------------------------
(***************************************************************************)
(* The dispatcher of inbound objects, MTProto.process (src/mtproto.go).    *)
(*                                                                         *)
(* process() walks a decoded TL object and performs, in order, a series    *)
(* of side effects: replace the server salt and save the session, resend   *)
(* every pending packet, complete a pending packet (clearPacketData),      *)
(* drop acknowledged fire-and-forget packets, push a pong or an ack onto   *)
(* the internal send queue, or hand the object to the event handler.       *)
(* Process(msgId, seqNo, data, mayPass) is the sequence of those effects,  *)
(* in the order process() performs them; the client module (MTProto)       *)
(* executes them one by one, because some of them block (a push onto a    *)
(* full channel) or wait for the mutex.                                    *)
(*                                                                         *)
(* Inbound objects are records with a tag naming their TL constructor.     *)
(* A container item is a record [msgId, seqNo, data].                      *)
(***************************************************************************)
EXTENDS Integers, Sequences, SequencesExt

RECURSIVE Process(_, _, _, _)

\* The effects process() can perform, one record per kind of call.
SetSalt(s)      == [op |-> "setSalt", salt |-> s]     \* session.ServerSalt = s; SaveSessionLogged()
Resend          == [op |-> "resend"]                  \* resendPendingPackets()
Clear(id, v)    == [op |-> "clear", id |-> id, val |-> v] \* clearPacketData(id, v)
DropAcked(ids)  == [op |-> "acks", ids |-> ids]       \* the TL_msgs_ack branch
Push(kind, ref) == [op |-> "push", kind |-> kind, ref |-> ref] \* m.sendQueue <- newPacket(.., nil)
Event(obj)      == [op |-> "event", obj |-> obj]      \* go m.handleEvent(obj)

\* The switch on the type of the object in process(msgId, seqNo, dataTL,
\* mayPassToHandler); resultOps stands for what the TL_rpc_result case does.
ProcessBranch(msgId, data, mayPassToHandler, resultOps) ==
  CASE data.tag = "msg_container" ->
         FoldLeft(LAMBDA acc, v : acc \o Process(v.msgId, v.seqNo, v.data, TRUE),
                  <<>>, data.items)
    [] data.tag = "bad_server_salt"      -> <<SetSalt(data.salt), Resend>>
    [] data.tag = "bad_msg_notification" -> <<Clear(data.bad, data)>>
    [] data.tag = "msgs_state_info"      -> <<Clear(data.req, data)>>
    [] data.tag = "new_session_created"  -> <<SetSalt(data.salt)>>
    [] data.tag = "ping"                 -> <<Push("pong", msgId)>>
    [] data.tag = "pong"                 -> <<>>
    [] data.tag = "msgs_ack"             -> <<DropAcked(data.ids)>>
    [] data.tag = "rpc_result"           -> resultOps
    [] OTHER -> IF mayPassToHandler THEN <<Event(data)>> ELSE <<>>

\* "should acknowledge odd ids": the msgs_ack pushed after the switch.
AckOdd(msgId, seqNo) == IF seqNo % 2 = 1 THEN <<Push("ack", msgId)>> ELSE <<>>

\* Mutants of Process, each a plausible slip in process(): the object of an
\* rpc_result dispatched with the outer seqNo (acknowledged twice) or with
\* mayPassToHandler TRUE (a result also reaches the event handler), the
\* pong naming the ping_id instead of the ping's msg id, the completion
\* carrying the whole rpc_result instead of its object, and an rpc_error
\* result handed to the event handler instead of its waiter.
ProcessNoZeroSeq(msgId, seqNo, data, mayPassToHandler) ==
  ProcessBranch(msgId, data, mayPassToHandler,
                Process(msgId, seqNo, data.obj, FALSE) \o <<Clear(data.req, data.obj)>>)
  \o AckOdd(msgId, seqNo)
ProcessPassInner(msgId, seqNo, data, mayPassToHandler) ==
  ProcessBranch(msgId, data, mayPassToHandler,
                Process(msgId, 0, data.obj, TRUE) \o <<Clear(data.req, data.obj)>>)
  \o AckOdd(msgId, seqNo)
ProcessWholeResult(msgId, seqNo, data, mayPassToHandler) ==
  ProcessBranch(msgId, data, mayPassToHandler,
                Process(msgId, 0, data.obj, FALSE) \o <<Clear(data.req, data)>>)
  \o AckOdd(msgId, seqNo)
ProcessErrorAsEvent(msgId, seqNo, data, mayPassToHandler) ==
  ProcessBranch(msgId, data, mayPassToHandler,
                IF data.obj.tag = "rpc_error" THEN <<Event(data.obj)>>
                ELSE Process(msgId, 0, data.obj, FALSE) \o <<Clear(data.req, data.obj)>>)
  \o AckOdd(msgId, seqNo)

\* process(): an rpc_result dispatches its object with seqNo 0 and
\* mayPassToHandler FALSE, then completes the request it answers.
Process(msgId, seqNo, data, mayPassToHandler) ==
  ProcessBranch(msgId, data, mayPassToHandler,
                Process(msgId, 0, data.obj, FALSE) \o <<Clear(data.req, data.obj)>>)
  \o AckOdd(msgId, seqNo)

=============================================================================
