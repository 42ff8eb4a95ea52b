------------------------------- MODULE MTProto -------------------------------
(***************************************************************************)
(* The request multiplexer of the MTProto client (src/mtproto.go): the     *)
(* external and internal send queues, the four worker goroutines          *)
(* (sendRoutine, readRoutine, queueTransferRoutine, pingRoutine), the      *)
(* pending table msgsByID and its mutex, the dispatcher run by the read    *)
(* worker, and reconnectLogged/reconnectToDc/Connect with the stop tokens, *)
(* the WaitGroup and the reconnect semaphore.  The server and the network  *)
(* are the environment: the server answers requests by msg id, rejects a   *)
(* stale salt with bad_server_salt, deduplicates by msg id, and the TCP    *)
(* connection may break.                                                   *)
(*                                                                         *)
(* A packetToSend is an index into pkts; its record keeps the fields that  *)
(* matter here: kind (what TL object it carries), msgID (0 until send()    *)
(* assigns one), resp ("nil": no channel, "open": a waiter, "done": value  *)
(* written and channel closed) and got (the value the waiter received).    *)
(***************************************************************************)
EXTENDS Integers, Sequences, SequencesExt, FiniteSets, TLC, Dispatch

CONSTANTS
  NumRequests,          \* calls of Send/SendSync made by the application
  ExtCap,               \* cap(extSendQueue), 64 in NewMTProtoExt
  IntCap,               \* cap(sendQueue), 1024 in NewMTProtoExt
  MaxPings,             \* ticks of pingRoutine's 60 s timer
  MaxFailures,          \* connections broken by the network
  MaxDialFailures,      \* failed dials in Connect
  MaxSrvEvents,         \* unsolicited server messages
  MaxRpcErrors,         \* requests the server answers with an rpc_error
  MaxSaltChanges,       \* rotations of the server salt
  MaxCallerReconnects,  \* calls of Reconnect() (or Auth's migration) by the application
  FailDuringReconnect   \* may the network fail while a reconnect runs?

ASSUME /\ ExtCap \in Nat \ {0} /\ IntCap \in Nat \ {0} /\ ExtCap <= IntCap
       /\ FailDuringReconnect \in BOOLEAN

ROUTINES_COUNT == 4

VARIABLES
  pkts,       \* the packetToSend objects created so far
  extQ,       \* m.extSendQueue
  sendQ,      \* m.sendQueue
  table,      \* m.msgsByID, as the set of packets it holds (keyed by msgID)
  mutex,      \* holder of m.mutex across a blocking section: "none", "read", or a reconnector
  stopQ,      \* tokens in m.routinesStop
  wg,         \* counter of m.routinesWG
  spawned,    \* `go m.reconnectLogged()` started, not yet at the semaphore
  sem,        \* m.reconnSemaphore is held
  sendW, readW, transW, pingW, \* program counters and locals of the workers
  recon,      \* per reconnector, its call of reconnectToDc: pc and locals
  conn,       \* m.conn: "up", "broken" (network failure) or "closed" (by us)
  salt,       \* m.session.ServerSalt
  savedSalt,  \* the salt in the session store
  lastMsgId,  \* the last message id generated
  toSrv,      \* client-to-server bytes in flight on the connection
  toCli,      \* server-to-client frames in flight on the connection
  srvSalt,    \* the salt the server accepts
  srvDone,    \* per request id executed: the answer and (ghost) the packet sent
  srvAck,     \* content ids the server received and has not acknowledged
  budget      \* counters of the bounded environment and caller events

srv    == <<srvSalt, srvDone, srvAck>>
client == <<pkts, extQ, sendQ, table, mutex, stopQ, wg, spawned, sem,
            sendW, readW, transW, pingW, recon, salt, savedSalt, lastMsgId>>
env    == <<conn, toSrv, toCli, srvSalt, srvDone, srvAck, budget>>
vars   == <<client, env>>

NoValue == [tag |-> "none"]
NewPacket(kind, hasResp) ==
  [kind |-> kind, msgID |-> 0,
   resp |-> IF hasResp THEN "open" ELSE "nil", got |-> NoValue]
NextPkt == Len(pkts) + 1

Idle(pc) == [pc |-> pc, x |-> 0]
NoRecon  == [pc |-> "idle", i |-> 0, pend |-> {}, buf |-> {}, cfg |-> 0]
Reconnectors == {"logged", "caller"}

-----------------------------------------------------------------------------
(* Caller: Send / SendSync put a new packet with a response channel on the *)
(* external queue, blocking while it is full.                              *)
Send ==
  /\ budget.req < NumRequests
  /\ Len(extQ) < ExtCap
  /\ pkts' = Append(pkts, NewPacket("req", TRUE))
  /\ extQ' = Append(extQ, NextPkt)
  /\ budget' = [budget EXCEPT !.req = @ + 1]
  /\ UNCHANGED <<sendQ, table, mutex, stopQ, wg, spawned, sem, sendW, readW,
                 transW, pingW, recon, salt, savedSalt, lastMsgId,
                 conn, toSrv, toCli, srvSalt, srvDone, srvAck>>

-----------------------------------------------------------------------------
(* queueTransferRoutine: while len(sendQueue) < cap(extSendQueue) it waits *)
(* for a stop token or an external packet; the length is tested before the *)
(* wait, so the internal queue may have grown when the packet arrives.     *)
(* Otherwise it polls the stop channel and sleeps 10 ms.                   *)
TransferCheck ==
  /\ transW.pc = "loop"
  /\ Len(sendQ) < ExtCap
  /\ transW' = Idle("select")
  /\ UNCHANGED <<pkts, extQ, sendQ, table, mutex, stopQ, wg, spawned, sem, sendW,
                 readW, pingW, recon, salt, savedSalt, lastMsgId, env>>

TransferStop ==
  /\ \/ transW.pc = "select"
     \/ transW.pc = "loop" /\ Len(sendQ) >= ExtCap
  /\ stopQ > 0
  /\ stopQ' = stopQ - 1
  /\ wg' = wg - 1
  /\ transW' = Idle("off")
  /\ UNCHANGED <<pkts, extQ, sendQ, table, mutex, spawned, sem, sendW, readW,
                 pingW, recon, salt, savedSalt, lastMsgId, env>>

TransferTake ==
  /\ transW.pc = "select"
  /\ extQ # <<>>
  /\ transW' = [pc |-> "push", x |-> Head(extQ)]
  /\ extQ' = Tail(extQ)
  /\ UNCHANGED <<pkts, sendQ, table, mutex, stopQ, wg, spawned, sem, sendW,
                 readW, pingW, recon, salt, savedSalt, lastMsgId, env>>

TransferPush ==
  /\ transW.pc = "push"
  /\ Len(sendQ) < IntCap
  /\ sendQ' = Append(sendQ, transW.x)
  /\ transW' = Idle("loop")
  /\ UNCHANGED <<pkts, extQ, table, mutex, stopQ, wg, spawned, sem, sendW,
                 readW, pingW, recon, salt, savedSalt, lastMsgId, env>>

-----------------------------------------------------------------------------
(* pingRoutine: on a stop token it exits; every 60 s it pushes a ping      *)
(* without a response channel onto the internal queue (blocking).          *)
PingStop ==
  /\ pingW = "loop"
  /\ stopQ > 0
  /\ stopQ' = stopQ - 1
  /\ wg' = wg - 1
  /\ pingW' = "off"
  /\ UNCHANGED <<pkts, extQ, sendQ, table, mutex, spawned, sem, sendW, readW,
                 transW, recon, salt, savedSalt, lastMsgId, env>>

PingTick ==
  /\ pingW = "loop"
  /\ budget.ping < MaxPings
  /\ pingW' = "push"
  /\ budget' = [budget EXCEPT !.ping = @ + 1]
  /\ UNCHANGED <<pkts, extQ, sendQ, table, mutex, stopQ, wg, spawned, sem, sendW,
                 readW, transW, recon, salt, savedSalt, lastMsgId,
                 conn, toSrv, toCli, srvSalt, srvDone, srvAck>>

PingPush ==
  /\ pingW = "push"
  /\ Len(sendQ) < IntCap
  /\ pkts' = Append(pkts, NewPacket("ping", FALSE))
  /\ sendQ' = Append(sendQ, NextPkt)
  /\ pingW' = "loop"
  /\ UNCHANGED <<extQ, table, mutex, stopQ, wg, spawned, sem, sendW, readW,
                 transW, recon, salt, savedSalt, lastMsgId, env>>

-----------------------------------------------------------------------------
(* sendRoutine: a Go select between a stop token and the internal queue   *)
(* (either may be chosen when both are ready), then send(x).  send()       *)
(* (outside src/, modelled from the spec) keeps the msg id of a packet     *)
(* that already has one, otherwise takes a new, larger one; records the    *)
(* packet in msgsByID under the mutex; then writes it with the current     *)
(* salt.  A write on a connection we closed fails with a closed-connection *)
(* error and the loop continues; on a broken connection the write either   *)
(* vanishes into the socket buffer or fails, and then the worker starts    *)
(* reconnectLogged and exits.                                              *)
SendStop ==
  /\ sendW.pc = "loop"
  /\ stopQ > 0
  /\ stopQ' = stopQ - 1
  /\ wg' = wg - 1
  /\ sendW' = Idle("off")
  /\ UNCHANGED <<pkts, extQ, sendQ, table, mutex, spawned, sem, readW, transW,
                 pingW, recon, salt, savedSalt, lastMsgId, env>>

SendTake ==
  /\ sendW.pc = "loop"
  /\ sendQ # <<>>
  /\ sendW' = [pc |-> "send", x |-> Head(sendQ)]
  /\ sendQ' = Tail(sendQ)
  /\ UNCHANGED <<pkts, extQ, table, mutex, stopQ, wg, spawned, sem, readW,
                 transW, pingW, recon, salt, savedSalt, lastMsgId, env>>

\* The id send() gives a packet: its own, or the next one.
MsgIdOf(x) == IF pkts[x].msgID = 0 THEN lastMsgId + 1 ELSE pkts[x].msgID

\* send(x) with the id it writes, the new value of the id counter, and
\* whether the packet is recorded in msgsByID also when the write fails.
SendPacketWith(id, newLastMsgId, recordOnError) ==
  LET x       == sendW.x
      wire    == [id |-> id, salt |-> salt, kind |-> pkts[x].kind, pkt |-> x] \* pkt: ghost
      Record(ok) == table' = IF ok \/ recordOnError THEN table \cup {x} ELSE table
  IN
  /\ sendW.pc = "send"
  /\ mutex = "none"
  /\ pkts' = [pkts EXCEPT ![x].msgID = id]
  /\ lastMsgId' = newLastMsgId
  /\ \/ /\ conn = "up"                       \* written
        /\ toSrv' = Append(toSrv, wire)
        /\ sendW' = Idle("loop")
        /\ Record(TRUE)
        /\ UNCHANGED <<wg, spawned>>
     \/ /\ conn = "broken"                   \* lost in the socket buffer
        /\ sendW' = Idle("loop")
        /\ Record(TRUE)
        /\ UNCHANGED <<toSrv, wg, spawned>>
     \/ /\ conn = "closed"                   \* IsClosedConnErr: keep looping
        /\ sendW' = Idle("loop")
        /\ Record(FALSE)
        /\ UNCHANGED <<toSrv, wg, spawned>>
     \/ /\ conn = "broken"                   \* write error: reconnect and exit
        /\ sendW' = Idle("off")
        /\ wg' = wg - 1
        /\ spawned' = spawned + 1
        /\ Record(FALSE)
        /\ UNCHANGED toSrv
  /\ UNCHANGED <<extQ, sendQ, mutex, stopQ, sem, readW, transW, pingW, recon,
                 salt, savedSalt, conn, toCli, srv, budget>>

\* Mutants of send(): the id counter not advanced; a new id for a packet
\* sent again; the packet recorded only once the write succeeded.
SendPacketNoBump == SendPacketWith(MsgIdOf(sendW.x), lastMsgId, TRUE)
SendPacketFreshId == SendPacketWith(lastMsgId + 1, lastMsgId + 1, TRUE)
SendPacketRecordAfterWrite ==
  SendPacketWith(MsgIdOf(sendW.x),
                 IF pkts[sendW.x].msgID = 0 THEN MsgIdOf(sendW.x) ELSE lastMsgId, FALSE)

SendPacket ==
  SendPacketWith(MsgIdOf(sendW.x),
                 IF pkts[sendW.x].msgID = 0 THEN MsgIdOf(sendW.x) ELSE lastMsgId, TRUE)

-----------------------------------------------------------------------------
(* readRoutine: polls the stop channel, then blocks in read().  A frame is *)
(* handed to process(); the effects Process lists are then carried out one *)
(* per step.  A closed connection makes it loop back to the stop check; a  *)
(* broken one makes it start reconnectLogged and exit.                     *)
ReadCheck ==
  /\ readW.pc = "loop"
  /\ \/ /\ stopQ > 0
        /\ stopQ' = stopQ - 1
        /\ wg' = wg - 1
        /\ readW' = [readW EXCEPT !.pc = "off"]
     \/ /\ stopQ = 0
        /\ readW' = [readW EXCEPT !.pc = "read"]
        /\ UNCHANGED <<stopQ, wg>>
  /\ UNCHANGED <<pkts, extQ, sendQ, table, mutex, spawned, sem, sendW, transW,
                 pingW, recon, salt, savedSalt, lastMsgId, env>>

ReadFrame ==
  LET f   == Head(toCli)
      ops == Process(f.msgId, f.seqNo, f.data, TRUE)
  IN
  /\ readW.pc = "read"
  /\ conn = "up"
  /\ toCli # <<>>
  /\ toCli' = Tail(toCli)
  /\ readW' = [pc |-> IF ops = <<>> THEN "loop" ELSE "proc", ops |-> ops, buf |-> {}]
  /\ UNCHANGED <<pkts, extQ, sendQ, table, mutex, stopQ, wg, spawned, sem, sendW,
                 transW, pingW, recon, salt, savedSalt, lastMsgId,
                 conn, toSrv, srv, budget>>

ReadError ==
  /\ readW.pc = "read"
  /\ \/ /\ conn = "closed"
        /\ readW' = [readW EXCEPT !.pc = "loop"]
        /\ UNCHANGED <<wg, spawned>>
     \/ /\ conn = "broken"
        /\ readW' = [readW EXCEPT !.pc = "off"]
        /\ wg' = wg - 1
        /\ spawned' = spawned + 1
  /\ UNCHANGED <<pkts, extQ, sendQ, table, mutex, stopQ, sem, sendW, transW,
                 pingW, recon, salt, savedSalt, lastMsgId, env>>

(* One effect of process(), the head of readW.ops.  Done moves to the next *)
(* effect, or back to the loop after the last one.                         *)
Op == Head(readW.ops)
Done == readW' = [readW EXCEPT !.ops = Tail(@),
                               !.pc = IF Len(readW.ops) = 1 THEN "loop" ELSE "proc"]
Held(id) == {q \in table : pkts[q].msgID = id}

\* TL_bad_server_salt / TL_new_session_created: replace the salt without the
\* mutex, then SaveSessionLogged().
\* Mutant: the session is saved with the new salt, but m.session.ServerSalt,
\* which send() writes with, keeps the old one.
ApplySetSaltKeepSalt ==
  /\ readW.pc = "proc" /\ Op.op = "setSalt"
  /\ savedSalt' = Op.salt
  /\ Done
  /\ UNCHANGED <<pkts, extQ, sendQ, table, mutex, stopQ, wg, spawned, sem, sendW,
                 transW, pingW, recon, salt, lastMsgId, env>>

ApplySetSalt ==
  /\ readW.pc = "proc" /\ Op.op = "setSalt"
  /\ salt' = Op.salt
  /\ savedSalt' = Op.salt
  /\ Done
  /\ UNCHANGED <<pkts, extQ, sendQ, table, mutex, stopQ, wg, spawned, sem, sendW,
                 transW, pingW, recon, lastMsgId, env>>

\* resendPendingPackets: lock, popPendingPacketsUnlocked (empty msgsByID), then
\* push every popped packet onto sendQueue, in map order, still holding the lock.
\* Mutant: after popping, the loop ranges over the emptied msgsByID instead
\* of the popped packets, so nothing is pushed.
ApplyResendLosePopped ==
  /\ readW.pc = "proc" /\ Op.op = "resend"
  /\ mutex = "none"
  /\ mutex' = "read"
  /\ readW' = [pc |-> "resend", ops |-> Tail(readW.ops), buf |-> {}]
  /\ table' = {}
  /\ UNCHANGED <<pkts, extQ, sendQ, stopQ, wg, spawned, sem, sendW, transW,
                 pingW, recon, salt, savedSalt, lastMsgId, env>>

ApplyResend ==
  /\ readW.pc = "proc" /\ Op.op = "resend"
  /\ mutex = "none"
  /\ mutex' = "read"
  /\ readW' = [pc |-> "resend", ops |-> Tail(readW.ops), buf |-> table]
  /\ table' = {}
  /\ UNCHANGED <<pkts, extQ, sendQ, stopQ, wg, spawned, sem, sendW, transW,
                 pingW, recon, salt, savedSalt, lastMsgId, env>>

ResendPush ==
  /\ readW.pc = "resend"
  /\ Len(sendQ) < IntCap
  /\ \E p \in readW.buf :
       /\ sendQ' = Append(sendQ, p)
       /\ readW' = [readW EXCEPT !.buf = @ \ {p}]
  /\ UNCHANGED <<pkts, extQ, table, mutex, stopQ, wg, spawned, sem, sendW, transW,
                 pingW, recon, salt, savedSalt, lastMsgId, env>>

ResendUnlock ==
  /\ readW.pc = "resend"
  /\ readW.buf = {}
  /\ mutex' = "none"
  /\ readW' = [readW EXCEPT !.pc = IF readW.ops = <<>> THEN "loop" ELSE "proc"]
  /\ UNCHANGED <<pkts, extQ, sendQ, table, stopQ, wg, spawned, sem, sendW, transW,
                 pingW, recon, salt, savedSalt, lastMsgId, env>>

\* clearPacketData: under the mutex, write the value to the waiter's channel
\* and close it (packet.resp = nil), or only warn when resp is already nil;
\* delete the packet from msgsByID in both cases.
ApplyClear ==
  /\ readW.pc = "proc" /\ Op.op = "clear"
  /\ mutex = "none"
  /\ table' = table \ Held(Op.id)
  /\ pkts' = [p \in DOMAIN pkts |->
                IF p \in Held(Op.id) /\ pkts[p].resp = "open"
                THEN [pkts[p] EXCEPT !.resp = "done", !.got = Op.val]
                ELSE pkts[p]]
  /\ Done
  /\ UNCHANGED <<extQ, sendQ, mutex, stopQ, wg, spawned, sem, sendW, transW,
                 pingW, recon, salt, savedSalt, lastMsgId, env>>

\* TL_msgs_ack: under the mutex, drop each acknowledged packet that has no
\* response channel (needAck, which nothing reads, is not modelled).
ApplyAcks ==
  /\ readW.pc = "proc" /\ Op.op = "acks"
  /\ mutex = "none"
  /\ table' = table \ {p \in table : pkts[p].msgID \in Op.ids /\ pkts[p].resp # "open"}
  /\ Done
  /\ UNCHANGED <<pkts, extQ, sendQ, mutex, stopQ, wg, spawned, sem, sendW, transW,
                 pingW, recon, salt, savedSalt, lastMsgId, env>>

\* m.sendQueue <- newPacket(TL_pong{..} or TL_msgs_ack{..}, nil), blocking.
ApplyPush ==
  /\ readW.pc = "proc" /\ Op.op = "push"
  /\ Len(sendQ) < IntCap
  /\ pkts' = Append(pkts, NewPacket(Op.kind, FALSE))
  /\ sendQ' = Append(sendQ, NextPkt)
  /\ Done
  /\ UNCHANGED <<extQ, table, mutex, stopQ, wg, spawned, sem, sendW, transW,
                 pingW, recon, salt, savedSalt, lastMsgId, env>>

\* go m.handleEvent(dataTL): the handler runs on its own goroutine.
ApplyEvent ==
  /\ readW.pc = "proc" /\ Op.op = "event"
  /\ Done
  /\ UNCHANGED <<pkts, extQ, sendQ, table, mutex, stopQ, wg, spawned, sem, sendW,
                 transW, pingW, recon, salt, savedSalt, lastMsgId, env>>

-----------------------------------------------------------------------------
(* reconnectLogged: take the semaphore or give up ("already in progress"), *)
(* then call reconnectToDc(m.session.DcID) until it succeeds, 5 s apart.   *)
(* Reconnect(), and Auth on PHONE_MIGRATE/NETWORK_MIGRATE, call            *)
(* reconnectToDc once, without the semaphore, and return its error.        *)
(* reconnectToDc: push ROUTINES_COUNT stop tokens, close the connection,   *)
(* wait for the WaitGroup, drain leftover tokens, snapshot the ids in      *)
(* msgsByID, Connect(), then push back, under the mutex, the snapshot     *)
(* packets still in msgsByID.  Connect: dial and write 0xef, start the     *)
(* send and read workers, send initConnection(help.getConfig) through the  *)
(* internal queue and wait for its answer, start transfer and ping.        *)
(* recon[r] is the call of reconnectToDc made by r: "logged" (the workers' *)
(* reconnectLogged) or "caller" (Reconnect() or Auth).                     *)

\* reconnectToDc returned nil.
Finish(r) == /\ recon' = [recon EXCEPT ![r] = NoRecon]
             /\ sem' = IF r = "logged" THEN FALSE ELSE sem
\* reconnectToDc returned an error: reconnectLogged calls it again, the
\* caller gets the error.
Failed(r) == IF r = "logged" THEN recon' = [recon EXCEPT ![r] = [NoRecon EXCEPT !.pc = "tokens"]]
             ELSE recon' = [recon EXCEPT ![r] = NoRecon]
Goto(r, pc) == recon' = [recon EXCEPT ![r].pc = pc]

ReconnectStart ==
  /\ spawned > 0
  /\ spawned' = spawned - 1
  /\ \/ /\ ~sem
        /\ sem' = TRUE
        /\ recon' = [recon EXCEPT !.logged.pc = "tokens"]
     \/ /\ sem
        /\ UNCHANGED <<sem, recon>>
  /\ UNCHANGED <<pkts, extQ, sendQ, table, mutex, stopQ, wg, sendW, readW, transW,
                 pingW, salt, savedSalt, lastMsgId, env>>

CallerReconnect ==
  /\ recon.caller.pc = "idle"
  /\ budget.call < MaxCallerReconnects
  /\ budget' = [budget EXCEPT !.call = @ + 1]
  /\ Goto("caller", "tokens")
  /\ UNCHANGED <<pkts, extQ, sendQ, table, mutex, stopQ, wg, spawned, sem, sendW,
                 readW, transW, pingW, salt, savedSalt, lastMsgId,
                 conn, toSrv, toCli, srv>>

RcStopToken(r) ==
  /\ recon[r].pc = "tokens"
  /\ stopQ < ROUTINES_COUNT
  /\ stopQ' = stopQ + 1
  /\ recon' = [recon EXCEPT ![r].i = @ + 1,
                            ![r].pc = IF recon[r].i + 1 = ROUTINES_COUNT THEN "close" ELSE "tokens"]
  /\ UNCHANGED <<pkts, extQ, sendQ, table, mutex, wg, spawned, sem, sendW, readW,
                 transW, pingW, salt, savedSalt, lastMsgId, env>>

RcClose(r) ==
  /\ recon[r].pc = "close"
  /\ conn' = "closed"
  /\ toSrv' = <<>>
  /\ toCli' = <<>>
  /\ Goto(r, "wait")
  /\ UNCHANGED <<pkts, extQ, sendQ, table, mutex, stopQ, wg, spawned, sem, sendW,
                 readW, transW, pingW, salt, savedSalt, lastMsgId, srv, budget>>

\* Mutant: the leftover stop tokens are not drained after Wait().
RcWaitNoDrain(r) ==
  /\ recon[r].pc = "wait"
  /\ wg = 0
  /\ recon' = [recon EXCEPT ![r].pc = "dial", ![r].pend = {pkts[p].msgID : p \in table}]
  /\ UNCHANGED <<pkts, extQ, sendQ, table, mutex, stopQ, wg, spawned, sem, sendW,
                 readW, transW, pingW, salt, savedSalt, lastMsgId, env>>

RcWait(r) ==
  /\ recon[r].pc = "wait"
  /\ wg = 0
  /\ stopQ' = 0
  /\ recon' = [recon EXCEPT ![r].pc = "dial", ![r].pend = {pkts[p].msgID : p \in table}]
  /\ UNCHANGED <<pkts, extQ, sendQ, table, mutex, wg, spawned, sem, sendW, readW,
                 transW, pingW, salt, savedSalt, lastMsgId, env>>

RcDial(r) ==
  /\ recon[r].pc = "dial"
  /\ \/ /\ budget.dial < MaxDialFailures
        /\ budget' = [budget EXCEPT !.dial = @ + 1]
        /\ Failed(r)
        /\ UNCHANGED <<conn, wg, sendW, readW>>
     \/ /\ conn' = "up"
        /\ wg' = wg + 2
        /\ sendW' = Idle("loop")
        /\ readW' = [pc |-> "loop", ops |-> <<>>, buf |-> {}]
        /\ Goto(r, "cfgpush")
        /\ UNCHANGED budget
  /\ UNCHANGED <<pkts, extQ, sendQ, table, mutex, stopQ, spawned, sem, transW,
                 pingW, salt, savedSalt, lastMsgId, toSrv, toCli, srv>>

RcConfigPush(r) ==
  /\ recon[r].pc = "cfgpush"
  /\ Len(sendQ) < IntCap
  /\ pkts' = Append(pkts, NewPacket("cfg", TRUE))
  /\ sendQ' = Append(sendQ, NextPkt)
  /\ recon' = [recon EXCEPT ![r].pc = "config", ![r].cfg = NextPkt]
  /\ UNCHANGED <<extQ, table, mutex, stopQ, wg, spawned, sem, sendW, readW, transW,
                 pingW, salt, savedSalt, lastMsgId, env>>

\* The config answer arrived: start transfer and ping, or fail Connect.
RcConfigWaitWith(r, OnError) ==
  /\ recon[r].pc = "config"
  /\ pkts[recon[r].cfg].resp = "done"
  /\ \/ /\ pkts[recon[r].cfg].got.tag = "config"
        /\ wg' = wg + 2
        /\ transW' = Idle("loop")
        /\ pingW' = "loop"
        /\ Goto(r, "lock")
        /\ UNCHANGED sem
     \/ /\ pkts[recon[r].cfg].got.tag # "config"
        /\ OnError
        /\ UNCHANGED <<wg, transW, pingW>>
  /\ UNCHANGED <<pkts, extQ, sendQ, table, mutex, stopQ, spawned, sendW,
                 readW, salt, savedSalt, lastMsgId, env>>

\* Mutant: a Connect whose config request failed is treated as done: the
\* reconnect returns without starting the transfer and ping workers.
RcConfigWaitGiveUp(r) == RcConfigWaitWith(r, Finish(r))

RcConfigWait(r) == RcConfigWaitWith(r, Failed(r) /\ UNCHANGED sem)

\* The packets of the snapshot still in msgsByID, looked up under the lock.
\* Mutant: looked up under the wrong key, so none is found.
RcLockWith(r, found) ==
  /\ recon[r].pc = "lock"
  /\ \/ /\ recon[r].pend = {}
        /\ Finish(r)
        /\ UNCHANGED mutex
     \/ /\ recon[r].pend # {}
        /\ mutex = "none"
        /\ mutex' = r
        /\ recon' = [recon EXCEPT ![r].pc = "push", ![r].buf = found]
        /\ UNCHANGED sem
  /\ UNCHANGED <<pkts, extQ, sendQ, table, stopQ, wg, spawned, sendW, readW,
                 transW, pingW, salt, savedSalt, lastMsgId, env>>

RcLockNoPush(r) == RcLockWith(r, {})

RcLock(r) == RcLockWith(r, {p \in table : pkts[p].msgID \in recon[r].pend})

RcPush(r) ==
  /\ recon[r].pc = "push"
  /\ Len(sendQ) < IntCap
  /\ \E p \in recon[r].buf :
       /\ sendQ' = Append(sendQ, p)
       /\ recon' = [recon EXCEPT ![r].buf = @ \ {p}]
  /\ UNCHANGED <<pkts, extQ, table, mutex, stopQ, wg, spawned, sem, sendW, readW,
                 transW, pingW, salt, savedSalt, lastMsgId, env>>

RcUnlock(r) ==
  /\ recon[r].pc = "push"
  /\ recon[r].buf = {}
  /\ mutex' = "none"
  /\ Finish(r)
  /\ UNCHANGED <<pkts, extQ, sendQ, table, stopQ, wg, spawned, sendW, readW,
                 transW, pingW, salt, savedSalt, lastMsgId, env>>

-----------------------------------------------------------------------------
(* The server and the network.  A frame the server sends is a message     *)
(* [msgId, seqNo, data]; content messages have an odd seqNo, service       *)
(* messages an even one; server message ids are not modelled (they only   *)
(* name what an ack or pong refers to).  A request is executed once per    *)
(* msg id; a repeated id gets the cached answer again.                     *)
Frame(seq, data) == [msgId |-> 0, seqNo |-> seq, data |-> data]
RpcError == [tag |-> "rpc_error"]
Answer(kind) == IF kind = "cfg" THEN [tag |-> "config"] ELSE [tag |-> "result"]

SrvReceive ==
  LET w     == Head(toSrv)
      fresh == w.id \notin DOMAIN srvDone
      answers == IF ~fresh THEN {srvDone[w.id].ans}
                 ELSE {Answer(w.kind)} \cup
                      (IF budget.err < MaxRpcErrors THEN {RpcError} ELSE {})
  IN
  /\ conn = "up"
  /\ toSrv # <<>>
  /\ toSrv' = Tail(toSrv)
  /\ \/ /\ w.salt # srvSalt
        /\ toCli' = Append(toCli, Frame(2, [tag |-> "bad_server_salt",
                                            bad |-> w.id, salt |-> srvSalt]))
        /\ UNCHANGED <<srvDone, srvAck, budget>>
     \/ /\ w.salt = srvSalt
        /\ w.kind \in {"req", "cfg"}
        /\ \E ans \in answers :
             /\ srvDone' = srvDone @@ (w.id :> [ans |-> ans, pkt |-> w.pkt])
             /\ budget' = [budget EXCEPT !.err = @ + (IF ans = RpcError /\ fresh THEN 1 ELSE 0)]
             /\ toCli' = Append(toCli, Frame(1, [tag |-> "rpc_result", req |-> w.id, obj |-> ans]))
             /\ srvAck' = srvAck \cup {w.id}
     \/ /\ w.salt = srvSalt
        /\ w.kind = "ping"
        /\ toCli' = Append(toCli, Frame(1, [tag |-> "pong"]))
        /\ srvAck' = srvAck \cup {w.id}
        /\ UNCHANGED <<srvDone, budget>>
     \/ /\ w.salt = srvSalt
        /\ w.kind \in {"pong", "ack"}
        /\ srvAck' = IF w.kind = "pong" THEN srvAck \cup {w.id} ELSE srvAck
        /\ UNCHANGED <<toCli, srvDone, budget>>
  /\ UNCHANGED <<client, conn, srvSalt>>

SrvAck ==
  /\ conn = "up"
  /\ srvAck # {}
  /\ toCli' = Append(toCli, Frame(2, [tag |-> "msgs_ack", ids |-> srvAck]))
  /\ srvAck' = {}
  /\ UNCHANGED <<client, conn, toSrv, srvSalt, srvDone, budget>>

SrvEvent ==
  /\ conn = "up"
  /\ budget.srv < MaxSrvEvents
  /\ \E d \in {[tag |-> "ping", pingId |-> 0], [tag |-> "update"],
               [tag |-> "new_session_created", salt |-> srvSalt]} :
       toCli' = Append(toCli, Frame(1, d))
  /\ budget' = [budget EXCEPT !.srv = @ + 1]
  /\ UNCHANGED <<client, conn, toSrv, srvSalt, srvDone, srvAck>>

SrvRotateSalt ==
  /\ budget.salt < MaxSaltChanges
  /\ srvSalt' = srvSalt + 1
  /\ budget' = [budget EXCEPT !.salt = @ + 1]
  /\ UNCHANGED <<client, conn, toSrv, toCli, srvDone, srvAck>>

NetFail ==
  /\ conn = "up"
  /\ budget.fail < MaxFailures
  /\ FailDuringReconnect \/ \A r \in Reconnectors : recon[r].pc = "idle"
  /\ conn' = "broken"
  /\ toSrv' = <<>>
  /\ toCli' = <<>>
  /\ budget' = [budget EXCEPT !.fail = @ + 1]
  /\ UNCHANGED <<client, srv>>

-----------------------------------------------------------------------------
(* A connected client at rest, as Connect() leaves it: four workers        *)
(* started, empty queues and pending table, the salt the server accepts.   *)
Init ==
  /\ pkts = <<>>
  /\ extQ = <<>>
  /\ sendQ = <<>>
  /\ table = {}
  /\ mutex = "none"
  /\ stopQ = 0
  /\ wg = ROUTINES_COUNT
  /\ spawned = 0
  /\ sem = FALSE
  /\ sendW = Idle("loop")
  /\ readW = [pc |-> "loop", ops |-> <<>>, buf |-> {}]
  /\ transW = Idle("loop")
  /\ pingW = "loop"
  /\ recon = [r \in Reconnectors |-> NoRecon]
  /\ conn = "up"
  /\ salt = 0
  /\ savedSalt = 0
  /\ lastMsgId = 0
  /\ toSrv = <<>>
  /\ toCli = <<>>
  /\ srvSalt = 0
  /\ srvDone = <<>>
  /\ srvAck = {}
  /\ budget = [req |-> 0, ping |-> 0, fail |-> 0, dial |-> 0, srv |-> 0, salt |-> 0,
              call |-> 0, err |-> 0]

(* Every worker blocked on an empty channel or an idle connection, and no  *)
(* reconnect under way: the client waits for the application or server.   *)
Quiescent ==
  /\ sendW.pc = "loop" /\ sendQ = <<>>
  /\ readW.pc = "read" /\ conn = "up" /\ toCli = <<>>
  /\ transW.pc = "select" /\ extQ = <<>>
  /\ pingW = "loop"
  /\ \A r \in Reconnectors : recon[r].pc = "idle"
  /\ spawned = 0

ClientStep ==
  \/ TransferCheck \/ TransferStop \/ TransferTake \/ TransferPush
  \/ PingStop \/ PingPush
  \/ SendStop \/ SendTake \/ SendPacket
  \/ ReadCheck \/ ReadFrame \/ ReadError
  \/ ApplySetSalt \/ ApplyResend \/ ResendPush \/ ResendUnlock
  \/ ApplyClear \/ ApplyAcks \/ ApplyPush \/ ApplyEvent
  \/ ReconnectStart
  \/ \E r \in Reconnectors :
       \/ RcStopToken(r) \/ RcClose(r) \/ RcWait(r) \/ RcDial(r)
       \/ RcConfigPush(r) \/ RcConfigWait(r) \/ RcLock(r) \/ RcPush(r) \/ RcUnlock(r)

Next ==
  \/ ClientStep
  \/ Send \/ PingTick \/ CallerReconnect
  \/ SrvReceive \/ SrvAck \/ SrvEvent \/ SrvRotateSalt \/ NetFail
  \/ Quiescent /\ UNCHANGED vars

(* Goroutines are scheduled fairly; the server answers what it receives.   *)
(* The application, the timers, unsolicited server traffic, salt rotation  *)
(* and failures are not forced to happen.                                  *)
Fairness ==
  /\ WF_vars(TransferCheck) /\ WF_vars(TransferStop) /\ WF_vars(TransferTake)
  /\ WF_vars(TransferPush) /\ WF_vars(PingStop) /\ WF_vars(PingPush)
  /\ WF_vars(SendStop) /\ WF_vars(SendTake) /\ WF_vars(SendPacket)
  /\ WF_vars(ReadCheck) /\ WF_vars(ReadFrame) /\ WF_vars(ReadError)
  /\ WF_vars(ApplySetSalt) /\ WF_vars(ApplyResend) /\ WF_vars(ResendPush)
  /\ WF_vars(ResendUnlock) /\ WF_vars(ApplyClear) /\ WF_vars(ApplyAcks)
  /\ WF_vars(ApplyPush) /\ WF_vars(ApplyEvent)
  /\ WF_vars(ReconnectStart)
  /\ \A r \in Reconnectors :
       /\ WF_vars(RcStopToken(r)) /\ WF_vars(RcClose(r)) /\ WF_vars(RcWait(r))
       /\ WF_vars(RcDial(r)) /\ WF_vars(RcConfigPush(r)) /\ WF_vars(RcConfigWait(r))
       /\ WF_vars(RcLock(r)) /\ WF_vars(RcPush(r)) /\ WF_vars(RcUnlock(r))
  /\ WF_vars(SrvReceive) /\ WF_vars(SrvAck)

Spec == Init /\ [][Next]_vars /\ Fairness

-----------------------------------------------------------------------------
Kinds == {"req", "cfg", "ping", "pong", "ack"}
Pkt   == 1..Len(pkts)

TypeOK ==
  /\ \A p \in Pkt : /\ pkts[p].kind \in Kinds
                    /\ pkts[p].msgID \in 0..lastMsgId
                    /\ pkts[p].resp \in {"nil", "open", "done"}
  /\ extQ \in Seq(Pkt) /\ Len(extQ) <= ExtCap
  /\ sendQ \in Seq(Pkt) /\ Len(sendQ) <= IntCap
  /\ table \subseteq Pkt
  /\ mutex \in {"none", "read"} \cup Reconnectors
  /\ stopQ \in 0..ROUTINES_COUNT
  /\ wg \in 0..ROUTINES_COUNT
  /\ sem \in BOOLEAN
  /\ conn \in {"up", "broken", "closed"}
  /\ sendW.pc \in {"off", "loop", "send"} /\ readW.pc \in {"off", "loop", "read", "proc", "resend"}
  /\ transW.pc \in {"off", "loop", "select", "push"} /\ pingW \in {"off", "loop", "push"}

(* Where a packet waiting for its response can be: in a queue, in the hand *)
(* of the transfer or send worker, in msgsByID, or popped by a resend or a *)
(* reconnect that is pushing it back.                                      *)
Reachable(p) ==
  \/ p \in ToSet(extQ) \cup ToSet(sendQ) \cup table \cup readW.buf
     \cup UNION {recon[r].buf : r \in Reconnectors}
  \/ transW.x = p \/ sendW.x = p

(* No request is lost: a packet whose waiter has not been answered is      *)
(* always somewhere the client will send it from again, whatever the       *)
(* order of failures, salt changes and reconnects (send() records before   *)
(* writing; reconnectToDc re-pushes what msgsByID still holds;             *)
(* resendPendingPackets pops and pushes under one lock).                   *)
NoLostRequest ==
  \A p \in Pkt : pkts[p].resp = "open" => Reachable(p)

AllAnswered == \A p \in Pkt : pkts[p].resp # "open"

(* Every request made by the application or by Connect is eventually      *)
(* answered, across broken connections, reconnects and salt changes: the   *)
(* client keeps coming back to a state where no waiter is blocked.  A      *)
(* packet leaves "open" only for "done", so this says each one is          *)
(* answered.                                                               *)
RequestsAnswered == []<>AllAnswered

(* A broken or closed connection is eventually replaced: a reconnect completes and   *)
(* the four workers run again on a live connection.                        *)
Healthy == /\ conn = "up" /\ wg = ROUTINES_COUNT
           /\ \A r \in Reconnectors : recon[r].pc = "idle"
           /\ "off" \notin {sendW.pc, readW.pc, transW.pc, pingW}
ReconnectCompletes == conn # "up" ~> Healthy

(* One generation of workers: when reconnectToDc is about to Connect(),    *)
(* which starts a new send and read worker, every worker of the previous   *)
(* connection has exited (the semaphore and routinesWG.Wait together);    *)
(* otherwise two send and two read workers share m.conn and the queues.   *)
NoDuplicateWorkers ==
  \A r \in Reconnectors : recon[r].pc = "dial" => wg = 0

-----------------------------------------------------------------------------
(* The refinement: every packet is a call of RequestChannel; a call's      *)
(* answer is the one the server recorded for the packet it executed (the   *)
(* ghost pkt of srvDone), whatever msg id it carried.                      *)
Executions(p) == {i \in DOMAIN srvDone : srvDone[i].pkt = p}
ExecAnswer(p)  == IF Executions(p) = {} THEN NoValue
                  ELSE srvDone[CHOOSE i \in Executions(p) : TRUE].ans

RC == INSTANCE RequestChannel
        WITH Answers <- {Answer("req"), Answer("cfg"), RpcError},
             calls   <- [p \in DOMAIN pkts |->
                           [resp |-> pkts[p].resp, runs |-> Cardinality(Executions(p)),
                            ans  |-> ExecAnswer(p),
                            got  |-> pkts[p].got]]

(* The client implements RequestChannel: whatever the failures, resends   *)
(* and reconnects, the server executes each waiting request once, the      *)
(* execution's answer never changes, and the waiter's channel receives     *)
(* that answer once and is then closed (send() keeping msg ids, the       *)
(* server's cache by msg id and clearPacketData's nil check together).     *)
RefinesRequestChannel == RC!Spec

=============================================================================
