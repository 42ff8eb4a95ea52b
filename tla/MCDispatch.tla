----------------------------- MODULE MCDispatch -----------------------------
(***************************************************************************)
(* Checks Dispatch!Process against a reference definition taken from the  *)
(* dispatch table of the protocol, over every inbound frame built from a   *)
(* small set of constructors: single messages and containers of one or two *)
(* messages, with odd and even sequence numbers.                           *)
(***************************************************************************)
EXTENDS Integers, Sequences, SequencesExt, FiniteSets, Dispatch

\* Objects that are not containers; an inner object of an rpc_result is one
\* of Inner.
Inner  == {[tag |-> "update"], [tag |-> "rpc_error"], [tag |-> "pong"]}
Leaves == Inner \cup
          { [tag |-> "ping", pingId |-> 7],
            [tag |-> "msgs_ack", ids |-> {50}],
            [tag |-> "bad_msg_notification", bad |-> 50],
            [tag |-> "msgs_state_info", req |-> 51],
            [tag |-> "new_session_created", salt |-> 1],
            [tag |-> "bad_server_salt", bad |-> 52, salt |-> 2] }
Results == {[tag |-> "rpc_result", req |-> 53, obj |-> o] : o \in Inner}
Plain   == Leaves \cup Results

ItemsWith(id) == [msgId : {id}, seqNo : {2, 3}, data : Plain]
Containers ==
  {[tag |-> "msg_container", items |-> <<a>>] : a \in ItemsWith(2)} \cup
  {[tag |-> "msg_container", items |-> <<a, b>>] : a \in ItemsWith(2), b \in ItemsWith(3)}
Frames == [msgId : {1}, seqNo : {2, 3}, data : Plain \cup Containers]

VARIABLE frame

Init == frame \in Frames
Next == \E f \in Frames : frame' = f
Spec == Init /\ [][Next]_frame

Effects == Process(frame.msgId, frame.seqNo, frame.data, TRUE)

(* Reference: the messages a frame carries, the frame itself and, for a    *)
(* container, its items; the object of an rpc_result is not a message.    *)
Messages(m) ==
  {m} \cup (IF m.data.tag = "msg_container" THEN ToSet(m.data.items) ELSE {})

MetaTags == {"msg_container", "bad_server_salt", "bad_msg_notification",
             "msgs_state_info", "new_session_created", "ping", "pong",
             "msgs_ack", "rpc_result"}

\* Reference completion of a message: the pending id and the value the
\* dispatch table says it completes with.
Completion(m) ==
  CASE m.data.tag = "rpc_result"           -> {<<m.data.req, m.data.obj>>}
    [] m.data.tag = "bad_msg_notification" -> {<<m.data.bad, m.data>>}
    [] m.data.tag = "msgs_state_info"      -> {<<m.data.req, m.data>>}
    [] OTHER                               -> {}

OpsOf(kind) == SelectSeq(Effects, LAMBDA e : e.op = kind)
AckRefs     == [i \in 1..Len(SelectSeq(OpsOf("push"), LAMBDA e : e.kind = "ack")) |->
                  SelectSeq(OpsOf("push"), LAMBDA e : e.kind = "ack")[i].ref]

\* Ids of the client's messages that frames refer to, and of the server's
\* messages that the frames carry.
ClientIds == {50, 51, 52, 53}
ServerIds == {1, 2, 3}
Effect ==
  {SetSalt(s) : s \in {1, 2}} \cup {Resend} \cup
  [op : {"clear"}, id : ClientIds, val : Plain] \cup
  [op : {"acks"}, ids : SUBSET ClientIds] \cup
  [op : {"push"}, kind : {"pong", "ack"}, ref : ServerIds] \cup
  [op : {"event"}, obj : Plain]

TypeOK == /\ frame \in Frames
          /\ Effects \in Seq(Effect)

(* Every inbound message with an odd sequence number, the frame and each   *)
(* container item, is acknowledged by exactly one msgs_ack pushed by       *)
(* process(), and no other id is acknowledged (the seqNo & 1 test at the   *)
(* end of process and the seqNo 0 it passes for an rpc_result's object).  *)
AckPerOddMessage ==
  LET odd == {m \in Messages(frame) : m.seqNo % 2 = 1}
  IN  /\ Len(AckRefs) = Cardinality(odd)
      /\ ToSet(AckRefs) = {m.msgId : m \in odd}

(* Every rpc_result, bad_msg_notification and msgs_state_info completes    *)
(* its pending request once, with the value the dispatch table names, and  *)
(* exactly the messages that are not service messages reach the event      *)
(* handler: never the object of an rpc_result, which goes to its waiter;   *)
(* each ping is answered by one pong naming the ping's own message id.     *)
RoutedAsSpecified ==
  LET pongs       == SelectSeq(OpsOf("push"), LAMBDA e : e.kind = "pong")
      pings       == {m \in Messages(frame) : m.data.tag = "ping"}
      completions == UNION {Completion(m) : m \in Messages(frame)}
      unrouted    == {m \in Messages(frame) : m.data.tag \notin MetaTags}
      completing  == {m \in Messages(frame) : Completion(m) # {}}
  IN  /\ Len(OpsOf("clear")) = Cardinality(completing)
      /\ {<<e.id, e.val>> : e \in ToSet(OpsOf("clear"))} = completions
      /\ Len(OpsOf("event")) = Cardinality(unrouted)
      /\ {e.obj : e \in ToSet(OpsOf("event"))} = {m.data : m \in unrouted}
      /\ Len(pongs) = Cardinality(pings)
      /\ {e.ref : e \in ToSet(pongs)} = {m.msgId : m \in pings}

=============================================================================
