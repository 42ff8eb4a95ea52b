------------------------------ MODULE DcSwitch ------------------------------
(***************************************************************************)
(* The session side of Connect, DCAddr and reconnectToDc (src/mtproto.go): *)
(* which DC and address the client talks to, whether its auth key is ready,*)
(* which key it holds and which one the store holds, and the dcOptions     *)
(* table the configs fill.  The workers, queues and stop tokens of the     *)
(* same functions are the MTProto module's; here each call is one pure    *)
(* operator from a client state to [c, err].                               *)
(*                                                                         *)
(* An address is [dc |-> d]: the server at it is DC d.  NIL is an empty    *)
(* address.  An auth key is [dc, n]: made by the n-th makeAuthKey, with    *)
(* the server of DC dc.  A config is the sequence of its dcOptions,        *)
(* [id, addr].  An outcome says which of the steps of one Connect succeed. *)
(***************************************************************************)
EXTENDS Integers, Sequences

CONSTANT NIL

LOCAL INSTANCE SequencesExt

Addr(d) == [dc |-> d]
DefaultAddr == Addr(2)    \* "149.154.167.50:443"

\* The steps of Connect that can fail: ResolveTCPAddr and DialTCP with the
\* 0xef write (dial), makeAuthKey (key), sessionStore.Save (save), and
\* the config request (cfg).
Outcomes ==
  {[dial |-> d, key |-> k, save |-> s, cfg |-> g] : d, k, s, g \in BOOLEAN}
OkOutcome == [dial |-> TRUE, key |-> TRUE, save |-> TRUE, cfg |-> TRUE]

\* makeAuthKey (not under src/): a new key, made with the connected server.
MakeAuthKey(c) ==
  [c EXCEPT !.key = [dc |-> c.addr.dc, n |-> c.keys + 1], !.keys = @ + 1]

\* Connect: dial; when the key is not ready, makeAuthKey and Save it, then
\* mark it ready; start the workers; ask for the config, and take DcID
\* from its thisDc and append its dcOptions to m.dcOptions.
Connect(c, cfg, o) ==
  LET fail(s, e) == [c |-> s, err |-> e]
      keyed == IF c.ready THEN c
               ELSE [MakeAuthKey(c) EXCEPT !.saved = MakeAuthKey(c).key, !.ready = TRUE]
  IN  CASE c.addr = NIL            -> fail(c, "resolve")
        [] ~o.dial                 -> fail(c, "dial")
        [] ~c.ready /\ ~o.key      -> fail(c, "authkey")
        [] ~c.ready /\ ~o.save     -> fail(MakeAuthKey(c), "save")
        [] ~o.cfg                  -> fail(keyed, "config")
        [] OTHER ->
             [c |-> [keyed EXCEPT !.dcID = c.addr.dc, !.opts = @ \o cfg], err |-> "none"]

\* DCAddr(dcID, false): the address of the first option for the DC.
DCAddr(opts, id) ==
  LET is == {i \in DOMAIN opts : opts[i].id = id}
  IN  IF is = {} THEN NIL ELSE opts[Min(is)].addr

\* Mutant: the key kept when the DC changes.
ReconnectKeepsKey(c, newDc, cfg, o) ==
  LET a == DCAddr(c.opts, newDc)
  IN  IF a = NIL THEN [c |-> c, err |-> "wrong DC"]
      ELSE Connect([c EXCEPT !.dcID = newDc, !.addr = a], cfg, o)

\* reconnectToDc(newDcID), the part after the workers stopped: a new DC
\* clears encryptionReady; an unknown DC is an error (with the flag
\* already cleared); otherwise DcID and Addr are set and Connect runs.
ReconnectToDc(c, newDc, cfg, o) ==
  LET c1 == IF newDc # c.dcID THEN [c EXCEPT !.ready = FALSE] ELSE c
      a  == DCAddr(c1.opts, newDc)
  IN  IF a = NIL THEN [c |-> c1, err |-> "wrong DC"]
      ELSE Connect([c1 EXCEPT !.dcID = newDc, !.addr = a], cfg, o)

\* InitSessAndConnect: InitSession(false) on a new client, with the key
\* and address a complete Save left in the store (file) or no file; then
\* Connect.  DcID is not saved and starts at 0.
InitSessAndConnect(file, cfg, o) ==
  LET c == IF file = NIL
           THEN [dcID |-> 0, addr |-> DefaultAddr, ready |-> FALSE, key |-> NIL,
                 saved |-> NIL, opts |-> <<>>, keys |-> 0]
           ELSE [dcID |-> 0, addr |-> file.addr, ready |-> TRUE, key |-> file.key,
                 saved |-> file.key, opts |-> <<>>, keys |-> 0]
  IN  Connect(c, cfg, o)

\* ---- Auth's migrate path: m.reconnectToDc(newDc) ----

AU == INSTANCE Auth

RECURSIVE Reconnects(_, _, _, _)

\* The reconnects of an Auth dialogue, in order: each from the state the
\* previous one left, until one fails (Auth then returns its error).
Reconnects(c, dcs, cfg, outs) ==
  IF dcs = <<>> \/ outs = <<>> THEN <<>>
  ELSE LET r == ReconnectToDc(c, Head(dcs), cfg, Head(outs))
       IN  <<r>> \o (IF r.err = "none" THEN Reconnects(r.c, Tail(dcs), cfg, Tail(outs))
                    ELSE <<>>)

\* Auth on a connected client c: the DCs its migrate answers name, the
\* reconnects to them (one outcome each), and the dialogue, whose
\* reconnect results are those reconnects'.
AuthOnClient(ans, c, cfg, outs) ==
  LET recs == SelectSeq(AU!Auth({}, ans, [j \in 1..Len(outs) |-> TRUE]).calls,
                       LAMBDA x : x.op = "reconnect")
      dcs  == [j \in DOMAIN recs |-> recs[j].arg]
      ch   == Reconnects(c, dcs, cfg, outs)
  IN  [auth |-> AU!Auth({}, ans, [j \in 1..Len(ch) |-> ch[j].err = "none"]),
       dcs  |-> dcs, chain |-> ch]

=============================================================================
