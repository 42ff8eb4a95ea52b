----------------------------- MODULE MCDecodeBuf -----------------------------
(***************************************************************************)
(* The wire layer. Checks the DecodeBuf operators against reference encoders written from *)
(* the wire format (little-endian words; strings with a 1-byte length, or *)
(* 254 and a 3-byte length, zero-padded to a multiple of 4; vectors as    *)
(* the vector constructor, a count and the items), over bounded inputs:   *)
(* short strings of a few byte values and strings around the 254-byte     *)
(* boundary, short vectors, small objects, every proper prefix of those   *)
(* encodings, and every buffer of up to four words from a set of          *)
(* constructor numbers and counts, with the last word cut short; and,     *)
(* through MCDispatch, process() over every frame of MCDispatch!Frames;   *)
(* and the session file: InitSession on what a Save of a small session    *)
(* writes, and on every file a failed or interrupted Save leaves; and     *)
(* Auth over every dialogue of up to four answers.                         *)
(***************************************************************************)
EXTENDS Integers, Sequences, SequencesExt, FiniteSets, DecodeBuf

\* ---- reference encoders ----
Zeros(n) == [i \in 1..n |-> 0]
Pad4(n)  == (4 - (n % 4)) % 4

\* The four little-endian bytes of an int32 (two's complement).
EncWord(v) ==
  LET u == IF v >= 0 THEN v ELSE v + 2147483647 + 1   \* the low 31 bits
  IN  <<u % 256, (u \div 256) % 256, (u \div 65536) % 256,
        u \div 16777216 + (IF v < 0 THEN 128 ELSE 0)>>
EncLong(p) == EncWord(p[1]) \o EncWord(p[2])

EncString(s) ==
  LET head == IF Len(s) < 254 THEN <<Len(s)>>
              ELSE <<254, Len(s) % 256, (Len(s) \div 256) % 256, Len(s) \div 65536>>
  IN  head \o s \o Zeros(Pad4(Len(head) + Len(s)))

EncVector(xs, Enc(_)) ==
  EncWord(CRC_vector) \o EncWord(Len(xs)) \o FoldLeft(LAMBDA acc, x : acc \o Enc(x), <<>>, xs)

RECURSIVE EncObject(_)
EncObject(o) ==
  CASE o.tag = "boolTrue"  -> EncWord(CRC_boolTrue)
    [] o.tag = "boolFalse" -> EncWord(CRC_boolFalse)
    [] o.tag = "rpc_result" -> EncWord(CRC_rpc_result) \o EncLong(o.req) \o EncObject(o.obj)
    [] o.tag = "gzip" -> EncWord(CRC_gzip_packed) \o EncString(GzipMagic \o EncObject(o.obj))
    [] o.tag = "msg_container" ->
         EncWord(CRC_msg_container) \o EncWord(Len(o.items)) \o
         FoldLeft(LAMBDA acc, i : acc \o EncLong(i.msgId) \o EncWord(i.seqNo)
                                      \o EncWord(i.bytes) \o EncObject(i.data),
                  <<>>, o.items)

\* The value a well-formed encoding decodes to: gzip is transparent.
RECURSIVE Decoded(_)
Decoded(o) ==
  CASE o.tag = "gzip" -> Decoded(o.obj)
    [] o.tag = "rpc_result" -> [o EXCEPT !.obj = Decoded(o.obj)]
    [] o.tag = "msg_container" ->
         [o EXCEPT !.items = [k \in DOMAIN o.items |->
                                [o.items[k] EXCEPT !.data = Decoded(o.items[k].data)]]]
    [] OTHER -> o

\* ---- bounded inputs ----
SeqsUpTo(S, n) == UNION {[1..k -> S] : k \in 0..n}
Strs     == SeqsUpTo({0, 7, 255}, 4) \cup {Zeros(n) : n \in {253, 254, 255, 256}}
IntVals  == {0, -1, 2147483647, -2147483647 - 1}
Longs    == {<<0, 0>>, <<-1, 2147483647>>}
Leaves   == {[tag |-> "boolTrue"], [tag |-> "boolFalse"]}
Results  == {[tag |-> "rpc_result", req |-> i, obj |-> l] : i \in Longs, l \in Leaves}
Items    == [msgId : {<<2, 0>>}, seqNo : {1, 2}, bytes : {4}, data : Leaves \cup Results]
Objects  == Leaves \cup Results \cup
            {[tag |-> "msg_container", items |-> is] : is \in SeqsUpTo(Items, 2)} \cup
            {[tag |-> "gzip", obj |-> o] : o \in Leaves \cup Results}

\* Each kind of vector keeps its items under a field of its own name (TLC
\* cannot compare an int32 item with an int64 one).
VectorCases ==
  {[which |-> "int", ints |-> xs, enc |-> EncVector(xs, EncWord)] : xs \in SeqsUpTo(IntVals, 2)} \cup
  {[which |-> "long", longs |-> xs, enc |-> EncVector(xs, EncLong)] : xs \in SeqsUpTo(Longs, 2)} \cup
  {[which |-> "vstring", strs |-> xs, enc |-> EncVector(xs, EncString)]
     : xs \in SeqsUpTo({<<>>, <<7>>, <<0, 255, 7>>}, 2)}
VectorItems(c) == CASE c.which = "int" -> c.ints [] c.which = "long" -> c.longs [] OTHER -> c.strs

ReadAs(which, d) ==
  CASE which = "string" -> StringBytes(d)
    [] which = "int"    -> VectorInt(d)
    [] which = "long"   -> VectorLong(d)
    [] which = "vstring" -> VectorString(d)

\* The words a malformed buffer is made of; GzHead is a 3-byte string that
\* holds the gzip magic and one byte of content.
GzHead == Word(3, 31, 139, 0)
Words  == {CRC_msg_container, CRC_rpc_result, CRC_gzip_packed, CRC_boolTrue,
           CRC_vector, 0, 1, -1, GzHead}
Raw    == LET full == {FoldLeft(LAMBDA acc, w : acc \o EncWord(w), <<>>, ws)
                         : ws \in SeqsUpTo(Words, 4)}
          IN  full \cup {SubSeq(b, 1, Len(b) - k) : b \in full, k \in 1..3}

\* The proper prefixes of encodings, at most 12 bytes long (the long
\* strings' prefixes stop inside their content).
ProperPrefixes(E) == UNION {{SubSeq(e, 1, k) : k \in 0..Min({Len(e) - 1, 12})} : e \in E}

Tests ==
  {[kind |-> "string", s |-> s, tail |-> tl] : s \in Strs, tl \in {<<>>, <<5>>}} \cup
  {[kind |-> "vector", c |-> c] : c \in VectorCases} \cup
  {[kind |-> "prefix", which |-> "string", buf |-> b]
     : b \in ProperPrefixes({EncString(s) : s \in Strs})} \cup
  UNION {{[kind |-> "prefix", which |-> c.which, buf |-> b] : b \in ProperPrefixes({c.enc})}
         : c \in VectorCases} \cup
  {[kind |-> "object", o |-> o] : o \in Objects} \cup
  {[kind |-> "sticky", buf |-> b] : b \in {EncString(<<7>>), EncLong(<<-1, 5>>) \o EncWord(0)}}

RawTests == {[kind |-> "raw", buf |-> b] : b \in Raw}

\* The dispatch checks, with the frame under test taken from t.
VARIABLE t
DP == INSTANCE MCDispatch WITH frame <- t.f
FrameTests == {[kind |-> "frame", f |-> fr] : fr \in DP!Frames}

\* Sessions with a short and a real-size (256-byte, long-form) auth key,
\* salts at the sign boundary and addresses of a few lengths.
SS == INSTANCE SessionStore
Sessions == [dcID : {2}, authKey : {<<5, 6, 7>>, [i \in 1..256 |-> i % 256]},
             authKeyHash : {<<1, 2, 3, 4, 5, 6, 7, 8>>}, salt : Longs,
             addr : {<<>>, <<49, 58, 52>>, <<49, 46, 50, 58, 52, 52, 51>>}]
\* Auth: every sequence of up to four answers, the reconnects' outcomes and
\* a failing provider step.
AU == INSTANCE Auth
RpcErr(code, msg, dc) == [tag |-> "rpc_error", code |-> code, msg |-> msg, dc |-> dc]
AuthAnswers ==
  {[tag |-> x] : x \in {"sentCode", "password", "authorization", "other"}} \cup
  {RpcErr(303, m, 4) : m \in {"PHONE_MIGRATE", "NETWORK_MIGRATE", "USER_MIGRATE"}} \cup
  {RpcErr(303, "PHONE_MIGRATE", NIL), RpcErr(401, "SESSION_PASSWORD_NEEDED", NIL),
   RpcErr(420, "FLOOD_WAIT", 4)}
AuthTests == [kind : {"auth"}, ans : SeqsUpTo(AuthAnswers, 4),
              rec : {<<TRUE, TRUE>>, <<FALSE>>, <<TRUE, FALSE>>},
              perr : {{}, {"phone"}, {"code"}, {"password"}}]

\* Auth on a connected client: the migrate answers name the current DC 2,
\* DC 4, or DC 5, which the config does not list; each reconnect either
\* succeeds or fails at one step of Connect: the dial, makeAuthKey, Save
\* (after a new key was made) or the config request.  The client was started by
\* InitSessAndConnect with no file, or with a key saved on DC 2 or DC 4.
DC == INSTANCE DcSwitch
Cfg == <<[id |-> 2, addr |-> DC!Addr(2)], [id |-> 4, addr |-> DC!Addr(4)]>>
DcAnswers == {[tag |-> "sentCode"], [tag |-> "authorization"],
              RpcErr(303, "PHONE_MIGRATE", 4), RpcErr(303, "NETWORK_MIGRATE", 2),
              RpcErr(303, "PHONE_MIGRATE", 5)}
ConnectOutcomes == {DC!OkOutcome} \cup
                   {[DC!OkOutcome EXCEPT ![f] = FALSE] : f \in {"dial", "key", "save", "cfg"}}
StartFiles == {NIL} \cup {[key |-> [dc |-> d, n |-> 0], addr |-> DC!Addr(d)] : d \in {2, 4}}
MigrateTests == [kind : {"migrate"}, ans : SeqsUpTo(DcAnswers, 4),
                 c : {DC!InitSessAndConnect(f, Cfg, DC!OkOutcome).c : f \in StartFiles},
                 outs : [1..2 -> ConnectOutcomes]]

SessionTests == {[kind |-> "session", s |-> x] : x \in Sessions}
TornTests    == UNION {{[kind |-> "torn", s |-> x, file |-> f] : f \in SS!SaveOutcomes(NIL, x)}
                       : x \in Sessions}

\* Each state is one input; the decoders are pure, so nothing moves.
Init    == t \in Tests \cup FrameTests \cup SessionTests \cup AuthTests \cup MigrateTests
InitRaw == t \in RawTests
Next    == UNCHANGED t
Spec    == Init /\ [][Next]_t
SpecRaw == InitRaw /\ [][Next]_t
SpecTorn == t \in TornTests /\ [][Next]_t

Dec(b) == NewDecodeBuf(b)

(* StringBytes returns exactly the bytes the reference encoder wrote, for  *)
(* the short form and the long form (254, then a 3-byte length) across the *)
(* 253/254 boundary, and consumes the length prefix, the bytes and the    *)
(* padding to a 4-byte boundary, and nothing of what follows.             *)
StringRoundTrip ==
  t.kind = "string" =>
    LET e == EncString(t.s)
        r == StringBytes(Dec(e \o t.tail))
    IN  /\ Ok(r.d) /\ r.v = t.s
        /\ r.d.off = Len(e) /\ r.d.off % 4 = 0

(* The vector readers (VectorInt, VectorLong, VectorString) return the     *)
(* encoded items in order, including int32 and int64 values at the sign    *)
(* boundary, and end exactly at the end of the encoding.                   *)
VectorRoundTrip ==
  t.kind = "vector" =>
    LET r == ReadAs(t.c.which, Dec(t.c.enc))
    IN  /\ Ok(r.d) /\ r.v = VectorItems(t.c) /\ r.d.off = Len(t.c.enc)

(* Every proper prefix of a string or vector encoding, padding included,   *)
(* is reported as an error (never returns a value as if it were whole),    *)
(* and the offset never passes the end of the buffer.                      *)
ShortInputFails ==
  t.kind = "prefix" =>
    LET r == ReadAs(t.which, Dec(t.buf))
    IN  ~Ok(r.d) /\ r.d.off <= r.d.size

(* Once a decoder holds an error every reader returns its zero value and   *)
(* leaves the decoder as it was (the m.err != nil test that opens each     *)
(* method), so that a sequence of reads after a failure cannot consume or  *)
(* invent data.                                                            *)
StickyError ==
  t.kind = "sticky" =>
    \A d \in {Fail(Dec(t.buf), "DecodeInt")} :
      \A reads \in {<<<<Long(d), <<0, 0>>>>, <<Double(d), <<0, 0>>>>, <<Int32(d), 0>>,
                    <<UInt32(d), 0>>, <<StringBytes(d), NIL>>, <<String(d), <<>>>>,
                    <<BigInt(d), NIL>>, <<VectorInt(d), NIL>>, <<VectorLong(d), NIL>>,
                    <<VectorString(d), NIL>>, <<Bool(d), FALSE>>, <<Object(d), NIL>>,
                    <<Vector(d), NIL>>, <<Bytes(d, 1), NIL>>>>} :
        \A k \in DOMAIN reads : reads[k][1].v = reads[k][2] /\ reads[k][1].d = d

(* Object decodes every well-formed object of the model (booleans,         *)
(* rpc_result, containers of up to two items, gzip_packed) to the value    *)
(* that was encoded, with gzip transparent and every container item's      *)
(* msg id, seqno and length in their own fields, and ends at its end.      *)
ObjectRoundTrip ==
  t.kind = "object" =>
    LET e == EncObject(t.o)
        r == Object(Dec(e))
    IN  /\ Ok(r.d) /\ r.v = Decoded(t.o) /\ r.d.off = Len(e)

(* Decoding fails cleanly: for every malformed input, truncated or with a *)
(* bad count or a bad gzip payload, Object either returns a value or       *)
(* returns nil with the error set on the decoder, so that the read loop    *)
(* sees the failure (the spec: an undecodable message closes the session); *)
(* it never panics and never returns nil with no error.                    *)
DecodeErrorsReported ==
  t.kind = "raw" =>
    LET r == Object(Dec(t.buf))
    IN  /\ r.d.err # "panic"
        /\ r.v = NIL => ~Ok(r.d)

(* A fresh client started on the file a complete Save wrote (InitSession   *)
(* with no session, Load, the fields in Save's order) starts with          *)
(* encryption ready and the saved key, key hash, salt and address; the DC *)
(* id, which Save does not write, is 0 until Connect's config sets it.     *)
SessionRoundTrip ==
  t.kind = "session" =>
    LET r == SS!InitSession(SS!SaveBytes(t.s), NIL, FALSE, FALSE)
    IN  /\ r.err = "none" /\ r.encryptionReady
        /\ r.session = [t.s EXCEPT !.dcID = 0]

(* A restart never trusts a file that no Save completed: after os.Create   *)
(* truncated the file and the write failed or the process died, the next  *)
(* InitSession either fails or starts fresh, or finds the old or the new  *)
(* session whole; it never starts with encryption ready on a session that *)
(* was never saved.                                                        *)
LoadRejectsTornFile ==
  t.kind = "torn" =>
    LET r == SS!InitSession(t.file, NIL, FALSE, FALSE)
    IN  r.err = "none" /\ r.encryptionReady => r.session = [t.s EXCEPT !.dcID = 0]

(* Auth follows the sign-in dialogue of the spec (section 6): the phone    *)
(* number is asked first and a failure ends it; every answer to sendCode   *)
(* that is a 303 PHONE_MIGRATE_n or NETWORK_MIGRATE_n is followed by a     *)
(* reconnect to DC n, and every reconnect follows one; signIn comes only   *)
(* after auth.sentCode; the password steps are taken exactly when signIn   *)
(* answered SESSION_PASSWORD_NEEDED; and Auth succeeds exactly when the   *)
(* last answer is an auth.authorization after signIn or checkPassword.    *)
AuthFollowsProtocol ==
  t.kind = "auth" =>
    LET r     == AU!Auth(t.perr, t.ans, t.rec)
        n     == Len(r.calls)
        op(k) == r.calls[k].op
        got(k) == t.ans[r.calls[k].arg]
        Migrate(x) == x.tag = "rpc_error" /\ x.code = 303 /\ x.dc # NIL
                      /\ x.msg \in {"PHONE_MIGRATE", "NETWORK_MIGRATE"}
        Ops   == {op(k) : k \in 1..n}
    IN  r.res # "blocked" =>
        /\ "phone" \in t.perr => n = 0
        /\ \A k \in 1..n :
             /\ op(k) = "sendCode" /\ Migrate(got(k)) =>
                  k < n /\ op(k + 1) = "reconnect" /\ r.calls[k + 1].arg = got(k).dc
             /\ op(k) = "reconnect" => k > 1 /\ op(k - 1) = "sendCode" /\ Migrate(got(k - 1))
             /\ op(k) = "signIn" => k > 1 /\ op(k - 1) = "sendCode" /\ got(k - 1).tag = "sentCode"
        /\ ("getPassword" \in Ops) =
             \E k \in 1..n : op(k) = "signIn" /\ got(k).tag = "rpc_error"
                            /\ got(k).msg = "SESSION_PASSWORD_NEEDED"
        /\ (r.res = "ok") = (n > 0 /\ op(n) \in {"signIn", "checkPassword"}
                             /\ got(n).tag = "authorization")

(* A migration redoes the key exchange on the new DC, as the spec's       *)
(* scenario 3 says, and only then: after each reconnect of Auth's migrate *)
(* path that succeeds, the client is on the DC the answer named, at that  *)
(* DC's address, with encryption ready on a key made with that DC and     *)
(* saved; and a new key was made exactly when the DC changed, so a        *)
(* migration to the current DC keeps the authorized key.                  *)
MigrationRedoesKeyExchange ==
  t.kind = "migrate" =>
    LET r       == DC!AuthOnClient(t.ans, t.c, Cfg, t.outs)
        prev(j) == IF j = 1 THEN t.c ELSE r.chain[j - 1].c
    IN  \A j \in DOMAIN r.chain :
          LET c == r.chain[j].c   n == r.dcs[j]
          IN  r.chain[j].err = "none" =>
                /\ c.dcID = n /\ c.addr = DC!Addr(n)
                /\ c.ready /\ c.key.dc = n /\ c.saved = c.key
                /\ (c.key # prev(j).key) = (n # prev(j).dcID)

(* process() acknowledges each odd-seqNo message of a frame exactly once   *)
(* (MCDispatch!AckPerOddMessage).                                          *)
AckPerOddMessage == t.kind = "frame" => DP!AckPerOddMessage

(* process() completes, routes to the event handler and answers with a    *)
(* pong exactly as the dispatch table prescribes                           *)
(* (MCDispatch!RoutedAsSpecified).                                         *)
RoutedAsSpecified == t.kind = "frame" => DP!RoutedAsSpecified

=============================================================================
