---------------------------- MODULE SessionStore ----------------------------
(***************************************************************************)
(* The session file (SessFileStore, src/mtproto.go) and InitSession.        *)
(*                                                                         *)
(* A file is the sequence of its bytes, or NIL when it does not exist.     *)
(* Save truncates the file (os.Create) and then writes the encoding of the *)
(* session; Load reads at most 4096 bytes into a zeroed buffer and decodes *)
(* the four fields from the whole buffer with DecodeBuf.  A session is a   *)
(* record [dcID, authKey, authKeyHash, salt, addr]; a salt is a 64-bit     *)
(* word as the pair of its 32-bit halves, a string its bytes.  The random  *)
(* sessionId InitSession draws is left out: no property reads it.          *)
(***************************************************************************)
EXTENDS Integers, Sequences, DecodeBuf

\* ---- EncodeBuf (not under src/): little-endian words, TL byte strings ----
EncodeInt(v) ==
  LET u == IF v >= 0 THEN v ELSE (v + 2147483647) + 1   \* low 31 bits
  IN  <<u % 256, (u \div 256) % 256, (u \div 65536) % 256,
        u \div 16777216 + (IF v < 0 THEN 128 ELSE 0)>>
EncodeLong(p) == EncodeInt(p[1]) \o EncodeInt(p[2])

\* A length byte (or 254 and three length bytes), the bytes, zero padding
\* to a multiple of four.
EncodeStringBytes(s) ==
  LET head == IF Len(s) < 254 THEN <<Len(s)>>
              ELSE <<254, Len(s) % 256, (Len(s) \div 256) % 256, Len(s) \div 65536>>
      pad  == (4 - ((Len(head) + Len(s)) % 4)) % 4
  IN  head \o s \o [i \in 1..pad |-> 0]

\* ---- SessFileStore ----

\* The bytes Save writes: AuthKey, AuthKeyHash, ServerSalt, Addr; DcID is
\* not among them.
SaveBytes(sess) ==
  EncodeStringBytes(sess.authKey) \o EncodeStringBytes(sess.authKeyHash)
  \o EncodeLong(sess.salt) \o EncodeStringBytes(sess.addr)

\* The files a Save of sess can leave behind: the old one if os.Create
\* fails; once Create has truncated it, the first k bytes of the encoding,
\* k < Len when f.Write fails or the process dies during the write.
SaveOutcomes(file, sess) ==
  {file} \cup {SubSeq(SaveBytes(sess), 1, k) : k \in 0..Len(SaveBytes(sess))}

LoadBufSize == 4096    \* make([]byte, 1024*4)

\* f.Read into make([]byte, 4096): the file's first bytes, then zeros; the
\* decoder spans the whole buffer, not the bytes read.
ReadBuf(file) ==
  LET n == Min({Len(file), LoadBufSize})
  IN  NewDecodeBuf(SubSeq(file, 1, n) \o [i \in 1..LoadBufSize - n |-> 0])

\* The fields decoded are assigned to sess whether or not the decoder failed.
Loaded(sess, key, hash, salt, addr) ==
  [err  |-> IF Ok(addr.d) THEN "none" ELSE addr.d.err,
   sess |-> [sess EXCEPT !.authKey = key.v, !.authKeyHash = hash.v,
                         !.salt = salt.v, !.addr = addr.v]]

\* Mutant: Load reading ServerSalt before AuthKeyHash.
LoadSaltFirst(file, sess) ==
  IF file = NIL THEN [err |-> "ErrNoSessionData", sess |-> sess]
  ELSE IF file = <<>> THEN [err |-> "EOF", sess |-> sess]
  ELSE LET key == StringBytes(ReadBuf(file))   salt == Long(key.d)
           hash == StringBytes(salt.d)        addr == String(hash.d)
       IN  Loaded(sess, key, hash, salt, addr)

\* Load into sess: a missing file is ErrNoSessionData; f.Read of an empty
\* file is io.EOF; otherwise the four fields in the order Save wrote them.
Load(file, sess) ==
  IF file = NIL THEN [err |-> "ErrNoSessionData", sess |-> sess]
  ELSE IF file = <<>> THEN [err |-> "EOF", sess |-> sess]
  ELSE LET key == StringBytes(ReadBuf(file))   hash == StringBytes(key.d)
           salt == Long(hash.d)               addr == String(salt.d)
       IN  Loaded(sess, key, hash, salt, addr)

\* ---- InitSession ----

\* &SessionInfo{}: nil slices, zero numbers, empty address.
EmptySession == [dcID |-> 0, authKey |-> NIL, authKeyHash |-> NIL,
                 salt |-> <<0, 0>>, addr |-> <<>>]
DefaultAddr  == <<149, 154, 167, 50>>    \* "149.154.167.50:443"

\* InitSession(sessEncrIsReady) on a client holding session (NIL before
\* the first call) and the flag ready, with the store's file: the error it
\* returns and the session and encryptionReady it leaves.
InitSession(file, session, ready, sessEncrIsReady) ==
  IF session # NIL
  THEN [err |-> "none", session |-> session, encryptionReady |-> sessEncrIsReady]
  ELSE
    LET r == Load(file, EmptySession)
    IN  CASE r.err = "ErrNoSessionData" ->
               [err |-> "none", session |-> [r.sess EXCEPT !.addr = DefaultAddr],
                encryptionReady |-> FALSE]
          [] r.err = "none" ->
               [err |-> "none", session |-> r.sess, encryptionReady |-> TRUE]
          [] OTHER ->
               [err |-> r.err, session |-> r.sess, encryptionReady |-> ready]

=============================================================================
