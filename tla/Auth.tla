-------------------------------- MODULE Auth --------------------------------
(***************************************************************************)
(* MTProto.Auth (src/mtproto.go): the sign-in dialogue, a sequence of      *)
(* SendSync calls and, on a DC migration, reconnectToDc.  Pure: given the  *)
(* steps of the AuthDataProvider that fail (perr \subseteq {"phone",       *)
(* "code", "password"}), the answers SendSync returns, in order (ans), and *)
(* the outcomes of the reconnects, in order (rec, TRUE = nil error), Auth  *)
(* is the record of the calls it made and what it returned.                *)
(*                                                                         *)
(* An answer is [tag |-> "sentCode"], [tag |-> "password"] (an             *)
(* account.password), [tag |-> "authorization"], [tag |-> "other"] or an   *)
(* rpc_error [tag, code, msg, dc]: msg is the error string without its     *)
(* numeric suffix, dc that suffix, NIL when it has none.  A call is        *)
(* [op, arg]: the index of the answer it received, or for "reconnect" the  *)
(* DC.  res is "ok", "error", or "blocked" when the inputs ran out.        *)
(***************************************************************************)
EXTENDS Integers, Sequences

CONSTANT NIL

TL_ErrSeeOther == 303

\* IsError(x, msg): an rpc_error with that message.
IsError(x, msg) == x.tag = "rpc_error" /\ x.msg = msg /\ x.dc = NIL

\* fmt.Sscanf(x.ErrorMessage, prefix_%d, &newDc) returns 1.
Scans(x, prefix) == x.msg = prefix /\ x.dc # NIL

\* The state threaded through the dialogue: the next answer and reconnect
\* outcome to consume, the calls so far, and "run" until Auth returns.
Start == [i |-> 1, j |-> 1, calls |-> <<>>, res |-> "run"]
Call(s, op)   == [s EXCEPT !.i = @ + 1, !.calls = Append(@, [op |-> op, arg |-> s.i])]
Return(s, res) == [s EXCEPT !.res = res]
Answer(ans, s) == ans[s.i]
Blocked(ans, s) == s.i > Len(ans)

RECURSIVE SendCodeLoop(_, _, _)

\* Mutant: only PHONE_MIGRATE_%d is parsed.
SendCodePhoneOnly(ans, rec, s) ==
  IF Blocked(ans, s) THEN Return(s, "blocked")
  ELSE
    LET x  == Answer(ans, s)
        s1 == Call(s, "sendCode")
        s2 == [s1 EXCEPT !.j = @ + 1,
                         !.calls = Append(@, [op |-> "reconnect", arg |-> x.dc])]
    IN  CASE x.tag = "sentCode" -> s1
          [] x.tag = "rpc_error" /\ x.code = TL_ErrSeeOther /\ Scans(x, "PHONE_MIGRATE") ->
               IF s1.j > Len(rec) THEN Return(s2, "blocked")
               ELSE IF rec[s1.j] THEN SendCodeLoop(ans, rec, s2) ELSE Return(s2, "error")
          [] OTHER -> Return(s1, "error")

\* The "for flag" loop: send auth.sendCode; on auth.sentCode go on; on a
\* 303 whose message parses as PHONE_MIGRATE_n or NETWORK_MIGRATE_n,
\* reconnectToDc(n) and send again; any other answer is returned as an
\* error (the other rpc_errors, a migrate message without a number, a
\* wrong type), and so is a failed reconnect.
SendCodeLoop(ans, rec, s) ==
  IF Blocked(ans, s) THEN Return(s, "blocked")
  ELSE
    LET x  == Answer(ans, s)
        s1 == Call(s, "sendCode")
        s2 == [s1 EXCEPT !.j = @ + 1,
                         !.calls = Append(@, [op |-> "reconnect", arg |-> x.dc])]
    IN  CASE x.tag = "sentCode" -> s1
          [] x.tag = "rpc_error" /\ x.code = TL_ErrSeeOther
               /\ (Scans(x, "PHONE_MIGRATE") \/ Scans(x, "NETWORK_MIGRATE")) ->
               IF s1.j > Len(rec) THEN Return(s2, "blocked")
               ELSE IF rec[s1.j] THEN SendCodeLoop(ans, rec, s2) ELSE Return(s2, "error")
          [] OTHER -> Return(s1, "error")

\* The last answer: an auth.authorization signs in (its User is asserted
\* to be a TL_user, which the inputs always give), anything else is an
\* error.
Authorized(s, x) == Return(s, IF x.tag = "authorization" THEN "ok" ELSE "error")

\* The password branch, entered on SESSION_PASSWORD_NEEDED: getPassword,
\* which must answer account.password, then the provider's Password(), then
\* checkPassword, whose rpc_error is returned.
PasswordSteps(perr, ans, s) ==
  IF Blocked(ans, s) THEN Return(s, "blocked")
  ELSE
    LET s1 == Call(s, "getPassword")
    IN  IF Answer(ans, s).tag # "password" \/ "password" \in perr THEN Return(s1, "error")
        ELSE IF Blocked(ans, s1) THEN Return(s1, "blocked")
        ELSE LET s2 == Call(s1, "checkPassword")
             IN  IF Answer(ans, s1).tag = "rpc_error" THEN Return(s2, "error")
                 ELSE Authorized(s2, Answer(ans, s1))

Auth(perr, ans, rec) ==
  LET s == SendCodeLoop(ans, rec, Start)
  IN  CASE "phone" \in perr -> Return(Start, "error")
        [] s.res # "run"    -> s
        [] "code" \in perr  -> Return(s, "error")
        [] Blocked(ans, s)  -> Return(s, "blocked")
        [] IsError(Answer(ans, s), "SESSION_PASSWORD_NEEDED") ->
             PasswordSteps(perr, ans, Call(s, "signIn"))
        [] OTHER -> Authorized(Call(s, "signIn"), Answer(ans, s))

=============================================================================
