--------------------------- MODULE RequestChannel ---------------------------
(***************************************************************************)
(* What the client promises the code that sends through it (spec.md, the   *)
(* pending table and completion semantics): each packet handed to it is a  *)
(* call; a call with a response slot is executed by the server at most    *)
(* once, and its slot receives exactly once the value of that execution. *)
(* Calls without a response slot (pings, pongs, acks) promise nothing.     *)
(*                                                                         *)
(* calls[i].resp: "nil" (no slot), "open" or "done"; calls[i].runs: how   *)
(* many times the server executed the call; calls[i].ans: the answer of   *)
(* that execution; calls[i].got: the value the slot received.             *)
(***************************************************************************)
EXTENDS Sequences

CONSTANTS Answers,   \* the values an execution may produce
          NoValue    \* not executed / not received

VARIABLE calls

Init == calls = <<>>

\* A new call, with or without a response slot.
Issue(waits) ==
  calls' = Append(calls, [resp |-> IF waits THEN "open" ELSE "nil",
                          runs |-> 0, ans |-> NoValue, got |-> NoValue])

\* The server executes a call that is still waiting, once.
Execute(i, a) ==
  /\ calls[i].resp = "open"
  /\ calls[i].runs = 0
  /\ calls' = [calls EXCEPT ![i].runs = 1, ![i].ans = a]

\* The slot of an executed call receives the execution's value and closes.
Deliver(i) ==
  /\ calls[i].resp = "open"
  /\ calls[i].runs = 1
  /\ calls' = [calls EXCEPT ![i].resp = "done", ![i].got = calls[i].ans]

Next ==
  \/ \E w \in BOOLEAN : Issue(w)
  \/ \E i \in DOMAIN calls : \/ \E a \in Answers : Execute(i, a)
                             \/ Deliver(i)

Spec == Init /\ [][Next]_calls

=============================================================================
