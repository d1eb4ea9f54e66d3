----------------------------- MODULE Submission -----------------------------
(***************************************************************************)
(* What the client controller promises of a call that sends a message to   *)
(* the chain.  A call answered with success has landed; after a success    *)
(* or a refusal by the chain nothing of it lands any more; only a call     *)
(* whose outcome is unknown may still land.  PubRand, FpInstance and FpApp *)
(* are built on these outcomes.                                            *)
(***************************************************************************)
CONSTANT Calls

VARIABLES
  answer,   \* what each call returned, "none" before it returns
  landed    \* the calls whose message the chain has executed

Answers == {"none", "ok", "refused", "unknown"}

Init == answer = [c \in Calls |-> "none"] /\ landed = {}

Land(c) ==
  /\ answer[c] \in {"none", "unknown"}
  /\ landed' = landed \union {c}
  /\ UNCHANGED answer

Succeed(c) ==
  /\ answer[c] = "none"
  /\ answer' = [answer EXCEPT ![c] = "ok"]
  /\ landed' = landed \union {c}

Fail(c) ==
  /\ answer[c] = "none"
  /\ \E a \in {"refused", "unknown"} : answer' = [answer EXCEPT ![c] = a]
  /\ UNCHANGED landed

Next == \E c \in Calls : Land(c) \/ Succeed(c) \/ Fail(c)

Spec == Init /\ [][Next]_<<answer, landed>>
=============================================================================
