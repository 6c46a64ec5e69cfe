----------------------------- MODULE SwapService -----------------------------
(***************************************************************************)
(* What a caller of the SDK's buy and sell may rely on.  A call succeeds   *)
(* only after its swap was executed on chain.  It may fail at any time, and*)
(* a failed call promises nothing: its transaction may still execute later.*)
(***************************************************************************)
CONSTANT Calls

VARIABLES outcome,  \* outcome[c]: "idle", "pending", "ok", "err"
          executed  \* executed[c]: a transaction of c executed successfully

Init == /\ outcome = [c \in Calls |-> "idle"]
        /\ executed = [c \in Calls |-> FALSE]

Begin(c) ==
  /\ outcome[c] = "idle"
  /\ outcome' = [outcome EXCEPT ![c] = "pending"]
  /\ UNCHANGED executed

Execute(c) ==
  /\ outcome[c] \in {"pending", "ok", "err"} /\ ~executed[c]
  /\ executed' = [executed EXCEPT ![c] = TRUE]
  /\ UNCHANGED outcome

Succeed(c) ==
  /\ outcome[c] = "pending" /\ executed[c]
  /\ outcome' = [outcome EXCEPT ![c] = "ok"]
  /\ UNCHANGED executed

Fail(c) ==
  /\ outcome[c] = "pending"
  /\ outcome' = [outcome EXCEPT ![c] = "err"]
  /\ UNCHANGED executed

\* The call is refused before anything is sent.
Refuse(c) ==
  /\ outcome[c] = "idle"
  /\ outcome' = [outcome EXCEPT ![c] = "err"]
  /\ UNCHANGED executed

Next == \E c \in Calls : Begin(c) \/ Refuse(c) \/ Execute(c) \/ Succeed(c) \/ Fail(c)

Spec == Init /\ [][Next]_<<outcome, executed>>
=============================================================================
