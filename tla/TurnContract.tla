----------------------------- MODULE TurnContract -----------------------------
(***************************************************************************)
(* What the kernel promises about turns (kernel-command-contract 7.2):     *)
(* one turn at a time; every turn leaves at most one terminal record in    *)
(* the chat, while it is the active one; once it is over, and only then,   *)
(* it is reported exactly once, and "completed" only if it committed.      *)
(***************************************************************************)
CONSTANT Turn

VARIABLES stage,    \* "new", "active", "over"
          record,   \* the terminal chat record: "none", "agent", "system"
          event     \* the terminal event: "none", "completed", "failed", "cancelled"

vars == <<stage, record, event>>

Init ==
  /\ stage = [t \in Turn |-> "new"]
  /\ record = [t \in Turn |-> "none"]
  /\ event = [t \in Turn |-> "none"]

Start(t) ==
  /\ stage[t] = "new"
  /\ \A u \in Turn : stage[u] # "active"
  /\ stage' = [stage EXCEPT ![t] = "active"]
  /\ UNCHANGED <<record, event>>

\* The changes of the turn and its agent record become durable together.
Commit(t) ==
  /\ stage[t] = "active"
  /\ record[t] = "none"
  /\ record' = [record EXCEPT ![t] = "agent"]
  /\ UNCHANGED <<stage, event>>

\* A turn without a record may get a system record, or stay unrecorded.
Close(t) ==
  /\ stage[t] = "active"
  /\ stage' = [stage EXCEPT ![t] = "over"]
  /\ \/ UNCHANGED record
     \/ record[t] = "none" /\ record' = [record EXCEPT ![t] = "system"]
  /\ UNCHANGED event

Report(t, e) ==
  /\ stage[t] = "over"
  /\ event[t] = "none"
  /\ e = "completed" => record[t] = "agent"
  /\ event' = [event EXCEPT ![t] = e]
  /\ UNCHANGED <<stage, record>>

\* A turn refused before its admission leaves nothing behind.
Refuse(t) ==
  /\ stage[t] = "active"
  /\ record[t] = "none"
  /\ stage' = [stage EXCEPT ![t] = "over"]
  /\ event' = [event EXCEPT ![t] = "failed"]
  /\ UNCHANGED record

Next == \E t \in Turn :
  \/ Start(t) \/ Commit(t) \/ Close(t) \/ Refuse(t)
  \/ \E e \in {"completed", "failed", "cancelled"} : Report(t, e)

Spec == Init /\ [][Next]_vars
===============================================================================
