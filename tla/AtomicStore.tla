------------------------------ MODULE AtomicStore ------------------------------
(***************************************************************************)
(* What the transaction engine promises its callers: every transaction     *)
(* takes effect on all its targets in one step or not at all, at most      *)
(* once, on top of exactly the state the transactions before it left       *)
(* behind, and never on top of an outside edit it did not see.             *)
(* (turn-durability design, sections 4.3 and 4.4; crash-harness.ts:22-23.) *)
(***************************************************************************)
EXTENDS TransactionPlan

VARIABLES store,   \* content of every target, as committed
          done     \* transactions that have taken effect

vars == <<store, done>>

TypeOK ==
  /\ store \in [Target -> Image]
  /\ done \subseteq Txn

Init ==
  /\ store \in [Target -> EditImages \cup {Absent}]
  /\ done = {}

\* All operations of t at once; an append extends what is in the store now.
Commit(t) ==
  /\ t \notin done
  /\ done' = done \cup {t}
  /\ store' = Applied(t, store)

\* Somebody edits managed files without termcraft.
Edit ==
  /\ \E x \in Target, image \in EditImages :
       store' = [store EXCEPT ![x] = image]
  /\ UNCHANGED done

Next == Edit \/ \E t \in Txn : Commit(t)

Spec == Init /\ [][Next]_vars
===============================================================================
