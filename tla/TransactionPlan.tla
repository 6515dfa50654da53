---------------------------- MODULE TransactionPlan ----------------------------
(***************************************************************************)
(* Vocabulary of store/transaction/model/plan.ts and engine.ts: managed    *)
(* targets, their images, and the operations one transaction plan carries. *)
(*                                                                         *)
(* The content of a target is the sequence of atoms that make it up; the   *)
(* empty sequence is the absent file.  An atom says who wrote it, and      *)
(* whether all of it reached the disk: a torn atom is a proper leading     *)
(* prefix of the bytes an append-jsonl operation was to add.  Two contents *)
(* are equal exactly when the code's images (state, sha256, size) are.     *)
(***************************************************************************)
EXTENDS Sequences, Naturals

CONSTANTS Txn,       \* transaction ids; their order is the lexical id order
          Target,    \* managed files of the project
          Ops,       \* the operations of each transaction, in index order
          Outside,   \* whoever edits a managed file without termcraft
          EditImages \* the contents such an edit may leave in a file

Mode == {"replace", "delete", "append"}

Atom  == [by : Txn \cup {Outside}, whole : BOOLEAN]
Image == Seq(Atom)

\* An action builds at most one operation per managed file.
ASSUME PlanAssumption ==
  /\ Txn \subseteq Nat
  /\ Outside \notin Txn
  /\ Ops \in [Txn -> Seq([target : Target, mode : Mode])]
  /\ \A t \in Txn : \A i, j \in DOMAIN Ops[t] :
       Ops[t][i].target = Ops[t][j].target => i = j
  /\ EditImages \subseteq Seq([by : {Outside}, whole : {TRUE}])

Absent   == << >>
Whole(w) == [by |-> w, whole |-> TRUE]
Torn(t)  == [by |-> t, whole |-> FALSE]

Indices(t)       == DOMAIN Ops[t]
OpTarget(t, i)   == Ops[t][i].target
OpMode(t, i)     == Ops[t][i].mode
Targets(t)       == {OpTarget(t, i) : i \in Indices(t)}
PayloadOps(t)    == {i \in Indices(t) : OpMode(t, i) # "delete"}

\* newImage of operation i, given the old image its plan records.
NewImage(t, i, oldImage) ==
  CASE OpMode(t, i) = "replace" -> << Whole(t) >>
    [] OpMode(t, i) = "delete"  -> Absent
    [] OpMode(t, i) = "append"  -> Append(oldImage, Whole(t))

\* The whole plan applied to a store at once.
OpOn(t, x)     == CHOOSE i \in Indices(t) : OpTarget(t, i) = x
Applied(t, st) == [x \in Target |-> IF x \in Targets(t)
                                     THEN NewImage(t, OpOn(t, x), st[x])
                                     ELSE st[x]]

\* An interrupted append: the old prefix and part of the prepared bytes.
TornImage(t, oldImage) == Append(oldImage, Torn(t))

\* A chat or comments log whose last line is incomplete (doc.tail # "clean").
HasTornTail(image) == image # Absent /\ ~image[Len(image)].whole
===============================================================================
