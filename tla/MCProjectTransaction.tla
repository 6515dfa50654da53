------------------------- MODULE MCProjectTransaction -------------------------
(***************************************************************************)
(* ProjectTransaction for TLC.  Transaction 1 is a turn's finalization: a  *)
(* guarded page replacement and the agent record appended to the chat.     *)
(* Transaction 2 appends to the same chat and removes another page.        *)
(***************************************************************************)
EXTENDS ProjectTransaction

CONSTANTS page, page2, chat

Op(x, m) == [target |-> x, mode |-> m]

MCTarget == {page, page2, chat}

MCOps ==
  << << Op(page, "replace"), Op(chat, "append") >>,
     << Op(page2, "delete"), Op(chat, "append") >> >>

MCReadScope == << {page, chat}, {} >>

MCEditImages == { << Whole(Outside) >> }
===============================================================================
