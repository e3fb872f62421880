------------------------- MODULE MCSensitiveClipboard -------------------------
(* A copy is called and one other command of any kind. *)
EXTENDS SensitiveClipboard

First == CHOOSE c \in Copies : TRUE
MCInit == Init /\ \E o \in Commands \ {First} : {p \in Ops : at[p] = "idle"} = {First, o}
MCSpec == MCInit /\ [][Next]_vars /\ Fairness
=============================================================================
