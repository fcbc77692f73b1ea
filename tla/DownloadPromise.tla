--------------------------- MODULE DownloadPromise ---------------------------
(***************************************************************************)
(* What a profile download promises, without messages, keys or sessions: a *)
(* transaction is opened once and for one card, only that card ever loads  *)
(* a profile under it, and the server holds a download for installed only  *)
(* after the card loaded it.  Module Download implements it.               *)
(***************************************************************************)
CONSTANTS Transactions, Holders

VARIABLES
  opened,     \* pairs <<transaction, card>>
  loaded,     \* pairs <<transaction, card>>: the card loaded a profile
  confirmed   \* transactions the server was told are installed

vars == <<opened, loaded, confirmed>>

Init == opened = {} /\ loaded = {} /\ confirmed = {}

Open(t, c) ==
  /\ \A p \in opened : p[1] # t
  /\ opened' = opened \cup {<<t, c>>}
  /\ UNCHANGED <<loaded, confirmed>>

Load(t, c) ==
  /\ <<t, c>> \in opened
  /\ loaded' = loaded \cup {<<t, c>>}
  /\ UNCHANGED <<opened, confirmed>>

Confirm(t) ==
  /\ \E p \in loaded : p[1] = t
  /\ confirmed' = confirmed \cup {t}
  /\ UNCHANGED <<opened, loaded>>

Next ==
  \E t \in Transactions :
    \/ \E c \in Holders : Open(t, c) \/ Load(t, c)
    \/ Confirm(t)

Spec == Init /\ [][Next]_vars
=============================================================================
