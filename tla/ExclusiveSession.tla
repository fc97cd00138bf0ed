--------------------------- MODULE ExclusiveSession ---------------------------
(***************************************************************************)
(* What a connection service promises about the handles it opens: one life *)
(* cycle at a time.  A handle is opened only when every other handle is    *)
(* idle again, an open handle is closed before it is idle, and opening and *)
(* closing both come to an end.                                            *)
(***************************************************************************)
CONSTANT Handles

VARIABLE state

HandleState == {"idle", "opening", "open", "closing"}

Init == state = [h \in Handles |-> "idle"]

Move(h, from, to) == state[h] \in from /\ state' = [state EXCEPT ![h] = to]

Open(h) ==
    /\ \A other \in Handles : state[other] = "idle"
    /\ Move(h, {"idle"}, "opening")

\* The open attempt succeeds, or fails and leaves nothing behind.
OpenResult(h) == Move(h, {"opening"}, "open") \/ Move(h, {"opening"}, "idle")

\* The handle is closed after use, or because it is not wanted any more.
Close(h) == Move(h, {"opening", "open"}, "closing")

Closed(h) == Move(h, {"closing"}, "idle")

Next == \E h \in Handles : Open(h) \/ OpenResult(h) \/ Close(h) \/ Closed(h)

\* The steps that end an attempt or a close.
Settle == \E h \in Handles :
    OpenResult(h) \/ Closed(h) \/ Move(h, {"opening"}, "closing")

Spec == Init /\ [][Next]_state /\ WF_state(Settle)
===============================================================================
