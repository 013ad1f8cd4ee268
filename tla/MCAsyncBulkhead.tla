---------------------------- MODULE MCAsyncBulkhead ----------------------------
EXTENDS AsyncBulkhead

CONSTANTS a1, a2, a3, b1

TwoLoops == [t \in Tasks |-> IF t = b1 THEN "B" ELSE "A"]

VARIABLE room   \* history: the queued tasks that found a slot free

(* Who finds a slot free and has to wait all the same.                     *)
Observe ==
    room' = {t \in Tasks : Wait(t) /\ value > 0} \cup {t \in room : t \in Queued'}

ObservedSpec == Init /\ room = {} /\ [][Next /\ Observe]_<<vars, room>>

(* bulkhead.py:159-161 of a timeout of 0 in the sync bulkhead: "True if a  *)
(* slot was available, False otherwise ... Both match AsyncBulkhead's      *)
(* contract".  So a call that comes while a slot is free is not refused.   *)
FreeSlotAdmits == [][\A t \in Tasks : Refuse(t) => t \notin room]_<<vars, room>>

=============================================================================
