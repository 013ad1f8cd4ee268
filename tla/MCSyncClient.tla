------------------------------ MODULE MCSyncClient ------------------------------
EXTENDS SyncClient

CONSTANTS t1, t2, t3, int, list1, list2, odd, host1, host2, repr, none

(* Two models of one repr, and one that has no key at all.                 *)
Key ==
    [m \in Models |-> CASE m \in {list1, list2} -> repr [] m = odd -> none [] OTHER -> m]

(* One thread alone goes to both hosts.                                    *)
Hosts == [t \in Threads |-> IF t = t3 THEN Keys ELSE {host1}]

=============================================================================
