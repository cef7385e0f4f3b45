------------------------------ MODULE MCSyncV1 ------------------------------
(***************************************************************************)
(* Instances of SyncV1: two devices that share one entity.                 *)
(***************************************************************************)
EXTENDS SyncV1

CONSTANTS a, b, ta, tb, tc, a1, a2, a3, b1, b2, b3, w1, w2, item

OneTopic == [e \in Entity |-> "topic"]
OneResource == [e \in Entity |-> "resource"]
OneTask == [e \in Entity |-> "task"]
NoParent == [e \in Entity |-> None]
Same == [x \in Payload |-> x]
CreatedByA == [e \in Entity |-> a]

\* Tab tc is a second tab of device a.
TabDevice == [t \in Tab |-> IF t = tb THEN b ELSE a]

DrawsOf(ofA, ofB) == [d \in Device |-> IF d = a THEN ofA ELSE ofB]
TwoTwo == DrawsOf({a1, a2}, {b1, b2})
ThreeThree == DrawsOf({a1, a2, a3}, {b1, b2, b3})
TwoOne == DrawsOf({a1, a2}, {b1})
=============================================================================
