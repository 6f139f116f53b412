---------------------------- MODULE MCIntakeGates ----------------------------
(* Instances of IntakeGates for TLC: one required and one optional field.  *)
EXTENDS IntakeGates, TLC

Rec(t, need, opt) ==
    [shape |-> "plain", time |-> "set", timestamp |-> t,
     fields |-> [f \in Fields |-> IF f \in Required THEN need ELSE opt]]

Good == [size |-> 2, records |-> <<Rec(1, "plain", "null"), Rec(2, "plain", "plain")>>]
Disordered == [size |-> 2, records |-> <<Rec(2, "plain", "absent"), Rec(1, "plain", "plain")>>]
Repeated == [size |-> 2, records |-> <<Rec(1, "plain", "plain"), Rec(1, "plain", "plain")>>]
Incomplete == [size |-> 1, records |-> <<Rec(1, "null", "plain")>>]
NoRecords == [size |-> 1, records |-> << >>]
TooLarge == [size |-> 3, records |-> <<Rec(1, "plain", "plain")>>]
MCContents == {Good, Disordered, Repeated, Incomplete, NoRecords, TooLarge}
MCTampered == {Good, Disordered}
MCSymmetry == Permutations(Requests)
=============================================================================
