----------------------------- MODULE MCChannel -----------------------------
EXTENDS Channel, TLC

MCCapacities == {0, 1, 2}

(* Slots of one kind, values and wakers are interchangeable. *)
MCSymmetry == Permutations(Senders) \cup Permutations(Receivers)
                \cup Permutations(Values) \cup Permutations(Wakers)
=============================================================================
