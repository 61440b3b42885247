-------------------------- MODULE MCSharedChannel --------------------------
(***************************************************************************)
(* The shared and the plain channel with its streams, for TLC: programs    *)
(* with two senders, and programs with two receivers.  Every slot is a     *)
(* task of its own, with its own waker.                                    *)
(***************************************************************************)
EXTENDS SharedChannel, TLC

CONSTANTS s1, s2, r1, r2, w1, w2, w3, w4

MCSenders == {s1, s2}
MCReceivers == {r1, r2}
MCWakers == {w1, w2, w3, w4}
MCWakersOf == s1 :> {w1} @@ s2 :> {w2} @@ r1 :> {w3} @@ r2 :> {w4}
MCPrograms == {{s1, s2, r1}, {s1, r1, r2}}
=============================================================================
