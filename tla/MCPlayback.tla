------------------------------ MODULE MCPlayback ------------------------------
(* Small instances of PlaybackService for TLC. *)
EXTENDS PlaybackService, TLC

CONSTANTS t1, t2, d1, d2

(* Two bodies that differ in track and position: a mixture is neither, and *)
(* the table may refuse the position of one.                               *)
TwoBodies == {[track |-> t1, pos |-> 0, device |-> d1],
              [track |-> t2, pos |-> 1, device |-> d2]}

(* One body, for the runs where stamps alone tell sessions apart. *)
OneBody == {[track |-> t1, pos |-> 0, device |-> d1]}

(* Requests are interchangeable, and so are users: no action names one. *)
Symmetry == Permutations(Requests) \cup Permutations(Users)
=============================================================================
