------------------------------ MODULE HandleLife ------------------------------
(***************************************************************************)
(* The life of one holepunch handle, as whoever opens it is promised it:   *)
(* owned by a Rust value, released with it or given to C, and by C released*)
(* once.  A handle given to C and then forgotten on the way is lost: open, *)
(* and nobody will ever release it.  HandleOwnership implements it.        *)
(***************************************************************************)

VARIABLE state

Init == state = "unused"

(* HolepunchSession::open, and its Drop. *)
Open == state = "unused" /\ state' = "rust"
Drop == state = "rust" /\ state' = "released"

(* ConnectInfo::set_holepunch_session. *)
Give == state = "rust" /\ state' = "c"

(* C's session releases what it was given, in a failed init or in fini.    *)
Release == state = "c" /\ state' = "released"

(* The ConnectInfo is dropped, or given another handle, before C had it.   *)
Lose == state = "c" /\ state' = "lost"

Next == Open \/ Drop \/ Give \/ Release \/ Lose

Spec == Init /\ [][Next]_state

=============================================================================
