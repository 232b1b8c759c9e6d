----------------------------- MODULE SessionLife -----------------------------
(***************************************************************************)
(* The life of a Session as the values used next to it see it: made,       *)
(* started, ended with its last C thread, released.  Session implements    *)
(* it when no callback joins or drops its own Session; SessionClients is   *)
(* composed with it and need not know how Session does it.  The other      *)
(* owners of a C thread, Workers and DiscoveryService, implement it too.   *)
(***************************************************************************)

VARIABLE phase

Init == phase = "none"

(* Session::new: a failed init leaves nothing to release. *)
New == phase = "none" /\ phase' \in {"idle", "freed"}

(* start answers Ok: the C threads run. *)
Start == phase = "idle" /\ phase' = "running"

(* The last C thread ends. *)
End == phase = "running" /\ phase' = "ended"

(* Drop releases the ChiakiSession, never under a running thread. *)
Free == phase \in {"idle", "ended"} /\ phase' = "freed"

Next == New \/ Start \/ End \/ Free

Spec == Init /\ [][Next]_phase

=============================================================================
