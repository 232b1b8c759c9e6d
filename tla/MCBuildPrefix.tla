---------------------------- MODULE MCBuildPrefix ----------------------------
(* Instances of BuildPrefix for TLC. *)
EXTENDS BuildPrefix

CONSTANTS v1, v2

MCHeaders == {"common.h", "session.h", "rudp.h"}

(* The second version has dropped a header. *)
MCHeadersOf ==
    [v \in {v1, v2} |->
        IF v = v1 THEN MCHeaders ELSE {"common.h", "session.h"}]

=============================================================================
