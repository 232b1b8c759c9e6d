------------------------------ MODULE MCSession ------------------------------
(* Instances of Session for TLC. *)
EXTENDS Session, TLC

(* Boxes are interchangeable, and so are callback fields and the threads   *)
(* other than the session thread.  Only for runs without liveness.         *)
Symmetry ==
    Permutations(Closures) \cup Permutations(Slots)
        \cup Permutations(Threads \ {SessionThread})

=============================================================================
