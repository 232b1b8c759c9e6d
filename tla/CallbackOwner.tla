---------------------------- MODULE CallbackOwner ----------------------------
(***************************************************************************)
(* What an ErasedCallback (src/src/util.rs 43-67) promises to the owner    *)
(* and to the C library: the heap box `Box<Mutex<F>>` behind a C `user`    *)
(* pointer exists before any C thread is inside it and is released, once,  *)
(* only when no thread is inside it.                                       *)
(*                                                                         *)
(* This is the abstract specification; Session, DiscoveryService, Workers  *)
(* and the decoder of SessionClients are shown to implement it.  It says   *)
(* nothing about how the owner makes sure that Release is never early: the *)
(* owners differ in that.                                                  *)
(***************************************************************************)

CONSTANTS Closures,    \* the boxes the program may allocate
          Threads,     \* the threads of the C library
          NoClosure    \* "this thread is not inside any closure"

VARIABLES box,      \* box[c]: not allocated yet, allocated, or released
          using     \* using[t]: the closure thread t dereferences

vars == <<box, using>>

TypeOK ==
    /\ box \in [Closures -> {"unused", "live", "freed"}]
    /\ using \in [Threads -> Closures \cup {NoClosure}]

Init ==
    /\ box = [c \in Closures |-> "unused"]
    /\ using = [t \in Threads |-> NoClosure]

(* ErasedCallback::new: Box::into_raw of a fresh box. *)
Create(c) ==
    /\ box[c] = "unused"
    /\ box' = [box EXCEPT ![c] = "live"]
    /\ UNCHANGED using

(* A C thread calls the trampoline, which turns `user` into a reference. *)
Enter(t, c) ==
    /\ using[t] = NoClosure
    /\ box[c] = "live"
    /\ using' = [using EXCEPT ![t] = c]
    /\ UNCHANGED box

Leave(t) ==
    /\ using[t] # NoClosure
    /\ using' = [using EXCEPT ![t] = NoClosure]
    /\ UNCHANGED box

(* Drop for ErasedCallback: Box::from_raw and drop. *)
Release(c) ==
    /\ box[c] = "live"
    /\ \A t \in Threads : using[t] # c
    /\ box' = [box EXCEPT ![c] = "freed"]
    /\ UNCHANGED using

Next ==
    \/ \E c \in Closures : Create(c) \/ Release(c)
    \/ \E t \in Threads : Leave(t) \/ \E c \in Closures : Enter(t, c)

Spec == Init /\ [][Next]_vars

=============================================================================
