-------------------------- MODULE CallbackOwnerProofs --------------------------
(***************************************************************************)
(* What CallbackOwner is worth to whoever refines it: Session, Workers,    *)
(* DiscoveryService and the decoder of SessionClients get what is proved   *)
(* here with the refinement, for any boxes and threads.                    *)
(***************************************************************************)
EXTENDS CallbackOwner, TLAPS

(* Release is not early: the box of every trampoline under way is there.   *)
UsedIsLive == \A t \in Threads : using[t] # NoClosure => box[using[t]] = "live"

OwnerInv == TypeOK /\ UsedIsLive

LEMMA OwnerInit == Init => OwnerInv
  BY DEF Init, OwnerInv, TypeOK, UsedIsLive

LEMMA OwnerStep == OwnerInv /\ [Next]_vars => OwnerInv'
<1> SUFFICES ASSUME OwnerInv, [Next]_vars PROVE OwnerInv'
  OBVIOUS
<1> USE DEF OwnerInv, TypeOK, UsedIsLive
<1>1. ASSUME NEW b \in Closures, Create(b) PROVE OwnerInv'
  BY <1>1 DEF Create
<1>2. ASSUME NEW b \in Closures, Release(b) PROVE OwnerInv'
  BY <1>2 DEF Release
<1>3. ASSUME NEW t \in Threads, Leave(t) PROVE OwnerInv'
  BY <1>3 DEF Leave
<1>4. ASSUME NEW t \in Threads, NEW b \in Closures, Enter(t, b) PROVE OwnerInv'
  BY <1>4 DEF Enter
<1>5. CASE UNCHANGED vars
  BY <1>5 DEF vars
<1> QED
  BY <1>1, <1>2, <1>3, <1>4, <1>5 DEF Next

LEMMA OwnerHolds == Spec => []OwnerInv
  BY OwnerInit, OwnerStep, PTL DEF Spec

(* A trampoline never dereferences a box that is not there yet or no       *)
(* longer (util.rs 43-67).                                                 *)
THEOREM UsedBoxIsLive == Spec => []UsedIsLive
<1>1. OwnerInv => UsedIsLive
  BY DEF OwnerInv
<1> QED
  BY <1>1, OwnerHolds, PTL

(* A box is released at most once: nothing follows its Drop (62-67).       *)
THEOREM ReleasedForEver ==
    ASSUME NEW b \in Closures
    PROVE  Spec => [](box[b] = "freed" => [](box[b] = "freed"))
<1>1. OwnerInv /\ [Next]_vars /\ box[b] = "freed" => (box[b] = "freed")'
  <2> SUFFICES ASSUME OwnerInv, [Next]_vars, box[b] = "freed"
               PROVE  box'[b] = "freed"
    OBVIOUS
  <2> QED
    BY DEF OwnerInv, TypeOK, Next, Create, Release, Enter, Leave, vars
<1> QED
  BY <1>1, OwnerHolds, PTL DEF Spec

=============================================================================
