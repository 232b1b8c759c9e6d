------------------------ MODULE DiscoveryServiceProofs ------------------------
(***************************************************************************)
(* Theorems about DiscoveryService, for every set of host strings.         *)
(***************************************************************************)
EXTENDS DiscoveryService, TLAPS

(* What each stage of the service's life guarantees; the only string       *)
(* allocated is the one the options own.                                   *)
LiveIsOwned == \A h \in Hosts : str[h] = "live" <=> h = own

Stages ==
    /\ pc \in {"build", "new"} =>
          raw = own /\ twice = {} /\ at = "off" /\ result = "none"
    /\ pc = "build" => box = "unused"
    /\ pc \in {"new", "give", "up", "drop_fini", "drop_dealloc", "drop_fields"}
          => box = "live"
    /\ pc \in {"give", "up", "drop_fini"} => mem = "init" /\ at # "off"
    /\ pc \in {"drop_dealloc", "drop_fields"} => at = "done"
    /\ pc \in {"up", "drop_fini", "drop_dealloc", "drop_fields", "gone"} => own = Null
    /\ pc = "gone" => box = "freed" /\ at \in {"off", "done"}
    /\ result = "err" => pc = "gone" /\ at = "off" /\ mem # "init" /\ twice = {}

ServiceInv == TypeOK /\ LiveIsOwned /\ Stages

LEMMA ServiceInit == Init => ServiceInv
  BY DiscoveryAssumption
  DEF Init, ServiceInv, TypeOK, MaybeHost, LiveIsOwned, Stages

LEMMA ServiceStep == ServiceInv /\ [Next]_vars => ServiceInv'
<1> SUFFICES ASSUME ServiceInv, [Next]_vars PROVE ServiceInv'
  OBVIOUS
<1> USE DiscoveryAssumption
    DEF ServiceInv, TypeOK, MaybeHost, LiveIsOwned, Stages, options, strings,
        Free, Released, Again
<1>1. ASSUME NEW n \in {"zero", "some"}, SetHostsMax(n) PROVE ServiceInv'
  BY <1>1 DEF SetHostsMax
<1>2. ASSUME NEW h \in Hosts, SetSendHost(h) PROVE ServiceInv'
  <2> USE <1>2 DEF SetSendHost, PointerTo
  <2>1. twice' = {}
    OBVIOUS
  <2>2. LiveIsOwned'
    OBVIOUS
  <2> QED
    BY <2>1, <2>2
<1>3. CASE NewBegin
  BY <1>3 DEF NewBegin
<1>4. CASE NewErr
  <2> USE <1>4 DEF NewErr, OnFailure
  <2>1. twice' = {}
    OBVIOUS
  <2>2. LiveIsOwned'
    OBVIOUS
  <2> QED
    BY <2>1, <2>2
<1>5. CASE NewOk
  BY <1>5 DEF NewOk
<1>6. CASE GiveHost
  BY <1>6 DEF GiveHost
<1>7. CASE DropBegin
  BY <1>7 DEF DropBegin, AskToStop
<1>8. CASE DropFini
  BY <1>8 DEF DropFini, ThreadJoined
<1>9. CASE DropDealloc
  BY <1>9 DEF DropDealloc
<1>10. CASE DropFields
  BY <1>10 DEF DropFields
<1>11. CASE Ping \/ PingDone \/ Emit \/ Return \/ Exit
  BY <1>11 DEF Ping, PingDone, Emit, Return, Exit, Become
<1>12. CASE UNCHANGED vars
  BY <1>12 DEF vars
<1> QED
  BY <1>1, <1>2, <1>3, <1>4, <1>5, <1>6, <1>7, <1>8, <1>9, <1>10, <1>11, <1>12
  DEF Next, Finish, Gone

LEMMA ServiceHolds == Spec => []ServiceInv
  BY ServiceInit, ServiceStep, PTL DEF Spec

(* Every reachable state is well typed. *)
THEOREM ServiceTypeCorrect == Spec => []TypeOK
<1>1. ServiceInv => TypeOK
  BY DEF ServiceInv
<1> QED
  BY <1>1, ServiceHolds, PTL

(* A refused `new` releases what it was given, once (discovery.rs 404-429).*)
THEOREM RefusalIsClean == Spec => []RefusalReleasesAll
<1>1. ServiceInv => RefusalReleasesAll
  BY DiscoveryAssumption
  DEF ServiceInv, TypeOK, LiveIsOwned, Stages, RefusalReleasesAll
<1> QED
  BY <1>1, ServiceHolds, PTL

(* The builder's pointer is null or its own string (discovery.rs 311).     *)
THEOREM BuilderOwns == Spec => []BuilderPointsToOwned
<1>1. ServiceInv => BuilderPointsToOwned
  BY DiscoveryAssumption
  DEF ServiceInv, TypeOK, MaybeHost, LiveIsOwned, Stages, BuilderPointsToOwned
<1> QED
  BY <1>1, ServiceHolds, PTL

(* Drop joins the thread before it releases anything (444-451).            *)
THEOREM ThreadEndsFirst == Spec => []ServiceOutlivesThread
<1>1. ServiceInv => ServiceOutlivesThread
  BY DiscoveryAssumption
  DEF ServiceInv, TypeOK, LiveIsOwned, Stages, ServiceOutlivesThread
<1> QED
  BY <1>1, ServiceHolds, PTL

-----------------------------------------------------------------------------
(* The service implements CallbackOwner for its one closure and thread.    *)

using == [t \in {Svc} |-> IF at = "in" THEN Cb ELSE NoClosure]
boxes == [c \in {Cb} |-> box]

LEMMA ServiceOwnerStep ==
    ServiceInv /\ [Next]_vars => [Owner!Next]_<<boxes, using>>
<1> SUFFICES ASSUME ServiceInv, [Next]_vars PROVE [Owner!Next]_<<boxes, using>>
  OBVIOUS
<1> USE DiscoveryAssumption
    DEF ServiceInv, TypeOK, Stages, boxes, using, options, strings
<1>1. CASE NewBegin
  BY <1>1 DEF NewBegin, Owner!Next, Owner!Create
<1>2. CASE NewErr \/ DropFields
  <2>1. box = "live" /\ box' = "freed" /\ at # "in" /\ at' = at
    BY <1>2 DEF NewErr, DropFields
  <2> QED
    BY <2>1 DEF Owner!Next, Owner!Release
<1>3. CASE Emit
  <2>1. box = "live"
    BY <1>3 DEF Emit, Become
  <2> QED
    BY <1>3, <2>1 DEF Emit, Become, Owner!Next, Owner!Enter
<1>4. CASE Return
  BY <1>4 DEF Return, Become, Owner!Next, Owner!Leave
<1>5. CASE \/ \E n \in {"zero", "some"} : SetHostsMax(n)
           \/ \E h \in Hosts : SetSendHost(h)
           \/ GiveHost \/ DropBegin \/ DropFini \/ DropDealloc
  BY <1>5 DEF SetHostsMax, SetSendHost, GiveHost, DropBegin, DropFini,
              DropDealloc
<1>6. CASE NewOk \/ Ping \/ PingDone \/ Exit
  BY <1>6 DEF NewOk, Ping, PingDone, Exit, Become
<1>7. CASE UNCHANGED vars
  BY <1>7 DEF vars
<1> QED
  BY <1>1, <1>2, <1>3, <1>4, <1>5, <1>6, <1>7 DEF Next, Finish, Gone

(* The closure is never entered before it exists nor after its release     *)
(* (discovery.rs 408-451, util.rs 3-6).                                    *)
THEOREM ServiceImplementsOwner == Spec => OwnerSpec
<1>1. Init => Owner!Init
  BY DEF Init, Owner!Init, boxes, using
<1>2. ServiceInv /\ [Next]_vars => [Owner!Next]_<<boxes, using>>
  BY ServiceOwnerStep
<1> QED
  BY <1>1, <1>2, ServiceHolds, PTL
  DEF Spec, OwnerSpec, Owner!Spec, Owner!vars, boxes, using

-----------------------------------------------------------------------------
(* The service's life is the one SessionLife promises for a Session.       *)

phase ==
    IF pc = "build" THEN "none"
    ELSE IF pc = "gone" \/ mem \in {"finished", "freed"} THEN "freed"
    ELSE IF at = "off" THEN "idle"
    ELSE IF at = "done" THEN "ended" ELSE "running"

Life == INSTANCE SessionLife

(* Before init no C service is there, and after Drop's fini none is used.  *)
Memory ==
    /\ pc \in {"build", "new"} => mem = "none"
    /\ pc \in {"drop_dealloc", "drop_fields"} => mem \in {"finished", "freed"}

LEMMA MemoryStep == ServiceInv /\ Memory /\ [Next]_vars => Memory'
<1> SUFFICES ASSUME ServiceInv, Memory, [Next]_vars PROVE Memory'
  OBVIOUS
<1> USE DEF Memory
<1>1. CASE \/ \E n \in {"zero", "some"} : SetHostsMax(n)
           \/ \E h \in Hosts : SetSendHost(h)
           \/ NewBegin \/ NewErr \/ NewOk \/ GiveHost
           \/ DropBegin \/ DropFini \/ DropDealloc \/ DropFields
  BY <1>1 DEF SetHostsMax, SetSendHost, NewBegin, NewErr, NewOk, GiveHost,
              DropBegin, DropFini, DropDealloc, DropFields
<1>2. CASE Ping \/ PingDone \/ Emit \/ Return \/ Exit
  BY <1>2 DEF Ping, PingDone, Emit, Return, Exit, Become
<1>3. CASE UNCHANGED vars
  BY <1>3 DEF vars
<1> QED
  BY <1>1, <1>2, <1>3 DEF Next, Finish, Gone

LEMMA MemoryHolds == Spec => []Memory
<1>1. Init => Memory
  BY DEF Init, Memory
<1> QED
  BY <1>1, MemoryStep, ServiceHolds, PTL DEF Spec

LEMMA ServiceLifeStep ==
    ServiceInv /\ Memory /\ [Next]_vars => [Life!Next]_phase
<1> SUFFICES ASSUME ServiceInv, Memory, [Next]_vars PROVE [Life!Next]_phase
  OBVIOUS
<1> USE DEF ServiceInv, TypeOK, Stages, Memory, phase
<1>1. CASE \/ \E n \in {"zero", "some"} : SetHostsMax(n)
           \/ \E h \in Hosts : SetSendHost(h)
  BY <1>1 DEF SetHostsMax, SetSendHost
<1>2. CASE NewBegin
  BY <1>2 DEF NewBegin, Life!Next, Life!New
<1>3. CASE NewErr
  BY <1>3 DEF NewErr, Life!Next, Life!Free
<1>4. CASE NewOk
  BY <1>4 DEF NewOk, Life!Next, Life!Start
<1>5. CASE GiveHost \/ DropBegin \/ DropDealloc \/ DropFields
  BY <1>5 DEF GiveHost, DropBegin, DropDealloc, DropFields
<1>6. CASE DropFini
  BY <1>6 DEF DropFini, ThreadJoined, Life!Next, Life!Free
<1>7. CASE Exit
  <2>1. at = "run" /\ at' = "done" /\ UNCHANGED <<pc, mem>>
    BY <1>7 DEF Exit, Become
  <2>2. pc \in {"give", "up", "drop_fini"}
    BY <2>1
  <2> QED
    BY <2>1, <2>2 DEF Life!Next, Life!End
<1>8. CASE Ping \/ PingDone \/ Emit \/ Return
  BY <1>8 DEF Ping, PingDone, Emit, Return, Become
<1>9. CASE UNCHANGED vars
  BY <1>9 DEF vars
<1> QED
  BY <1>1, <1>2, <1>3, <1>4, <1>5, <1>6, <1>7, <1>8, <1>9
  DEF Next, Finish, Gone

(* The C service is made once, its thread runs once, and fini releases what*)
(* it holds only when that thread has ended (discovery.rs 404-451).        *)
THEOREM ServiceImplementsLife == Spec => Life!Spec
<1>1. Init => Life!Init
  BY DEF Init, Life!Init, phase
<1>2. ServiceInv /\ Memory /\ [Next]_vars => [Life!Next]_phase
  BY ServiceLifeStep
<1> QED
  BY <1>1, <1>2, ServiceHolds, MemoryHolds, PTL DEF Spec, Life!Spec

-----------------------------------------------------------------------------
(* What becomes of the string handed to C; HostBelongsToC, which is what   *)
(* the code means, does not hold.                                          *)

(* `_send_host = None` releases the string that C keeps: from `new` on, a  *)
(* service with a send_host pings with a pointer to a released string, and *)
(* fini releases it again.  Without one nothing is released twice.         *)
HostIsReleasedTwice ==
    /\ pc \in {"up", "drop_fini"} /\ cHost # Null => str[cHost] = "freed"
    /\ pc \in {"drop_dealloc", "drop_fields"} \/ (pc = "gone" /\ result = "ok")
          => twice = {cHost} \ {Null}
    /\ twice \subseteq {cHost} \ {Null}

(* C's pointer is the one the options owned when init was called.          *)
Given ==
    /\ pc \in {"build", "new"} \/ result = "err" => cHost = Null
    /\ pc = "give" => cHost = own
    /\ pc \in {"give", "up", "drop_fini"} => twice = {}
    /\ HostIsReleasedTwice

LEMMA GivenStep == ServiceInv /\ Given /\ [Next]_vars => Given'
<1> SUFFICES ASSUME ServiceInv, Given, [Next]_vars PROVE Given'
  OBVIOUS
<1> USE DiscoveryAssumption
    DEF ServiceInv, TypeOK, MaybeHost, LiveIsOwned, Stages, Given,
        HostIsReleasedTwice, options, strings, Free, Released, Again
<1>1. CASE \E n \in {"zero", "some"} : SetHostsMax(n)
  BY <1>1 DEF SetHostsMax
<1>2. ASSUME NEW h \in Hosts, SetSendHost(h) PROVE Given'
  <2>1. own # Null => str[own] = "live"
    OBVIOUS
  <2>2. twice' = {} /\ pc' = "build" /\ cHost' = Null /\ result' = "none"
    BY <1>2, <2>1 DEF SetSendHost
  <2> QED
    BY <2>2
<1>3. CASE NewBegin
  BY <1>3 DEF NewBegin
<1>4. CASE NewErr
  <2>1. own # Null => str[own] = "live"
    OBVIOUS
  <2>2. twice' = {} /\ pc' = "gone" /\ cHost' = Null /\ result' = "err"
    BY <1>4, <2>1 DEF NewErr, OnFailure
  <2> QED
    BY <2>2
<1>5. CASE NewOk
  BY <1>5 DEF NewOk
<1>6. CASE GiveHost
  <2>1. own # Null => str[own] = "live"
    OBVIOUS
  <2>2. twice' = {} /\ pc' = "up" /\ cHost' = own /\ result' = result
        /\ (own # Null => str'[own] = "freed")
    BY <1>6, <2>1 DEF GiveHost
  <2> QED
    BY <2>2
<1>7. CASE DropBegin
  BY <1>7 DEF DropBegin
<1>8. CASE DropFini
  <2>1. twice' = {cHost} \ {Null}
    BY <1>8 DEF DropFini
  <2> QED
    BY <1>8, <2>1 DEF DropFini
<1>9. CASE DropDealloc
  BY <1>9 DEF DropDealloc
<1>10. CASE DropFields
  <2>1. twice' = twice
    BY <1>10 DEF DropFields
  <2> QED
    BY <1>10, <2>1 DEF DropFields
<1>11. CASE Ping \/ PingDone \/ Emit \/ Return \/ Exit
  BY <1>11 DEF Ping, PingDone, Emit, Return, Exit, Become
<1>12. CASE UNCHANGED vars
  BY <1>12 DEF vars
<1> QED
  BY <1>1, <1>2, <1>3, <1>4, <1>5, <1>6, <1>7, <1>8, <1>9, <1>10, <1>11, <1>12
  DEF Next, Finish, Gone

(* No order of calls escapes it: every service that is given a send_host   *)
(* goes on with a released string and releases it a second time in Drop    *)
(* (discovery.rs 430-432 with 444-451).                                    *)
THEOREM SendHostAlwaysFreedTwice == Spec => []HostIsReleasedTwice
<1>1. Init => Given
  BY DEF Init, Given, HostIsReleasedTwice
<1>2. Given => HostIsReleasedTwice
  BY DEF Given
<1> QED
  BY <1>1, <1>2, GivenStep, ServiceHolds, PTL DEF Spec

-----------------------------------------------------------------------------

(* Drop waits for a thread that has been told to stop: it is in a ping or a*)
(* closure, gone, or free to go (discovery.rs 444-451).  DropTerminates is *)
(* this and fairness.                                                      *)
WaitIsServed ==
    pc = "drop_fini" => stopReq /\ at \in {"run", "ping", "in", "done"}

(* Drop never waits for a thread that was not told to stop (444-451).      *)
THEOREM DropIsServed == Spec => []WaitIsServed
<1>1. Init => (pc = "drop_fini" => stopReq)
  BY DEF Init
<1>2. (pc = "drop_fini" => stopReq) /\ [Next]_vars => (pc = "drop_fini" => stopReq)'
  BY DEF Next, Finish, SetHostsMax, SetSendHost, NewBegin, NewErr, NewOk,
         GiveHost, DropBegin, AskToStop, DropFini, DropDealloc, DropFields,
         Ping, PingDone, Emit, Return, Exit, Become, Gone, vars
<1>3. ServiceInv /\ (pc = "drop_fini" => stopReq) => WaitIsServed
  BY DEF ServiceInv, TypeOK, Stages, WaitIsServed
<1> QED
  BY <1>1, <1>2, <1>3, ServiceHolds, PTL DEF Spec

=============================================================================
