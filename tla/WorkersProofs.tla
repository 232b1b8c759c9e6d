---------------------------- MODULE WorkersProofs ----------------------------
(***************************************************************************)
(* Theorems about Workers, for any number of workers.                      *)
(***************************************************************************)
EXTENDS Workers, TLAPS

(* What each stage of a worker's life guarantees. *)
Heap(w) ==
    /\ pc[w] = "none" => mem[w] = "none" /\ box[w] = "unused"
    /\ pc[w] \in {"start", "up", "join", "joined"} => mem[w] = "live" /\ box[w] = "live"
    /\ pc[w] = "drop" =>
          box[w] = "live" /\ mem[w] = (IF has[w] THEN "live" ELSE "freed")
    /\ pc[w] = "fields" => mem[w] = "freed" /\ box[w] = "live"
    /\ pc[w] = "gone" => mem[w] = "freed" /\ box[w] = "freed"

Thread(w) ==
    /\ pc[w] \in {"none", "start"} => at[w] = "off"
    /\ pc[w] \in {"up", "join"} \/ (pc[w] = "drop" /\ has[w]) => at[w] # "off"
    /\ pc[w] \in {"joined", "fields"} \/ (pc[w] = "drop" /\ ~has[w]) => at[w] = "done"
    /\ pc[w] = "gone" => at[w] \in {"off", "done"}

Joins(w) ==
    /\ pc[w] = "up" => has[w]
    /\ has[w] => pc[w] \in {"up", "drop"}
    /\ joins[w] = IF \/ pc[w] \in {"joined", "fields"}
                     \/ pc[w] = "drop" /\ ~has[w]
                     \/ pc[w] = "gone" /\ at[w] # "off"
                  THEN 1 ELSE 0

(* The info's pointer is to the one string that is on the heap. *)
Info(w) ==
    /\ onlineId[w] = owned[w]
    /\ \A s \in Strings : str[w][s] = "live" <=> s = owned[w]
    /\ pc[w] = "gone" => owned[w] = NoString

WorkersInv ==
    TypeOK /\ \A w \in Workers : Heap(w) /\ Thread(w) /\ Joins(w) /\ Info(w)

LEMMA WorkersInit == Init => WorkersInv
  BY WorkersAssumption DEF Init, WorkersInv, TypeOK, Kinds, Heap, Thread, Joins,
                           Info

(* What InfoDrop and SetOnlineId do to the info of w, and to no other.     *)
LEMMA InfoDropped ==
    ASSUME NEW w \in Workers, TypeOK, \A v \in Workers : Info(v), InfoDrop(w)
    PROVE  /\ onlineId' \in [Workers -> Strings \cup {NoString}]
           /\ owned' \in [Workers -> Strings \cup {NoString}]
           /\ str' \in [Workers -> [Strings -> {"unused", "live", "freed"}]]
           /\ \A v \in Workers : /\ onlineId'[v] = owned'[v]
                                 /\ \A s \in Strings :
                                       str'[v][s] = "live" <=> s = owned'[v]
                                 /\ v # w => owned'[v] = owned[v]
           /\ owned'[w] = NoString
<1> USE WorkersAssumption DEF TypeOK, Info, InfoDrop
<1>1. /\ onlineId' \in [Workers -> Strings \cup {NoString}]
      /\ owned' \in [Workers -> Strings \cup {NoString}]
  OBVIOUS
<1>2. str' \in [Workers -> [Strings -> {"unused", "live", "freed"}]]
  OBVIOUS
<1>3. /\ owned'[w] = NoString /\ onlineId'[w] = NoString
      /\ \A s \in Strings : str'[w][s] # "live"
  OBVIOUS
<1>4. ASSUME NEW v \in Workers, v # w
      PROVE  owned'[v] = owned[v] /\ onlineId'[v] = onlineId[v] /\ str'[v] = str[v]
  BY <1>4
<1> QED
  BY <1>1, <1>2, <1>3, <1>4

LEMMA OnlineIdSet ==
    ASSUME NEW w \in Workers, NEW t \in Strings \cup {NoString},
           TypeOK, \A v \in Workers : Info(v), SetOnlineId(w, t)
    PROVE  /\ onlineId' \in [Workers -> Strings \cup {NoString}]
           /\ owned' \in [Workers -> Strings \cup {NoString}]
           /\ str' \in [Workers -> [Strings -> {"unused", "live", "freed"}]]
           /\ \A v \in Workers : Info(v)'
<1> USE WorkersAssumption DEF TypeOK, Info, SetOnlineId, PointerTo
<1>1. /\ onlineId' \in [Workers -> Strings \cup {NoString}]
      /\ owned' \in [Workers -> Strings \cup {NoString}]
  OBVIOUS
<1>2. str' \in [Workers -> [Strings -> {"unused", "live", "freed"}]]
  OBVIOUS
<1>3. /\ owned'[w] = t /\ onlineId'[w] = t
      /\ \A s \in Strings : str'[w][s] = "live" <=> s = t
  OBVIOUS
<1>4. ASSUME NEW v \in Workers, v # w
      PROVE  owned'[v] = owned[v] /\ onlineId'[v] = onlineId[v] /\ str'[v] = str[v]
  BY <1>4
<1> QED
  BY <1>1, <1>2, <1>3, <1>4

(* A step of worker w leaves the other workers as they are. *)
LEMMA WorkersStep == WorkersInv /\ [Next]_vars => WorkersInv'
<1> SUFFICES ASSUME WorkersInv, [Next]_vars PROVE WorkersInv'
  OBVIOUS
<1> USE DEF WorkersInv, TypeOK, Kinds, Heap, Thread, Joins, Info, info, Freed
<1>1. ASSUME NEW w \in Workers, StartBegin(w) PROVE WorkersInv'
  BY <1>1 DEF StartBegin, Goto
<1>2. ASSUME NEW w \in Workers, StartErr(w) PROVE WorkersInv'
  <2>1. /\ onlineId' \in [Workers -> Strings \cup {NoString}]
        /\ owned' \in [Workers -> Strings \cup {NoString}]
        /\ str' \in [Workers -> [Strings -> {"unused", "live", "freed"}]]
        /\ \A v \in Workers : /\ onlineId'[v] = owned'[v]
                              /\ \A s \in Strings :
                                    str'[v][s] = "live" <=> s = owned'[v]
                              /\ v # w => owned'[v] = owned[v]
        /\ owned'[w] = NoString
    <3> HIDE DEF TypeOK, Info
    <3> QED
      BY <1>2, InfoDropped DEF StartErr
  <2>2. pc' = [pc EXCEPT ![w] = "gone"]
    BY <1>2 DEF StartErr, Goto
  <2>3. \A v \in Workers : Info(v)'
    BY <2>1, <2>2
  <2>4. \A v \in Workers : Heap(v)' /\ Thread(v)' /\ Joins(v)'
    <3> HIDE DEF Info
    <3> QED
      BY <1>2 DEF StartErr, Goto
  <2>5. TypeOK'
    <3> HIDE DEF Info, Heap, Thread, Joins
    <3> QED
      BY <1>2, <2>1 DEF StartErr, Goto
  <2> QED
    BY <2>3, <2>4, <2>5 DEF WorkersInv
<1>3. ASSUME NEW w \in Workers, StartOk(w) PROVE WorkersInv'
  BY <1>3 DEF StartOk, Goto
<1>4. ASSUME NEW w \in Workers, RegistStop(w) PROVE WorkersInv'
  BY <1>4 DEF RegistStop, AskToStop
<1>5. ASSUME NEW w \in Workers, ThreadStop(w) PROVE WorkersInv'
  BY <1>5 DEF ThreadStop, Goto, Take, AskToStop
<1>6. ASSUME NEW w \in Workers, DropBegin(w) PROVE WorkersInv'
  BY <1>6 DEF DropBegin, Goto
<1>7. ASSUME NEW w \in Workers, DropEnds(w) PROVE WorkersInv'
  BY <1>7 DEF DropEnds, Goto, Take, AskToStop
<1>8. ASSUME NEW w \in Workers, DropNothing(w) PROVE WorkersInv'
  BY <1>8 DEF DropNothing, Goto
<1>9. ASSUME NEW w \in Workers, Join(w) PROVE WorkersInv'
  BY <1>9 DEF Join, Goto, ThreadJoined
<1>10. ASSUME NEW w \in Workers, FreeRaw(w) PROVE WorkersInv'
  BY <1>10 DEF FreeRaw, Goto
<1>11. ASSUME NEW w \in Workers, FreeFields(w) PROVE WorkersInv'
  <2>1. /\ onlineId' \in [Workers -> Strings \cup {NoString}]
        /\ owned' \in [Workers -> Strings \cup {NoString}]
        /\ str' \in [Workers -> [Strings -> {"unused", "live", "freed"}]]
        /\ \A v \in Workers : /\ onlineId'[v] = owned'[v]
                              /\ \A s \in Strings :
                                    str'[v][s] = "live" <=> s = owned'[v]
                              /\ v # w => owned'[v] = owned[v]
        /\ owned'[w] = NoString
    <3> HIDE DEF TypeOK, Info
    <3> QED
      BY <1>11, InfoDropped DEF FreeFields
  <2>2. pc' = [pc EXCEPT ![w] = "gone"]
    BY <1>11 DEF FreeFields, Goto
  <2>3. \A v \in Workers : Info(v)'
    BY <2>1, <2>2
  <2>4. \A v \in Workers : Heap(v)' /\ Thread(v)' /\ Joins(v)'
    <3> HIDE DEF Info
    <3> QED
      BY <1>11 DEF FreeFields, Goto
  <2>5. TypeOK'
    <3> HIDE DEF Info, Heap, Thread, Joins
    <3> QED
      BY <1>11, <2>1 DEF FreeFields, Goto
  <2> QED
    BY <2>3, <2>4, <2>5 DEF WorkersInv
<1>12. ASSUME NEW w \in Workers, Emit(w) \/ Return(w) \/ Exit(w)
       PROVE WorkersInv'
  <2>1. UNCHANGED <<kind, pc, has, mem, box, joins, stopReq, info>>
    BY <1>12 DEF Emit, Return, Exit, Become
  <2>2. \A v \in Workers : Info(v)'
    BY <2>1
  <2>3. at' \in [Workers -> {"off", "run", "in", "last", "done"}]
        /\ at[w] \in {"run", "in", "last"} /\ at'[w] # "off"
        /\ \A v \in Workers \ {w} : at'[v] = at[v]
    BY <1>12 DEF Emit, Return, Exit, Become
  <2> HIDE DEF Info
  <2> QED
    BY <2>1, <2>2, <2>3
<1>13. ASSUME NEW w \in Workers, NEW s \in Strings \cup {NoString}, SetOnlineId(w, s)
       PROVE WorkersInv'
  <2>1. /\ onlineId' \in [Workers -> Strings \cup {NoString}]
        /\ owned' \in [Workers -> Strings \cup {NoString}]
        /\ str' \in [Workers -> [Strings -> {"unused", "live", "freed"}]]
        /\ \A v \in Workers : Info(v)'
    <3> HIDE DEF TypeOK, Info
    <3> QED
      BY <1>13, OnlineIdSet
  <2>2. UNCHANGED <<kind, pc, has, mem, box, joins, at, stopReq>>
    BY <1>13 DEF SetOnlineId
  <2> HIDE DEF Info
  <2> QED
    BY <2>1, <2>2
<1>14. CASE UNCHANGED vars
  BY <1>14 DEF vars
<1> QED
  BY <1>1, <1>2, <1>3, <1>4, <1>5, <1>6, <1>7, <1>8, <1>9, <1>10, <1>11,
     <1>12, <1>13, <1>14 DEF Next, Finish, Gone

LEMMA WorkersHold == Spec => []WorkersInv
  BY WorkersInit, WorkersStep, PTL DEF Spec

(* Every reachable state is well typed. *)
THEOREM WorkersTypeCorrect == Spec => []TypeOK
<1>1. WorkersInv => TypeOK
  BY DEF WorkersInv
<1> QED
  BY <1>1, WorkersHold, PTL

(* The online id a registration thread reads is a live string of the info, *)
(* and no string that was replaced is left (regist.rs 41-55).              *)
THEOREM OnlineIdIsOwned == Spec => []OnlineIdOutlivesThread
<1>1. WorkersInv => OnlineIdOutlivesThread
  <2> SUFFICES ASSUME WorkersInv, NEW w \in Workers
               PROVE /\ Alive(w) /\ onlineId[w] # NoString
                           => str[w][onlineId[w]] = "live"
                     /\ \A s \in Strings : str[w][s] = "live" => s = owned[w]
                     /\ pc[w] = "gone" => owned[w] = NoString
    BY DEF OnlineIdOutlivesThread
  <2>1. Info(w) /\ onlineId[w] \in Strings \cup {NoString}
    BY DEF WorkersInv, TypeOK
  <2> QED
    BY <2>1 DEF Info
<1> QED
  BY <1>1, WorkersHold, PTL

(* C joins a thread once, whichever of stop and Drop ends the worker       *)
(* (discovery.rs 288-303, regist.rs 139-151).                              *)
THEOREM NeverJoinedTwice == Spec => []JoinedOnce
<1>1. WorkersInv => JoinedOnce
  <2> SUFFICES ASSUME WorkersInv, NEW w \in Workers
               PROVE /\ joins[w] <= 1
                     /\ pc[w] = "gone" /\ at[w] # "off" => joins[w] = 1
    BY DEF JoinedOnce
  <2>1. joins[w] = 0 \/ joins[w] = 1
    BY DEF WorkersInv, Joins
  <2>2. pc[w] = "gone" /\ at[w] # "off" => joins[w] = 1
    BY DEF WorkersInv, Joins
  <2> QED
    BY <2>1, <2>2
<1> QED
  BY <1>1, WorkersHold, PTL

(* The thread ends before the C object and the closure are released, and   *)
(* both are released (discovery.rs 257-303, regist.rs 116-151).            *)
THEOREM ThreadEndsBeforeRelease == Spec => []WorkerOutlivesThread
<1>1. WorkersInv => WorkerOutlivesThread
  <2> SUFFICES ASSUME WorkersInv, NEW w \in Workers
               PROVE /\ Alive(w) => mem[w] = "live" /\ box[w] = "live"
                     /\ pc[w] = "gone" => mem[w] = "freed" /\ box[w] = "freed"
    BY DEF WorkerOutlivesThread
  <2> QED
    BY DEF WorkersInv, TypeOK, Heap, Thread, Alive
<1> QED
  BY <1>1, WorkersHold, PTL

-----------------------------------------------------------------------------
(* Each worker implements CallbackOwner for its closure.                   *)

LEMMA WorkersOwnerStep ==
    WorkersInv /\ [Next]_vars => [Owner!Next]_<<box, using>>
<1> SUFFICES ASSUME WorkersInv, [Next]_vars PROVE [Owner!Next]_<<box, using>>
  OBVIOUS
<1> USE WorkersAssumption DEF WorkersInv, TypeOK
<1>1. ASSUME NEW w \in Workers, StartBegin(w) PROVE Owner!Next
  <2>1. Owner!Create(w)
    BY <1>1 DEF StartBegin, Goto, Heap, using, Owner!Create
  <2> QED
    BY <2>1 DEF Owner!Next
<1>2. ASSUME NEW w \in Workers, StartErr(w) \/ FreeFields(w) PROVE Owner!Next
  <2>1. box[w] = "live" /\ box' = Freed(box, w) /\ at' = at /\ at[w] # "in"
    BY <1>2 DEF StartErr, FreeFields, Goto, Heap, Thread
  <2>2. using' = using /\ \A t \in Workers : using[t] # w
    BY <2>1 DEF using
  <2>3. Owner!Release(w)
    BY <2>1, <2>2 DEF Freed, Owner!Release
  <2> QED
    BY <2>3 DEF Owner!Next
<1>3. ASSUME NEW w \in Workers, Emit(w) PROVE Owner!Next
  <2>1. at[w] = "run" /\ at' = [at EXCEPT ![w] = "in"] /\ box' = box
    BY <1>3 DEF Emit, Become
  <2>2. box[w] = "live"
    BY <2>1 DEF Heap, Thread
  <2>3. using[w] = NoClosure /\ using' = [using EXCEPT ![w] = w]
    BY <2>1 DEF using
  <2>4. Owner!Enter(w, w)
    BY <2>1, <2>2, <2>3 DEF Owner!Enter
  <2> QED
    BY <2>4 DEF Owner!Next
<1>4. ASSUME NEW w \in Workers, Return(w) PROVE Owner!Next
  <2>1. at[w] = "in" /\ at'[w] # "in" /\ box' = box
        /\ \A t \in Workers \ {w} : at'[t] = at[t]
    BY <1>4 DEF Return, Become
  <2>2. /\ using = [t \in Workers |-> IF at[t] = "in" THEN t ELSE NoClosure]
        /\ using' = [t \in Workers |-> IF at'[t] = "in" THEN t ELSE NoClosure]
    BY DEF using
  <2>3. using[w] # NoClosure
    BY <2>1, <2>2
  <2>4. \A t \in Workers : using'[t] = IF t = w THEN NoClosure ELSE using[t]
    BY <2>1, <2>2
  <2>5. using' = [using EXCEPT ![w] = NoClosure]
    BY <2>2, <2>4
  <2>6. Owner!Leave(w)
    BY <2>1, <2>3, <2>5 DEF Owner!Leave
  <2> QED
    BY <2>6 DEF Owner!Next
<1>5. ASSUME NEW w \in Workers, StartOk(w) \/ Exit(w)
      PROVE UNCHANGED <<box, using>>
  <2>1. box' = box /\ at[w] # "in" /\ at'[w] # "in"
        /\ \A t \in Workers \ {w} : at'[t] = at[t]
    BY <1>5 DEF StartOk, Exit, Become, Goto, Thread
  <2> QED
    BY <2>1 DEF using
<1>6. ASSUME NEW w \in Workers,
             \/ RegistStop(w) \/ ThreadStop(w) \/ DropBegin(w) \/ DropEnds(w)
             \/ DropNothing(w) \/ Join(w) \/ FreeRaw(w)
      PROVE UNCHANGED <<box, using>>
  BY <1>6 DEF RegistStop, ThreadStop, DropBegin, DropEnds, DropNothing, Join,
              FreeRaw, using
<1>7. ASSUME NEW w \in Workers, NEW s \in Strings \cup {NoString}, SetOnlineId(w, s)
      PROVE UNCHANGED <<box, using>>
  BY <1>7 DEF SetOnlineId, using
<1>8. CASE UNCHANGED vars
  BY <1>8 DEF vars, using
<1> QED
  BY <1>1, <1>2, <1>3, <1>4, <1>5, <1>6, <1>7, <1>8 DEF Next, Finish, Gone

(* No closure is entered before it exists or after it is released          *)
(* (util.rs 3-6, for both kinds of worker).                                *)
THEOREM WorkersImplementOwner == Spec => OwnerSpec
<1>1. Init => Owner!Init
  BY DEF Init, Owner!Init, using
<1>2. WorkersInv /\ [Next]_vars => [Owner!Next]_<<box, using>>
  BY WorkersOwnerStep
<1> QED
  BY <1>1, <1>2, WorkersHold, PTL DEF Spec, OwnerSpec, Owner!Spec, Owner!vars

-----------------------------------------------------------------------------
(* Each worker's life is the one SessionLife promises for a Session.       *)

phase ==
    [w \in Workers |->
       IF pc[w] = "none" THEN "none"
       ELSE IF mem[w] = "freed" THEN "freed"
       ELSE IF at[w] = "off" THEN "idle"
       ELSE IF at[w] = "done" THEN "ended" ELSE "running"]

Life(w) == INSTANCE SessionLife WITH phase <- phase[w]

(* A step of worker v, seen from worker w. *)
LEMMA WorkersLifeStep ==
    ASSUME NEW w \in Workers, WorkersInv, [Next]_vars
    PROVE  [Life(w)!Next]_(phase[w])
<1> USE WorkersAssumption DEF WorkersInv, TypeOK, Freed, phase
<1>1. ASSUME NEW v \in Workers, StartBegin(v)
      PROVE  Life(w)!New \/ phase'[w] = phase[w]
  BY <1>1 DEF StartBegin, Goto, Heap, Thread, Life!New
<1>2. ASSUME NEW v \in Workers, StartErr(v)
      PROVE  Life(w)!Free \/ phase'[w] = phase[w]
  BY <1>2 DEF StartErr, Goto, Heap, Thread, Life!Free
<1>3. ASSUME NEW v \in Workers, StartOk(v)
      PROVE  Life(w)!Start \/ phase'[w] = phase[w]
  BY <1>3 DEF StartOk, Goto, Heap, Thread, Life!Start
<1>4. ASSUME NEW v \in Workers, FreeRaw(v)
      PROVE  Life(w)!Free \/ phase'[w] = phase[w]
  BY <1>4 DEF FreeRaw, Goto, Heap, Thread, Life!Free
<1>5. ASSUME NEW v \in Workers, Exit(v)
      PROVE  Life(w)!End \/ phase'[w] = phase[w]
  <2>1. at[v] \in {"run", "last"} /\ at' = [at EXCEPT ![v] = "done"]
        /\ pc' = pc /\ mem' = mem
    BY <1>5 DEF Exit, Become
  <2>2. pc[v] # "none" /\ mem[v] # "freed"
    BY <2>1 DEF Heap, Thread
  <2> QED
    BY <2>1, <2>2 DEF Life!End
<1>6. ASSUME NEW v \in Workers, Emit(v) \/ Return(v)
      PROVE  phase'[w] = phase[w]
  BY <1>6 DEF Emit, Return, Become
<1>7. ASSUME NEW v \in Workers,
             \/ RegistStop(v) \/ ThreadStop(v) \/ DropBegin(v) \/ DropEnds(v)
             \/ DropNothing(v) \/ Join(v) \/ FreeFields(v)
      PROVE  phase'[w] = phase[w]
  BY <1>7 DEF RegistStop, ThreadStop, DropBegin, DropEnds, DropNothing, Join,
              FreeFields, Goto
<1>8. ASSUME NEW v \in Workers, NEW s \in Strings \cup {NoString},
             SetOnlineId(v, s)
      PROVE  phase'[w] = phase[w]
  BY <1>8 DEF SetOnlineId
<1>9. CASE UNCHANGED vars
  BY <1>9 DEF vars
<1> QED
  BY <1>1, <1>2, <1>3, <1>4, <1>5, <1>6, <1>7, <1>8, <1>9
  DEF Next, Finish, Gone, Life!Next

(* The raw object is made once, its thread runs once, and it is released   *)
(* only before a thread or after its end, however starts, stops and drops  *)
(* follow each other (discovery.rs 257-303, regist.rs 116-151).             *)
THEOREM WorkersImplementLife ==
    ASSUME NEW w \in Workers PROVE Spec => Life(w)!Spec
<1>1. Init => Life(w)!Init
  BY DEF Init, Life!Init, phase
<1>2. WorkersInv /\ [Next]_vars => [Life(w)!Next]_(phase[w])
  BY WorkersLifeStep
<1> QED
  BY <1>1, <1>2, WorkersHold, PTL DEF Spec, Life!Spec

(* A call that waits for the thread waits for one that can end: it is in a *)
(* closure, on its way out, gone, or has been told to stop.  DropTerminates*)
(* is this and fairness (discovery.rs 288-303, regist.rs 139-151).         *)
WaitIsServed ==
    \A w \in Workers : pc[w] = "join" =>
        \/ at[w] \in {"in", "last", "done"}
        \/ at[w] = "run" /\ stopReq[w]

Asked == \A w \in Workers : pc[w] = "join" => stopReq[w]

LEMMA AskedStep == WorkersInv /\ Asked /\ [Next]_vars => Asked'
<1> SUFFICES ASSUME WorkersInv, Asked, [Next]_vars, NEW w \in Workers,
                    pc'[w] = "join"
             PROVE  stopReq'[w]
  BY DEF Asked
<1> USE DEF WorkersInv, TypeOK, Asked
<1>1. ASSUME NEW v \in Workers,
             \/ StartBegin(v) \/ StartErr(v) \/ StartOk(v) \/ DropBegin(v)
             \/ DropNothing(v) \/ Join(v) \/ FreeRaw(v) \/ FreeFields(v)
      PROVE  stopReq'[w]
  BY <1>1 DEF StartBegin, StartErr, StartOk, DropBegin, DropNothing, Join,
              FreeRaw, FreeFields, Goto
<1>2. ASSUME NEW v \in Workers, RegistStop(v) \/ ThreadStop(v) \/ DropEnds(v)
      PROVE  stopReq'[w]
  BY <1>2 DEF RegistStop, ThreadStop, DropEnds, AskToStop, Goto
<1>3. ASSUME NEW v \in Workers, Emit(v) \/ Return(v) \/ Exit(v)
      PROVE  stopReq'[w]
  BY <1>3 DEF Emit, Return, Exit, Become
<1>4. ASSUME NEW v \in Workers, NEW s \in Strings \cup {NoString},
             SetOnlineId(v, s)
      PROVE  stopReq'[w]
  BY <1>4 DEF SetOnlineId
<1>5. CASE UNCHANGED vars
  BY <1>5 DEF vars
<1> QED
  BY <1>1, <1>2, <1>3, <1>4, <1>5 DEF Next, Finish, Gone

(* stop and Drop never wait for a thread that goes on for ever             *)
(* (discovery.rs 288-303, regist.rs 139-151).                              *)
THEOREM WaitForEndingThread == Spec => []WaitIsServed
<1>1. Init => Asked
  BY DEF Init, Asked
<1>2. WorkersInv /\ Asked => WaitIsServed
  BY DEF WorkersInv, TypeOK, Thread, Asked, WaitIsServed
<1> QED
  BY <1>1, <1>2, AskedStep, WorkersHold, PTL DEF Spec

=============================================================================
