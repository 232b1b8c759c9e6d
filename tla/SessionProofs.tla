---------------------------- MODULE SessionProofs ----------------------------
(***************************************************************************)
(* Theorems about Session, for every value of its constants.               *)
(***************************************************************************)
EXTENDS Session, TLAPS

LEMMA TypeCorrectInit == Init => TypeOK
<1> SUFFICES ASSUME Init PROVE TypeOK
  OBVIOUS
<1>1. reply \in {"new", "start", "join"} \X {"ok", "err"}
  BY DEF Init
<1> QED
  BY <1>1, SessionAssumption DEF Init, TypeOK, MaybeClosure

LEMMA TypeCorrectStep == TypeOK /\ [Next]_vars => TypeOK'
<1> SUFFICES ASSUME TypeOK, [Next]_vars PROVE TypeOK'
  OBVIOUS
<1> USE SessionAssumption DEF TypeOK, MaybeClosure, api, fields, clib, threads
<1>1. CASE New
  BY <1>1 DEF New
<1>2. ASSUME NEW s \in Slots, NEW c \in Closures, SetCallback(s, c)
      PROVE TypeOK'
  BY <1>2 DEF SetCallback
<1>3. ASSUME NEW s \in Slots, FinishSet(s) PROVE TypeOK'
  BY <1>3 DEF FinishSet, DropBox, Replaced
<1>4. CASE Start
  <2>1. /\ reply' \in {"new", "start", "join"} \X {"ok", "err"}
        /\ at' \in [Threads -> {"off", "run", "wait", "in", "done"}]
    BY <1>4 DEF Start
  <2> QED
    BY <1>4, <2>1 DEF Start
<1>5. CASE Stop
  BY <1>5 DEF Stop, AskToStop
<1>6. CASE JoinEarly
  BY <1>6 DEF JoinEarly
<1>7. ASSUME NEW p \in Threads \cup {App}, JoinBegin(p) PROVE TypeOK'
  BY <1>7 DEF JoinBegin
<1>8. ASSUME NEW r \in {"ok", "err"}, JoinEnd(r) PROVE TypeOK'
  BY <1>8 DEF JoinEnd, JoinedAfter
<1>9. ASSUME NEW p \in Threads \cup {App}, DropStop(p) PROVE TypeOK'
  BY <1>9 DEF DropStop, AskToStop, AfterStop
<1>10. CASE DropSteps
  BY <1>10 DEF DropSteps, DropJoin, DropFini, DropDealloc, DropField,
               DropEnd, DropBox
<1>11. ASSUME NEW t \in Threads, NEW s \in Slots, Emit(t, s) PROVE TypeOK'
  BY <1>11 DEF Emit
<1>12. ASSUME NEW t \in Threads, Acquire(t) PROVE TypeOK'
  BY <1>12 DEF Acquire
<1>13. ASSUME NEW t \in Threads, NEW o \in {"returns", "panics"}, Return(t, o)
       PROVE TypeOK'
  BY <1>13 DEF Return, UnwindsPastGuard
<1>14. ASSUME NEW t \in Threads, Exit(t) PROVE TypeOK'
  BY <1>14 DEF Exit
<1>15. CASE UNCHANGED vars
  BY <1>15 DEF vars
<1> QED
  BY <1>1, <1>2, <1>3, <1>4, <1>5, <1>6, <1>7, <1>8, <1>9, <1>10, <1>11,
     <1>12, <1>13, <1>14, <1>15 DEF Next, Gone

(* Every reachable state is well typed (session.rs, all operations). *)
THEOREM TypeCorrect == Spec => []TypeOK
  BY TypeCorrectInit, TypeCorrectStep, PTL DEF Spec

-----------------------------------------------------------------------------
(* Ownership of the boxes, whatever the application does.                  *)

(* Two fields or locals never own the same box; only a set_* in progress   *)
(* has a local, and only one; C's pointer is the newest of the two.        *)
Owns(s, c) == held[s] = c \/ holder[s] = c

OwnerUnique ==
    /\ \A c \in Closures : (box[c] = "live") <=> (\E s \in Slots : Owns(s, c))
    /\ \A c \in Closures : \A s, u \in Slots : Owns(s, c) /\ Owns(u, c) => s = u
    /\ \A s \in Slots : held[s] # NoClosure => held[s] # holder[s]

HolderOnlyInSet ==
    /\ pc # "set" => \A s \in Slots : holder[s] = NoClosure
    /\ \A s, u \in Slots :
          holder[s] # NoClosure /\ holder[u] # NoClosure => s = u

NothingOutside ==
    pc \in {"none", "gone"} => \A s \in Slots : held[s] = NoClosure

UserFollows ==
    /\ mem = "init" => pc \in {"idle", "set", "join", "drop_join", "drop_fini"}
    /\ mem = "init" \/ pc = "none" =>
          \A s \in Slots :
             user[s] = IF holder[s] # NoClosure THEN holder[s] ELSE held[s]

OwnershipInv ==
    TypeOK /\ OwnerUnique /\ HolderOnlyInSet /\ NothingOutside /\ UserFollows

LEMMA OwnershipInit == Init => OwnershipInv
<1> SUFFICES ASSUME Init PROVE OwnershipInv
  OBVIOUS
<1>1. TypeOK
  BY TypeCorrectInit
<1> QED
  BY <1>1, SessionAssumption
  DEF Init, OwnershipInv, OwnerUnique, Owns, HolderOnlyInSet, NothingOutside,
      UserFollows

LEMMA OwnershipStep == OwnershipInv /\ [Next]_vars => OwnershipInv'
<1> SUFFICES ASSUME OwnershipInv, [Next]_vars PROVE OwnershipInv'
  OBVIOUS
<1>0. TypeOK'
  BY TypeCorrectStep DEF OwnershipInv
<1> USE SessionAssumption
    DEF OwnershipInv, TypeOK, MaybeClosure, OwnerUnique, Owns, HolderOnlyInSet,
        NothingOutside, UserFollows, api, fields, clib, threads
<1>1. CASE New
  BY <1>0, <1>1 DEF New
<1>2. ASSUME NEW s \in Slots, NEW c \in Closures, SetCallback(s, c)
      PROVE OwnershipInv'
  <2> USE <1>2 DEF SetCallback
  <2>1. \A u \in Slots : /\ holder[u] = NoClosure
                         /\ held[u] # c
    OBVIOUS
  <2>2. OwnerUnique'
    BY <2>1
  <2> QED
    BY <1>0, <2>1, <2>2
<1>3. ASSUME NEW s \in Slots, FinishSet(s) PROVE OwnershipInv'
  <2> USE <1>3 DEF FinishSet, DropBox, Replaced
  <2>1. \A u \in Slots : u # s => holder[u] = NoClosure
    OBVIOUS
  <2>2. OwnerUnique'
    BY <2>1
  <2> QED
    BY <1>0, <2>1, <2>2
<1>4. ASSUME NEW s \in Slots, DropField(s) PROVE OwnershipInv'
  <2> USE <1>4 DEF DropField, DropBox
  <2>1. OwnerUnique'
    OBVIOUS
  <2> QED
    BY <1>0, <2>1
<1>5. CASE DropJoin \/ DropFini \/ DropDealloc \/ DropEnd
  BY <1>0, <1>5 DEF DropJoin, DropFini, DropDealloc, DropEnd
<1>6. CASE Start \/ Stop \/ JoinEarly
  BY <1>0, <1>6 DEF Start, Stop, JoinEarly, AskToStop
<1>7. ASSUME NEW p \in Threads \cup {App}, JoinBegin(p) \/ DropStop(p)
      PROVE OwnershipInv'
  BY <1>0, <1>7 DEF JoinBegin, DropStop, AskToStop, AfterStop
<1>8. ASSUME NEW r \in {"ok", "err"}, JoinEnd(r) PROVE OwnershipInv'
  BY <1>0, <1>8 DEF JoinEnd
<1>9. ASSUME NEW t \in Threads,
             \/ Acquire(t) \/ Exit(t)
             \/ \E s \in Slots : Emit(t, s)
             \/ \E o \in {"returns", "panics"} : Return(t, o)
      PROVE OwnershipInv'
  BY <1>0, <1>9 DEF Acquire, Exit, Emit, Return
<1>10. CASE UNCHANGED vars
  BY <1>0, <1>10 DEF vars
<1> QED
  BY <1>1, <1>2, <1>3, <1>4, <1>5, <1>6, <1>7, <1>8, <1>9, <1>10
  DEF Next, DropSteps, Gone

LEMMA OwnershipHolds == Spec => []OwnershipInv
  BY OwnershipInit, OwnershipStep, PTL DEF Spec

(* A box is allocated exactly while one field or one set_* in progress     *)
(* owns it, and none is left when the Session is gone (util.rs 50-67, the  *)
(* assignments in set_*, the fields dropped after Drop).                   *)
THEOREM Ownership == Spec => []OwnedOnce
<1>1. OwnershipInv => OwnedOnce
  BY SessionAssumption
  DEF OwnershipInv, TypeOK, MaybeClosure, OwnerUnique, Owns, HolderOnlyInSet,
      NothingOutside, OwnedOnce, Owners
<1> QED
  BY <1>1, OwnershipHolds, PTL

(* C's pointers are live boxes while the ChiakiSession exists, late        *)
(* setters included (set_*: register first, drop the old box second).      *)
THEOREM Registered == Spec => []RegisteredLive
<1>1. OwnershipInv => RegisteredLive
  BY SessionAssumption
  DEF OwnershipInv, TypeOK, MaybeClosure, OwnerUnique, Owns, UserFollows,
      RegisteredLive
<1> QED
  BY <1>1, OwnershipHolds, PTL

-----------------------------------------------------------------------------
(* The flags and the threads, whatever the application does.               *)

ThreadsFollowFlags ==
    /\ \A t \in Threads : at[t] = "off" <=> ~started
    /\ at[SessionThread] = "done" => \A t \in Threads : at[t] = "done"
    /\ joined => started /\ at[SessionThread] = "done"
    /\ reply = <<"join", "ok">> => joined
    /\ poisoned = {}

FlagsInv == TypeOK /\ ThreadsFollowFlags

LEMMA FlagsInit == Init => FlagsInv
<1> SUFFICES ASSUME Init PROVE FlagsInv
  OBVIOUS
<1>1. TypeOK
  BY TypeCorrectInit
<1>2. reply # <<"join", "ok">>
  BY DEF Init
<1> QED
  BY <1>1, <1>2, SessionAssumption DEF Init, FlagsInv, ThreadsFollowFlags

LEMMA FlagsStep == FlagsInv /\ [Next]_vars => FlagsInv'
<1> SUFFICES ASSUME FlagsInv, [Next]_vars PROVE FlagsInv'
  OBVIOUS
<1>0. TypeOK'
  BY TypeCorrectStep DEF FlagsInv
<1> USE SessionAssumption
    DEF FlagsInv, TypeOK, ThreadsFollowFlags, api, fields, clib, threads
<1>1. CASE New
  BY <1>0, <1>1 DEF New
<1>2. ASSUME NEW s \in Slots, NEW c \in Closures, SetCallback(s, c)
      PROVE FlagsInv'
  BY <1>0, <1>2 DEF SetCallback
<1>3. ASSUME NEW s \in Slots, FinishSet(s) PROVE FlagsInv'
  BY <1>0, <1>3 DEF FinishSet
<1>4. CASE Start
  BY <1>0, <1>4 DEF Start, MayStart
<1>5. CASE Stop \/ JoinEarly
  BY <1>0, <1>5 DEF Stop, AskToStop, JoinEarly
<1>6. ASSUME NEW p \in Threads \cup {App}, JoinBegin(p) \/ DropStop(p)
      PROVE FlagsInv'
  BY <1>0, <1>6 DEF JoinBegin, DropStop, AskToStop
<1>7. ASSUME NEW r \in {"ok", "err"}, JoinEnd(r) PROVE FlagsInv'
  BY <1>0, <1>7 DEF JoinEnd, JoinedAfter, CJoinOk
<1>8. CASE DropSteps
  BY <1>0, <1>8 DEF DropSteps, DropJoin, DropFini, DropDealloc, DropField,
                    DropEnd
<1>9. ASSUME NEW t \in Threads, NEW s \in Slots, Emit(t, s) PROVE FlagsInv'
  BY <1>0, <1>9 DEF Emit
<1>10. ASSUME NEW t \in Threads, Acquire(t) PROVE FlagsInv'
  BY <1>0, <1>10 DEF Acquire
<1>11. ASSUME NEW t \in Threads, NEW o \in {"returns", "panics"}, Return(t, o)
       PROVE FlagsInv'
  BY <1>0, <1>11 DEF Return, UnwindsPastGuard
<1>12. ASSUME NEW t \in Threads, Exit(t) PROVE FlagsInv'
  BY <1>0, <1>12 DEF Exit
<1>13. CASE UNCHANGED vars
  BY <1>0, <1>13 DEF vars
<1> QED
  BY <1>1, <1>2, <1>3, <1>4, <1>5, <1>6, <1>7, <1>8, <1>9, <1>10, <1>11,
     <1>12, <1>13 DEF Next, Gone

LEMMA FlagsHold == Spec => []FlagsInv
  BY FlagsInit, FlagsStep, PTL DEF Spec

(* join says Ok only when every C thread has ended, and they stay ended:   *)
(* also when callbacks call join or drop (session.rs 336-350, 528).        *)
THEOREM JoinedMeansQuiet == Spec => []JoinOkMeansQuiet
<1>1. FlagsInv => JoinOkMeansQuiet
  BY SessionAssumption
  DEF FlagsInv, ThreadsFollowFlags, JoinOkMeansQuiet, Quiet, Alive
<1> QED
  BY <1>1, FlagsHold, PTL

(* No start, refused, failed or repeated, brings back a thread that has    *)
(* ended (session.rs 320-330).                                             *)
THEOREM StartsOnce == Spec => ThreadsStartOnce
<1>1. FlagsInv /\ [Next]_vars
        => [\A t \in Threads : at[t] = "done" => at'[t] = "done"]_vars
  <2> SUFFICES ASSUME FlagsInv, Next, NEW t \in Threads, at[t] = "done"
               PROVE  at'[t] = "done"
    OBVIOUS
  <2> USE SessionAssumption
      DEF FlagsInv, TypeOK, ThreadsFollowFlags, api, fields, clib, threads
  <2>1. CASE Start
    BY <2>1 DEF Start, MayStart
  <2>2. ASSUME NEW u \in Threads,
               \/ Acquire(u) \/ Exit(u)
               \/ \E s \in Slots : Emit(u, s)
               \/ \E o \in {"returns", "panics"} : Return(u, o)
        PROVE at'[t] = "done"
    BY <2>2 DEF Acquire, Exit, Emit, Return
  <2> QED
    BY <2>1, <2>2
    DEF Next, New, Stop, JoinEarly, DropSteps, DropJoin, DropFini, DropDealloc,
        DropEnd, DropField, FinishSet, SetCallback, JoinBegin, DropStop,
        JoinEnd, AskToStop, Gone, vars
<1> QED
  BY <1>1, FlagsHold, PTL DEF Spec, ThreadsStartOnce

(* A thread that waits for a closure's Mutex goes on to run the closure:   *)
(* no panic of an earlier call poisons it (the trampolines, 151-251).      *)
THEOREM CallsAreRun == Spec => NoCallSwallowed
<1>1. FlagsInv /\ [Next]_vars
        => [\A t \in Threads : at[t] = "wait" => at'[t] \in {"wait", "in"}]_vars
  <2> SUFFICES ASSUME FlagsInv, Next, NEW t \in Threads, at[t] = "wait"
               PROVE  at'[t] \in {"wait", "in"}
    OBVIOUS
  <2> USE SessionAssumption
      DEF FlagsInv, TypeOK, ThreadsFollowFlags, api, fields, clib, threads
  <2>1. CASE Start
    BY <2>1 DEF Start, MayStart
  <2>2. ASSUME NEW u \in Threads,
               \/ Acquire(u) \/ Exit(u)
               \/ \E s \in Slots : Emit(u, s)
               \/ \E o \in {"returns", "panics"} : Return(u, o)
        PROVE at'[t] \in {"wait", "in"}
    BY <2>2 DEF Acquire, Exit, Emit, Return
  <2> QED
    BY <2>1, <2>2
    DEF Next, New, Stop, JoinEarly, DropSteps, DropJoin, DropFini, DropDealloc,
        DropEnd, DropField, FinishSet, SetCallback, JoinBegin, DropStop,
        JoinEnd, AskToStop, Gone, vars
<1> QED
  BY <1>1, FlagsHold, PTL DEF Spec, NoCallSwallowed

-----------------------------------------------------------------------------
(* The call in progress and the C threads, whatever the application does.  *)

(* A callback that calls join or drop is still inside its closure; a call  *)
(* that waits for the threads has started them, and Drop has told them to  *)
(* stop; what Drop does after that, only the session thread can do while a *)
(* thread runs.                                                            *)
Releasing == pc \in {"drop_fini", "drop_dealloc", "drop_fields"}
Waiting   == pc \in {"join", "drop_join"}

CallerInv ==
    /\ caller \in Threads => at[caller] = "in"
    /\ pc \in {"none", "idle", "set"} => caller = App
    /\ Waiting => started
    /\ pc = "drop_join" => stopReq
    /\ Releasing => Quiet \/ caller = SessionThread
    /\ ~CallsFromCallback => caller = App /\ (pc = "gone" => Quiet)

MemoryInv ==
    /\ pc = "none" => mem = "none" /\ ~started
    /\ pc \in {"idle", "set", "join", "drop_join", "drop_fini"} => mem = "init"
    /\ pc = "drop_dealloc" => mem = "finished"
    /\ \A t \in Threads : InCall(t) => cb[t] \in Closures

StageInv == OwnershipInv /\ FlagsInv /\ CallerInv /\ MemoryInv

LEMMA StageInit == Init => StageInv
<1> SUFFICES ASSUME Init PROVE StageInv
  OBVIOUS
<1>1. OwnershipInv /\ FlagsInv
  BY OwnershipInit, FlagsInit
<1> QED
  BY <1>1, SessionAssumption
  DEF Init, StageInv, CallerInv, MemoryInv, Releasing, Waiting, Quiet, Alive,
      InCall

(* No step of the application's code moves a C thread. *)
LEMMA MemoryStep == StageInv /\ [Next]_vars => MemoryInv'
<1> SUFFICES ASSUME StageInv, [Next]_vars PROVE MemoryInv'
  OBVIOUS
<1> USE SessionAssumption
    DEF StageInv, FlagsInv, TypeOK, MaybeClosure, ThreadsFollowFlags, MemoryInv,
        InCall, api, fields, clib, threads
<1>1. CASE New \/ Stop \/ JoinEarly
  BY <1>1 DEF New, Stop, AskToStop, JoinEarly
<1>2. ASSUME NEW s \in Slots,
             FinishSet(s) \/ DropField(s) \/ \E c \in Closures : SetCallback(s, c)
      PROVE MemoryInv'
  BY <1>2 DEF FinishSet, DropField, SetCallback
<1>3. CASE Start
  BY <1>3 DEF Start, MayStart
<1>4. ASSUME NEW p \in Threads \cup {App}, JoinBegin(p) \/ DropStop(p)
      PROVE MemoryInv'
  BY <1>4 DEF JoinBegin, DropStop, AskToStop, AfterStop
<1>5. ASSUME NEW r \in {"ok", "err"}, JoinEnd(r) PROVE MemoryInv'
  BY <1>5 DEF JoinEnd
<1>6. CASE DropJoin \/ DropFini \/ DropDealloc \/ DropEnd
  BY <1>6 DEF DropJoin, DropFini, DropDealloc, DropEnd
<1>7. ASSUME NEW t \in Threads,
             \/ Acquire(t) \/ Exit(t)
             \/ \E s \in Slots : Emit(t, s)
             \/ \E o \in {"returns", "panics"} : Return(t, o)
      PROVE MemoryInv'
  BY <1>7 DEF Acquire, Exit, Emit, Return
<1>8. CASE UNCHANGED vars
  BY <1>8 DEF vars
<1> QED
  BY <1>1, <1>2, <1>3, <1>4, <1>5, <1>6, <1>7, <1>8 DEF Next, DropSteps, Gone

LEMMA CallerStep == StageInv /\ [Next]_vars => CallerInv'
<1> SUFFICES ASSUME StageInv, [Next]_vars PROVE CallerInv'
  OBVIOUS
<1> USE SessionAssumption
    DEF StageInv, FlagsInv, TypeOK, ThreadsFollowFlags, CallerInv, Releasing,
        Waiting, api, fields, clib, threads
<1>1. ASSUME at' = at PROVE Quiet' = Quiet
  BY <1>1 DEF Quiet, Alive
<1>2. CASE New \/ Stop \/ JoinEarly
  <2>1. at' = at
    BY <1>2 DEF New, Stop, JoinEarly
  <2>2. pc = "none" => Quiet
    BY DEF MemoryInv, Quiet, Alive
  <2> QED
    BY <1>1, <1>2, <2>1, <2>2 DEF New, Stop, AskToStop, JoinEarly
<1>3. ASSUME NEW s \in Slots,
             FinishSet(s) \/ DropField(s) \/ \E c \in Closures : SetCallback(s, c)
      PROVE CallerInv'
  <2>1. at' = at
    BY <1>3 DEF FinishSet, DropField, SetCallback
  <2> QED
    BY <1>1, <1>3, <2>1 DEF FinishSet, DropField, SetCallback
<1>4. CASE Start
  BY <1>4 DEF Start, MayStart
<1>5. ASSUME NEW p \in Threads \cup {App}, JoinBegin(p) PROVE CallerInv'
  <2>1. at' = at
    BY <1>5 DEF JoinBegin
  <2> QED
    BY <1>1, <1>5, <2>1 DEF JoinBegin, MayJoin, Callers
<1>6. ASSUME NEW p \in Threads \cup {App}, DropStop(p) PROVE CallerInv'
  <2>1. at' = at
    BY <1>6 DEF DropStop
  <2>2. ~started \/ joined => Quiet
    BY DEF Quiet, Alive
  <2> QED
    BY <1>1, <1>6, <2>1, <2>2 DEF DropStop, AskToStop, AfterStop, Callers
<1>7. ASSUME NEW r \in {"ok", "err"}, JoinEnd(r) PROVE CallerInv'
  BY <1>7 DEF JoinEnd
<1>8. CASE DropJoin
  <2>1. at' = at
    BY <1>8 DEF DropJoin
  <2>2. CJoinOk => Quiet
    BY DEF CJoinOk, Quiet, Alive
  <2> QED
    BY <1>1, <1>8, <2>1, <2>2 DEF DropJoin, CJoinErr
<1>9. CASE DropFini \/ DropDealloc
  <2>1. at' = at
    BY <1>9 DEF DropFini, DropDealloc
  <2> QED
    BY <1>1, <1>9, <2>1 DEF DropFini, DropDealloc
<1>10. CASE DropEnd
  <2>1. at' = at
    BY <1>10 DEF DropEnd
  <2> QED
    BY <1>1, <1>10, <2>1 DEF DropEnd
<1>11. ASSUME NEW t \in Threads,
              \/ Acquire(t) \/ Exit(t)
              \/ \E s \in Slots : Emit(t, s)
              \/ \E o \in {"returns", "panics"} : Return(t, o)
       PROVE CallerInv'
  <2>1. /\ UNCHANGED <<pc, caller, started, stopReq>>
        /\ Alive(t)
        /\ caller # t \/ at'[t] = "in" \/ at[t] # "in"
        /\ \A u \in Threads \ {t} : at'[u] = at[u]
    BY <1>11 DEF Acquire, Exit, Emit, Return, Alive
  <2>2. ~Quiet
    BY <2>1 DEF Quiet
  <2>3. caller = t => at'[t] = "in"
    BY <1>11, <2>1 DEF Acquire, Exit, Emit, Return
  <2> QED
    BY <2>1, <2>2, <2>3
<1>12. CASE UNCHANGED vars
  BY <1>1, <1>12 DEF vars
<1> QED
  BY <1>2, <1>3, <1>4, <1>5, <1>6, <1>7, <1>8, <1>9, <1>10, <1>11, <1>12
  DEF Next, DropSteps, Gone

LEMMA StageStep == StageInv /\ [Next]_vars => StageInv'
  BY OwnershipStep, FlagsStep, CallerStep, MemoryStep DEF StageInv

LEMMA StagesHold == Spec => []StageInv
  BY StageInit, StageStep, PTL DEF Spec

(* The only Drop that can take the ChiakiSession from a running thread is  *)
(* one that the session thread itself runs, in a callback: from any other  *)
(* thread Drop waits, and the application's own finds the threads ended    *)
(* (session.rs 522-535).                                                   *)
OnlySessionThreadReleasesEarly ==
    \A t \in Threads : Alive(t) /\ mem # "init" =>
        pc = "gone" \/ caller = SessionThread

(* Whatever the application does, Drop releases the ChiakiSession under a  *)
(* running thread only where it ignores join's error (session.rs 528-530). *)
THEOREM EarlyReleaseBySessionThread == Spec => []OnlySessionThreadReleasesEarly
<1>1. StageInv => OnlySessionThreadReleasesEarly
  <2> SUFFICES ASSUME StageInv, NEW t \in Threads, Alive(t), mem # "init",
                      pc # "gone"
               PROVE  caller = SessionThread
    BY DEF OnlySessionThreadReleasesEarly
  <2>1. ~Quiet
    BY DEF Quiet
  <2>2. started
    BY DEF StageInv, FlagsInv, ThreadsFollowFlags, Alive
  <2>3. Releasing
    BY <2>2 DEF StageInv, FlagsInv, TypeOK, MemoryInv, Releasing
  <2> QED
    BY <2>1, <2>3 DEF StageInv, CallerInv
<1> QED
  BY <1>1, StagesHold, PTL

(* A callback on any other thread that joins or drops its own Session      *)
(* never comes back: the session thread waits for that thread, and the     *)
(* call for the session thread (join, 336-350; Drop, 528-530).             *)
SelfWait == Waiting /\ caller \in Threads \ {SessionThread}

(* Such a call hangs for good, and the Session is never released (336-350).*)
THEOREM SelfWaitIsForever == Spec => [](SelfWait => []SelfWait)
<1>1. StageInv /\ SelfWait /\ [Next]_vars => SelfWait'
  <2> SUFFICES ASSUME StageInv, SelfWait, [Next]_vars PROVE SelfWait'
    OBVIOUS
  <2> USE SessionAssumption
      DEF SelfWait, Waiting, api, fields, clib, threads
  <2>1. ~CJoinOk /\ ~CJoinErr
    BY DEF StageInv, FlagsInv, ThreadsFollowFlags, CallerInv, CJoinOk, CJoinErr
  <2>2. CASE UNCHANGED <<pc, caller>>
    BY <2>2
  <2>3. ASSUME NEW t \in Threads,
               \/ Acquire(t) \/ Exit(t)
               \/ \E s \in Slots : Emit(t, s)
               \/ \E o \in {"returns", "panics"} : Return(t, o)
        PROVE UNCHANGED <<pc, caller>>
    BY <2>3 DEF Acquire, Exit, Emit, Return
  <2> QED
    BY <2>1, <2>2, <2>3
    DEF Next, New, Start, Stop, JoinEarly, JoinBegin, JoinEnd, DropStop,
        DropSteps, DropJoin, DropFini, DropDealloc, DropEnd, DropField,
        FinishSet, SetCallback, Gone, vars
<1> QED
  BY <1>1, StagesHold, PTL DEF Spec

-----------------------------------------------------------------------------
(* What an application gets that keeps join and drop out of its callbacks. *)
(* It may replace them while the threads run.                              *)

(* fini and dealloc come after the last C thread (the comment 525-526).    *)
THEOREM ThreadsEndBeforeFini ==
    ASSUME ~CallsFromCallback PROVE Spec => []SessionOutlivesThreads
<1>1. StageInv => SessionOutlivesThreads
  <2> SUFFICES ASSUME StageInv, NEW t \in Threads, Alive(t) PROVE mem = "init"
    BY DEF SessionOutlivesThreads
  <2>1. ~Quiet /\ started
    BY DEF StageInv, FlagsInv, ThreadsFollowFlags, Quiet, Alive
  <2>2. pc \in {"idle", "set", "join", "drop_join", "drop_fini"}
    BY <2>1, SessionAssumption
    DEF StageInv, FlagsInv, TypeOK, CallerInv, MemoryInv, Releasing
  <2> QED
    BY <2>2 DEF StageInv, MemoryInv
<1> QED
  BY <1>1, StagesHold, PTL

(* A join or a Drop that waits for the session thread never waits in vain: *)
(* it has ended, or a C thread can go on, out of its closure, into one     *)
(* whose Mutex is free, or to its end.  No cycle of threads, Mutexes and   *)
(* the waiting call blocks them all (join, 336-350; Drop, 524-530; the     *)
(* lock in the trampolines, 151-251).                                      *)
CanGoOn(t) ==
    \/ at[t] = "in" /\ caller # t
    \/ at[t] = "wait" /\ \A u \in Threads : at[u] = "in" => cb[u] # cb[t]
    \/ at[t] = "run" /\ (t = SessionThread =>
                            \A u \in Threads \ {SessionThread} : at[u] = "done")

NoDeadlock ==
    Waiting => at[SessionThread] = "done" \/ \E t \in Threads : CanGoOn(t)

(* Without join or drop in a callback, no join and no Drop waits in vain   *)
(* (session.rs 336-350, 524-530).                                          *)
THEOREM WaitIsServed == ASSUME ~CallsFromCallback PROVE Spec => []NoDeadlock
<1>1. StageInv => NoDeadlock
  <2> SUFFICES ASSUME StageInv, Waiting, at[SessionThread] # "done"
               PROVE  \E t \in Threads : CanGoOn(t)
    BY DEF NoDeadlock
  <2>1. SessionThread \in Threads /\ caller \notin Threads
    BY SessionAssumption DEF StageInv, CallerInv
  <2>2. CASE \E t \in Threads : at[t] = "in"
    BY <2>1, <2>2 DEF CanGoOn
  <2>3. CASE /\ \A t \in Threads : at[t] # "in"
             /\ \E t \in Threads : at[t] = "wait"
    BY <2>3 DEF CanGoOn
  <2>4. CASE \A t \in Threads : at[t] \notin {"in", "wait"}
    <3>1. \A t \in Threads : at[t] \in {"off", "run", "done"}
      BY <2>4 DEF StageInv, FlagsInv, TypeOK
    <3>2. \A t \in Threads : at[t] # "off"
      BY DEF StageInv, CallerInv, FlagsInv, ThreadsFollowFlags
    <3>3. CASE \E t \in Threads \ {SessionThread} : at[t] = "run"
      BY <3>3 DEF CanGoOn
    <3>4. CASE \A t \in Threads \ {SessionThread} : at[t] = "done"
      BY <2>1, <3>1, <3>2, <3>4 DEF CanGoOn
    <3> QED
      BY <3>1, <3>2, <3>3, <3>4
  <2> QED
    BY <2>2, <2>3, <2>4
<1> QED
  BY <1>1, StagesHold, PTL

(* Nothing but a set_* after start releases a box under a thread that is   *)
(* in it (the assignments in set_*, 410-476; the fields' drop, 533-535).   *)
OnlyLateSetReleases ==
    [][\A t \in Threads :
          InCall(t) /\ box[cb[t]] = "live" /\ box'[cb[t]] # "live"
             => pc = "set" /\ started]_vars

(* What the documentation asks of set_* (session.rs 255), to come before   *)
(* start, is all it takes: a late one is the only early release.           *)
THEOREM EarlyReleaseByLateSet ==
    ASSUME ~CallsFromCallback PROVE Spec => OnlyLateSetReleases
<1>1. StageInv /\ [Next]_vars
        => [\A t \in Threads :
               InCall(t) /\ box[cb[t]] = "live" /\ box'[cb[t]] # "live"
                  => pc = "set" /\ started]_vars
  <2> SUFFICES ASSUME StageInv, Next, NEW t \in Threads, InCall(t),
                      box[cb[t]] = "live", box'[cb[t]] # "live"
               PROVE  pc = "set" /\ started
    OBVIOUS
  <2> USE DEF StageInv, FlagsInv, TypeOK, ThreadsFollowFlags, InCall
  <2>1. cb[t] \in Closures /\ started /\ ~Quiet
    BY DEF MemoryInv, Quiet, Alive
  <2>2. ~\E s \in Slots : DropField(s)
    BY <2>1, SessionAssumption DEF DropField, CallerInv, Releasing
  <2>3. ASSUME NEW s \in Slots, FinishSet(s) PROVE pc = "set"
    BY <2>3 DEF FinishSet
  <2>4. ~\E s \in Slots, c \in Closures : SetCallback(s, c)
    BY <2>1 DEF SetCallback
  <2>5. box' # box
    OBVIOUS
  <2>6. ASSUME NEW u \in Threads,
               \/ Acquire(u) \/ Exit(u)
               \/ \E s \in Slots : Emit(u, s)
               \/ \E o \in {"returns", "panics"} : Return(u, o)
        PROVE box' = box
    BY <2>6 DEF Acquire, Exit, Emit, Return
  <2> QED
    BY <2>1, <2>2, <2>3, <2>4, <2>5, <2>6
    DEF Next, New, Start, Stop, JoinEarly, JoinBegin, JoinEnd, DropStop,
        DropSteps, DropJoin, DropFini, DropDealloc, DropEnd, Gone, vars
<1> QED
  BY <1>1, StagesHold, PTL DEF Spec, OnlyLateSetReleases

-----------------------------------------------------------------------------
(* What an application gets that respects all of the documented order:     *)
(* callbacks set before start (255), no join or drop from inside one.      *)

Contract == ~AppSetsLate /\ ~CallsFromCallback

HeldInv ==
    /\ pc = "set" => ~started
    /\ \A t \in Threads : InCall(t) => \E s \in Slots : held[s] = cb[t]

ContractInv == StageInv /\ HeldInv

LEMMA ContractStep == Contract /\ ContractInv /\ [Next]_vars => ContractInv'
<1> SUFFICES ASSUME Contract, ContractInv, [Next]_vars PROVE HeldInv'
  BY StageStep DEF ContractInv
<1> USE SessionAssumption
    DEF Contract, ContractInv, StageInv, FlagsInv, TypeOK, MaybeClosure,
        ThreadsFollowFlags, HeldInv, InCall, api, fields, clib, threads
<1>1. ASSUME NEW s \in Slots, NEW c \in Closures, SetCallback(s, c)
      PROVE HeldInv'
  BY <1>1 DEF SetCallback, MaySet
<1>2. ASSUME NEW s \in Slots, FinishSet(s) PROVE HeldInv'
  BY <1>2 DEF FinishSet
<1>3. CASE Start
  BY <1>3 DEF Start, MayStart
<1>4. ASSUME NEW s \in Slots, DropField(s) PROVE HeldInv'
  <2>1. Quiet
    BY <1>4 DEF DropField, CallerInv, Releasing
  <2> QED
    BY <1>4, <2>1 DEF DropField, Quiet, Alive
<1>5. ASSUME NEW t \in Threads, NEW s \in Slots, Emit(t, s) PROVE HeldInv'
  <2>1. started /\ ~Quiet
    BY <1>5 DEF Emit, Quiet, Alive
  <2>2. mem = "init" /\ pc # "set"
    BY <2>1 DEF CallerInv, MemoryInv, Releasing
  <2>3. held[s] = user[s]
    BY <2>2 DEF OwnershipInv, HolderOnlyInSet, UserFollows
  <2> QED
    BY <1>5, <2>2, <2>3 DEF Emit
<1>6. ASSUME NEW t \in Threads,
             Acquire(t) \/ Exit(t) \/ \E o \in {"returns", "panics"} : Return(t, o)
      PROVE HeldInv'
  BY <1>6 DEF Acquire, Exit, Return
<1>7. CASE New \/ Stop \/ JoinEarly
  BY <1>7 DEF New, Stop, AskToStop, JoinEarly
<1>8. ASSUME NEW p \in Threads \cup {App}, JoinBegin(p) \/ DropStop(p)
      PROVE HeldInv'
  BY <1>8 DEF JoinBegin, DropStop, AskToStop, AfterStop
<1>9. ASSUME NEW r \in {"ok", "err"}, JoinEnd(r) PROVE HeldInv'
  BY <1>9 DEF JoinEnd
<1>10. CASE DropJoin \/ DropFini \/ DropDealloc \/ DropEnd \/ UNCHANGED vars
  BY <1>10 DEF DropJoin, DropFini, DropDealloc, DropEnd, vars
<1> QED
  BY <1>1, <1>2, <1>3, <1>4, <1>5, <1>6, <1>7, <1>8, <1>9, <1>10
  DEF Next, DropSteps, Gone

LEMMA ContractHolds == Contract /\ Spec => []ContractInv
<1> SUFFICES ASSUME Contract PROVE Spec => []ContractInv
  OBVIOUS
<1>1. Init => ContractInv
  BY StageInit DEF Init, ContractInv, HeldInv, InCall
<1>2. ContractInv /\ [Next]_vars => ContractInv'
  BY ContractStep
<1> QED
  BY <1>1, <1>2, PTL DEF Spec

(* No C thread is ever inside a released closure (util.rs 5-6).            *)
THEOREM CallsReachLiveBoxes ==
    ASSUME Contract PROVE Spec => []BoxesOutliveCalls
<1>1. ContractInv => BoxesOutliveCalls
  BY SessionAssumption
  DEF ContractInv, StageInv, OwnershipInv, OwnerUnique, Owns, MemoryInv, HeldInv,
      BoxesOutliveCalls
<1> QED
  BY <1>1, ContractHolds, PTL

-----------------------------------------------------------------------------
(* The Session implements CallbackOwner: every step is a step of the       *)
(* abstract owner or leaves <<box, using>> alone.                          *)

LEMMA OwnerInit == Init => Owner!Init
  BY DEF Init, Owner!Init, using, InCall

LEMMA OwnerStep ==
    Contract /\ ContractInv /\ [Next]_vars => [Owner!Next]_<<box, using>>
<1> SUFFICES ASSUME Contract, ContractInv, [Next]_vars
             PROVE  [Owner!Next]_<<box, using>>
  OBVIOUS
<1> USE SessionAssumption
    DEF Contract, ContractInv, StageInv, OwnershipInv, FlagsInv, TypeOK,
        MaybeClosure, HeldInv, MemoryInv, api, fields, clib, threads
<1>1. ASSUME UNCHANGED <<at, cb>> PROVE UNCHANGED using
  BY <1>1 DEF using, InCall
<1>2. ASSUME NEW s \in Slots, NEW c \in Closures, SetCallback(s, c)
      PROVE  Owner!Create(c)
  BY <1>1, <1>2 DEF SetCallback, Owner!Create
<1>3. ASSUME NEW s \in Slots, DropBox(held[s]), UNCHANGED <<at, cb>>, Quiet
      PROVE  UNCHANGED <<box, using>> \/ \E c \in Closures : Owner!Release(c)
  <2>1. CASE held[s] = NoClosure
    BY <1>1, <1>3, <2>1 DEF DropBox
  <2>2. CASE held[s] # NoClosure
    <3>1. held[s] \in Closures /\ box[held[s]] = "live"
      BY <2>2 DEF OwnerUnique, Owns
    <3>2. \A t \in Threads : using[t] # held[s]
      BY <1>3, <2>2 DEF using, Quiet, Alive, InCall
    <3> QED
      BY <1>1, <1>3, <3>1, <3>2 DEF DropBox, Owner!Release
  <2> QED
    BY <2>1, <2>2
<1>4. ASSUME NEW s \in Slots, FinishSet(s) PROVE [Owner!Next]_<<box, using>>
  <2>1. Quiet
    BY <1>4 DEF FinishSet, ThreadsFollowFlags, Quiet, Alive
  <2> QED
    BY <1>3, <1>4, <2>1 DEF FinishSet, Replaced, Owner!Next
<1>5. ASSUME NEW s \in Slots, DropField(s) PROVE [Owner!Next]_<<box, using>>
  <2>1. Quiet
    BY <1>5 DEF DropField, CallerInv, Releasing
  <2> QED
    BY <1>3, <1>5, <2>1 DEF DropField, Owner!Next
<1>6. CASE Start
  <2>1. UNCHANGED using
    BY <1>6 DEF Start, MayStart, ThreadsFollowFlags, using, InCall
  <2> QED
    BY <1>6, <2>1 DEF Start
<1>7. ASSUME NEW t \in Threads, NEW s \in Slots, Emit(t, s)
      PROVE  Owner!Enter(t, user[s])
  <2>1. box[user[s]] = "live" /\ user[s] \in Closures
    <3>1. started /\ ~Quiet
      BY <1>7 DEF Emit, ThreadsFollowFlags, Quiet, Alive
    <3>2. mem = "init"
      BY <3>1 DEF CallerInv, Releasing
    <3> QED
      BY <1>7, <3>2 DEF Emit, UserFollows, OwnerUnique, Owns
  <2>2. using[t] = NoClosure
    BY <1>7 DEF Emit, using, InCall
  <2>3. using' = [using EXCEPT ![t] = user[s]]
    BY <1>7 DEF Emit, using, InCall
  <2> QED
    BY <1>7, <2>1, <2>2, <2>3 DEF Emit, Owner!Enter
<1>8. ASSUME NEW t \in Threads, Acquire(t) PROVE UNCHANGED <<box, using>>
  BY <1>8 DEF Acquire, ThreadsFollowFlags, using, InCall
<1>9. ASSUME NEW t \in Threads, NEW o \in {"returns", "panics"}, Return(t, o)
      PROVE  Owner!Leave(t)
  BY <1>9 DEF Return, using, InCall, Owner!Leave
<1>10. ASSUME NEW t \in Threads, Exit(t) PROVE UNCHANGED <<box, using>>
  BY <1>10 DEF Exit, using, InCall
<1>11. CASE New \/ Stop \/ JoinEarly
  BY <1>1, <1>11 DEF New, Stop, AskToStop, JoinEarly
<1>12. ASSUME NEW p \in Threads \cup {App}, JoinBegin(p) \/ DropStop(p)
       PROVE  UNCHANGED <<box, using>>
  BY <1>1, <1>12 DEF JoinBegin, DropStop, AskToStop
<1>13. ASSUME NEW r \in {"ok", "err"}, JoinEnd(r) PROVE UNCHANGED <<box, using>>
  BY <1>1, <1>13 DEF JoinEnd
<1>14. CASE DropJoin \/ DropFini \/ DropDealloc \/ DropEnd
  BY <1>1, <1>14 DEF DropJoin, DropFini, DropDealloc, DropEnd
<1>15. CASE UNCHANGED vars
  BY <1>1, <1>15 DEF vars
<1>16. ASSUME NEW t \in Threads, NEW s \in Slots, Emit(t, s)
       PROVE  Owner!Next
  <2>1. user[s] \in Closures
    BY <1>16 DEF Emit
  <2> QED
    BY <1>7, <1>16, <2>1 DEF Owner!Next
<1> QED
  BY <1>2, <1>4, <1>5, <1>6, <1>8, <1>9, <1>10, <1>11, <1>12, <1>13, <1>14,
     <1>15, <1>16 DEF Next, DropSteps, Gone, Owner!Next

(* An application that respects the contract gets from the Session what    *)
(* ErasedCallback promises for each closure (util.rs 3-6).                 *)
THEOREM ImplementsOwner ==
    ASSUME Contract PROVE Spec => OwnerSpec
<1>1. Init => Owner!Init
  BY OwnerInit
<1>2. ContractInv /\ [Next]_vars => [Owner!Next]_<<box, using>>
  BY OwnerStep
<1> QED
  BY <1>1, <1>2, ContractHolds, PTL DEF Spec, OwnerSpec, Owner!Spec, Owner!vars

-----------------------------------------------------------------------------
(* The Session implements SessionLife. *)

LEMMA LifeInit == Init => Life!Init
  BY DEF Init, Life!Init, phase

LEMMA LifeStep ==
    ~CallsFromCallback /\ StageInv /\ [Next]_vars => [Life!Next]_phase
<1> SUFFICES ASSUME ~CallsFromCallback, StageInv, [Next]_vars
             PROVE  [Life!Next]_phase
  OBVIOUS
<1> USE SessionAssumption
    DEF StageInv, FlagsInv, TypeOK, MaybeClosure, MemoryInv, api, fields, clib,
        threads
<1>1. ASSUME UNCHANGED <<mem, started, at>> PROVE UNCHANGED phase
  BY <1>1 DEF phase, Quiet, Alive
<1>2. CASE New
  <2>1. pc = "none" /\ mem = "none" /\ ~started /\ Quiet
    BY <1>2 DEF New, ThreadsFollowFlags, Quiet, Alive
  <2>2. started' = started /\ Quiet' /\ mem' \in {"none", "init", "freed"}
    BY <1>2, <2>1 DEF New, Quiet, Alive
  <2> QED
    BY <2>1, <2>2 DEF phase, Life!Next, Life!New
<1>3. CASE Start
  <2>1. CASE UNCHANGED <<started, at>>
    BY <1>1, <1>3, <2>1 DEF Start
  <2>2. CASE ~UNCHANGED <<started, at>>
    <3>1. mem = "init" /\ mem' = "init" /\ ~started
          /\ at' = [t \in Threads |-> "run"]
      BY <1>3, <2>2 DEF Start, MayStart
    <3>2. Quiet /\ ~Quiet'
      BY <3>1 DEF ThreadsFollowFlags, Quiet, Alive
    <3> QED
      BY <3>1, <3>2 DEF phase, Life!Next, Life!Start
  <2> QED
    BY <2>1, <2>2
<1>4. CASE DropFini
  <2>1. mem = "init" /\ Quiet /\ mem' = "finished"
    BY <1>4 DEF DropFini, CallerInv, Releasing
  <2> QED
    BY <2>1 DEF phase, Life!Next, Life!Free
<1>5. CASE DropDealloc
  <2>1. mem = "finished" /\ mem' = "freed"
    BY <1>5 DEF DropDealloc
  <2> QED
    BY <2>1 DEF phase
<1>6. ASSUME NEW t \in Threads, Exit(t) PROVE [Life!Next]_phase
  <2>1. ~Quiet /\ mem = "init" /\ mem' = mem /\ started /\ started' = started
    <3>1. started /\ ~Quiet
      BY <1>6 DEF Exit, ThreadsFollowFlags, Quiet, Alive
    <3> QED
      BY <1>6, <3>1 DEF Exit, CallerInv, Releasing
  <2> QED
    BY <2>1 DEF phase, Life!Next, Life!End
<1>7. ASSUME NEW t \in Threads,
             \/ Acquire(t)
             \/ \E s \in Slots : Emit(t, s)
             \/ \E o \in {"returns", "panics"} : Return(t, o)
      PROVE  UNCHANGED phase
  <2>1. /\ at[t] \in {"run", "wait", "in"} /\ at'[t] \in {"run", "wait", "in"}
        /\ mem' = mem
    BY <1>7 DEF Acquire, Emit, Return
  <2>2. ~Quiet /\ ~Quiet'
    BY <2>1 DEF Quiet, Alive
  <2> QED
    BY <2>1, <2>2 DEF phase
<1>8. ASSUME NEW s \in Slots, NEW c \in Closures, SetCallback(s, c)
      PROVE  UNCHANGED phase
  BY <1>1, <1>8 DEF SetCallback
<1>9. ASSUME NEW s \in Slots, FinishSet(s) \/ DropField(s)
      PROVE  UNCHANGED phase
  BY <1>1, <1>9 DEF FinishSet, DropField
<1>10. CASE Stop \/ JoinEarly \/ DropJoin \/ DropEnd \/ UNCHANGED vars
  BY <1>1, <1>10 DEF Stop, AskToStop, JoinEarly, DropJoin, DropEnd, vars
<1>11. ASSUME NEW p \in Threads \cup {App}, JoinBegin(p) \/ DropStop(p)
       PROVE  UNCHANGED phase
  BY <1>1, <1>11 DEF JoinBegin, DropStop, AskToStop
<1>12. ASSUME NEW r \in {"ok", "err"}, JoinEnd(r) PROVE UNCHANGED phase
  BY <1>1, <1>12 DEF JoinEnd
<1> QED
  BY <1>2, <1>3, <1>4, <1>5, <1>6, <1>7, <1>8, <1>9, <1>10, <1>11, <1>12
  DEF Next, DropSteps, Gone

(* An application that keeps join and drop out of its callbacks may take   *)
(* the Session for its SessionLife (session.rs 281-350, 522-535), as       *)
(* SessionClients does, late set_* included.                               *)
THEOREM ImplementsLife ==
    ASSUME ~CallsFromCallback PROVE Spec => LifeSpec
<1>1. Init => Life!Init
  BY LifeInit
<1>2. StageInv /\ [Next]_vars => [Life!Next]_phase
  BY LifeStep
<1> QED
  BY <1>1, <1>2, StagesHold, PTL DEF Spec, LifeSpec, Life!Spec

=============================================================================
