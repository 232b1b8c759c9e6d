------------------------ MODULE HandleOwnershipProofs ------------------------
(***************************************************************************)
(* Theorems about HandleOwnership, for any number of logs, handles and     *)
(* sessions.                                                               *)
(***************************************************************************)
EXTENDS HandleOwnership, TLAPS

(* ReleasedOnce is not inductive: that no released handle is released      *)
(* again rests on where the handles are (HandleOfOne).                     *)
UnusedIsEmpty == \A i \in Infos : info[i] = "unused" => infoHp[i] = None

(* Only a Session that was built has borrowed a log. *)
BuiltBorrows ==
    \A i \in Infos : info[i] \in {"unused", "built"} => sesLog[i] = None

HandleInv ==
    TypeOK /\ HandleOfOne /\ ReleasedOnce /\ UnusedIsEmpty /\ BuiltBorrows

LEMMA HandleInit == Init => HandleInv
  BY HandleAssumption
  DEF Init, HandleInv, TypeOK, HandleOfOne, Holds, ReleasedOnce, UnusedIsEmpty,
      BuiltBorrows

LEMMA HandleStep == HandleInv /\ [Next]_vars => HandleInv'
<1> SUFFICES ASSUME HandleInv, [Next]_vars PROVE HandleInv'
  OBVIOUS
<1> USE HandleAssumption
    DEF HandleInv, TypeOK, HandleOfOne, Holds, ReleasedOnce, UnusedIsEmpty,
      BuiltBorrows, Fini
<1>1. ASSUME NEW l \in Logs, LogNew(l) \/ LogDrop(l) PROVE HandleInv'
  BY <1>1 DEF LogNew, LogDrop
<1>2. ASSUME NEW h \in Handles, NEW l \in Logs, Open(h, l) PROVE HandleInv'
  BY <1>2 DEF Open
<1>3. ASSUME NEW h \in Handles, HandleDrop(h) PROVE HandleInv'
  BY <1>3 DEF HandleDrop
<1>4. ASSUME NEW i \in Infos, InfoNew(i) PROVE HandleInv'
  BY <1>4 DEF InfoNew
<1>5. ASSUME NEW i \in Infos, InfoDrop(i) PROVE HandleInv'
  BY <1>5 DEF InfoDrop
<1>6. ASSUME NEW i \in Infos, NEW h \in Handles, Inject(i, h) PROVE HandleInv'
  BY <1>6 DEF Inject, Forget
<1>7. ASSUME NEW i \in Infos, NEW l \in Logs, SessionNew(i, l) PROVE HandleInv'
  BY <1>7 DEF SessionNew, AfterRefusal
<1>8. ASSUME NEW i \in Infos, SessionDrop(i) PROVE HandleInv'
  BY <1>8 DEF SessionDrop, FiniSession
<1>9. CASE UNCHANGED vars
  BY <1>9 DEF vars
<1> QED
  BY <1>1, <1>2, <1>3, <1>4, <1>5, <1>6, <1>7, <1>8, <1>9 DEF Next

LEMMA HandleHolds == Spec => []HandleInv
  BY HandleInit, HandleStep, PTL DEF Spec

(* Every reachable state is well typed. *)
THEOREM HandleTypeCorrect == Spec => []TypeOK
<1>1. HandleInv => TypeOK
  BY DEF HandleInv
<1> QED
  BY <1>1, HandleHolds, PTL

(* A handle is never released twice, and the one a Session was built with  *)
(* is released with it, whatever the application does with its handles,    *)
(* infos and sessions (holepunch.rs 67-71, connect.rs 121-131).            *)
THEOREM ReleasedExactlyOnce == Spec => []ReleasedOnce
  BY HandleHolds, PTL DEF HandleInv

(* A ConnectInfo or a Session holds an open handle that is its own.        *)
THEOREM HandleIsOpenAndUnique == Spec => []HandleOfOne
  BY HandleHolds, PTL DEF HandleInv

-----------------------------------------------------------------------------
(* One handle's life, in the states of HandleLife.                         *)

state == [h \in Handles |-> IF Lost(h) THEN "lost" ELSE hp[h]]

Life(h) == INSTANCE HandleLife WITH state <- state[h]

(* A step on one handle leaves the others where they are; what a step on a *)
(* ConnectInfo or a Session does to a handle depends on who held it.       *)
LEMMA LifeStep ==
    ASSUME NEW h \in Handles, HandleInv, [Next]_vars
    PROVE  [Life(h)!Next]_(state[h])
<1> USE HandleAssumption DEF HandleInv, TypeOK, HandleOfOne, Holds, Fini, Lost
<1>1. ASSUME NEW l \in Logs, LogNew(l) \/ LogDrop(l) PROVE state'[h] = state[h]
  BY <1>1 DEF LogNew, LogDrop, state
<1>2. ASSUME NEW k \in Handles, NEW l \in Logs, Open(k, l)
      PROVE  Life(h)!Open \/ state'[h] = state[h]
  BY <1>2 DEF Open, state, Life!Open
<1>3. ASSUME NEW k \in Handles, HandleDrop(k)
      PROVE  Life(h)!Drop \/ state'[h] = state[h]
  BY <1>3 DEF HandleDrop, state, Life!Drop
<1>4. ASSUME NEW i \in Infos, InfoNew(i) PROVE state'[h] = state[h]
  BY <1>4 DEF InfoNew, UnusedIsEmpty, state
<1>5. ASSUME NEW i \in Infos, InfoDrop(i)
      PROVE  Life(h)!Lose \/ state'[h] = state[h]
  BY <1>5 DEF InfoDrop, state, Life!Lose
<1>6. ASSUME NEW i \in Infos, NEW k \in Handles, Inject(i, k)
      PROVE  Life(h)!Give \/ Life(h)!Lose \/ state'[h] = state[h]
  BY <1>6 DEF Inject, Forget, state, Life!Give, Life!Lose
<1>7. ASSUME NEW i \in Infos, NEW l \in Logs, SessionNew(i, l)
      PROVE  Life(h)!Release \/ state'[h] = state[h]
  BY <1>7 DEF SessionNew, AfterRefusal, state, Life!Release
<1>8. ASSUME NEW i \in Infos, SessionDrop(i)
      PROVE  Life(h)!Release \/ state'[h] = state[h]
  BY <1>8 DEF SessionDrop, FiniSession, state, Life!Release
<1>9. CASE UNCHANGED vars
  BY <1>9 DEF vars, state
<1> QED
  BY <1>1, <1>2, <1>3, <1>4, <1>5, <1>6, <1>7, <1>8, <1>9
  DEF Next, Life!Next

(* Each handle is opened, dropped, given to C and released once and in this*)
(* order, whatever becomes of the ConnectInfo it went through; the one way *)
(* out is to be lost, from where nothing brings it back (holepunch.rs      *)
(* 67-71, connect.rs 121-131).                                             *)
THEOREM HandlesImplementLife ==
    ASSUME NEW h \in Handles PROVE Spec => Life(h)!Spec
<1>1. Init => Life(h)!Init
  BY DEF Init, Life!Init, state, Lost
<1>2. HandleInv /\ [Next]_vars => [Life(h)!Next]_(state[h])
  BY LifeStep
<1> QED
  BY <1>1, <1>2, HandleHolds, PTL DEF Spec, Life!Spec

(* Once lost, a handle stays open for ever: no later ConnectInfo, Session  *)
(* or Drop releases it (connect.rs 129).                                   *)
THEOREM LostForEver ==
    ASSUME NEW h \in Handles
    PROVE  Spec => [](state[h] = "lost" => [](state[h] = "lost"))
<1>1. HandleInv /\ [Next]_vars /\ state[h] = "lost" => state'[h] = "lost"
  BY LifeStep
  DEF Life!Next, Life!Open, Life!Drop, Life!Give, Life!Release, Life!Lose
<1>2. HandleInv /\ [Next]_vars /\ state[h] = "lost" => (state[h] = "lost")'
  BY <1>1
<1> QED
  BY <1>2, HandleHolds, PTL DEF Spec

(* Where a handle that a step loses was.                                   *)
LEMMA LossStep ==
    ASSUME HandleInv, [Next]_vars, NEW h \in Handles, ~Lost(h), Lost(h)'
    PROVE  \E i \in Infos : info[i] = "built" /\ infoHp[i] = h
<1> USE HandleAssumption DEF HandleInv, TypeOK, HandleOfOne, Holds, Fini, Lost
<1>1. ASSUME NEW l \in Logs, LogNew(l) \/ LogDrop(l) PROVE FALSE
  BY <1>1 DEF LogNew, LogDrop
<1>2. ASSUME NEW k \in Handles, NEW l \in Logs, Open(k, l) PROVE FALSE
  BY <1>2 DEF Open
<1>3. ASSUME NEW k \in Handles, HandleDrop(k) PROVE FALSE
  BY <1>3 DEF HandleDrop
<1>4. ASSUME NEW i \in Infos, InfoNew(i) PROVE FALSE
  BY <1>4 DEF InfoNew, UnusedIsEmpty
<1>5. ASSUME NEW i \in Infos, InfoDrop(i)
      PROVE  info[i] = "built" /\ infoHp[i] = h
  BY <1>5 DEF InfoDrop
<1>6. ASSUME NEW i \in Infos, NEW k \in Handles, Inject(i, k)
      PROVE  info[i] = "built" /\ infoHp[i] = h
  BY <1>6 DEF Inject, Forget
<1>7. ASSUME NEW i \in Infos, NEW l \in Logs, SessionNew(i, l) PROVE FALSE
  BY <1>7 DEF SessionNew, AfterRefusal
<1>8. ASSUME NEW i \in Infos, SessionDrop(i) PROVE FALSE
  BY <1>8 DEF SessionDrop, FiniSession
<1>9. CASE UNCHANGED vars
  BY <1>9 DEF vars
<1> QED
  BY <1>1, <1>2, <1>3, <1>4, <1>5, <1>6, <1>7, <1>8, <1>9 DEF Next

(* What nobody can release any more was lost by a dropped ConnectInfo or a *)
(* second set_holepunch_session, never by a Session, and stays lost        *)
(* (connect.rs 121-131).                                                   *)
THEOREM OnlyInfosLoseHandles == Spec => OnlyInfosLose
<1>1. HandleInv /\ [Next]_vars => LossesAreInfos
  <2> SUFFICES ASSUME HandleInv, [Next]_vars PROVE LossesAreInfos
    OBVIOUS
  <2>1. ASSUME NEW h \in Handles, Lost(h) PROVE Lost(h)'
    <3>1. state[h] = "lost"
      BY <2>1 DEF state
    <3>2. state'[h] = "lost"
      BY <3>1, LifeStep
      DEF Life!Next, Life!Open, Life!Drop, Life!Give, Life!Release, Life!Lose
    <3>3. hp'[h] # "lost"
      <4>1. HandleInv'
        BY HandleStep
      <4> QED
        BY <4>1 DEF HandleInv, TypeOK
    <3> QED
      BY <3>2, <3>3 DEF state
  <2> QED
    BY <2>1, LossStep DEF LossesAreInfos
<1> QED
  BY <1>1, HandleHolds, PTL DEF Spec, OnlyInfosLose

-----------------------------------------------------------------------------
(* How far the lifetimes reach; LogOutlivesUsers, which is more, does not  *)
(* hold.                                                                   *)

Borrowers ==
    /\ \A h \in Handles : hp[h] = "rust" =>
          hpLog[h] \in Logs /\ log[hpLog[h]] = "live"
    /\ \A i \in Infos : info[i] = "session" =>
          sesLog[i] \in Logs /\ log[sesLog[i]] = "live"

LEMMA BorrowersStep == HandleInv /\ Borrowers /\ [Next]_vars => Borrowers'
<1> SUFFICES ASSUME HandleInv, Borrowers, [Next]_vars PROVE Borrowers'
  OBVIOUS
<1> USE HandleAssumption DEF HandleInv, TypeOK, Borrowers, Fini
<1>1. ASSUME NEW l \in Logs, LogNew(l) PROVE Borrowers'
  BY <1>1 DEF LogNew
<1>2. ASSUME NEW l \in Logs, LogDrop(l) PROVE Borrowers'
  BY <1>2 DEF LogDrop, Borrowed
<1>3. ASSUME NEW h \in Handles, NEW l \in Logs, Open(h, l) PROVE Borrowers'
  BY <1>3 DEF Open
<1>4. ASSUME NEW h \in Handles, HandleDrop(h) PROVE Borrowers'
  BY <1>4 DEF HandleDrop
<1>5. ASSUME NEW i \in Infos, InfoNew(i) \/ InfoDrop(i) PROVE Borrowers'
  BY <1>5 DEF InfoNew, InfoDrop
<1>6. ASSUME NEW i \in Infos, NEW h \in Handles, Inject(i, h) PROVE Borrowers'
  BY <1>6 DEF Inject, Forget
<1>7. ASSUME NEW i \in Infos, NEW l \in Logs, SessionNew(i, l) PROVE Borrowers'
  BY <1>7 DEF SessionNew, AfterRefusal
<1>8. ASSUME NEW i \in Infos, SessionDrop(i) PROVE Borrowers'
  BY <1>8 DEF SessionDrop, FiniSession
<1>9. CASE UNCHANGED vars
  BY <1>9 DEF vars
<1> QED
  BY <1>1, <1>2, <1>3, <1>4, <1>5, <1>6, <1>7, <1>8, <1>9 DEF Next

(* An open handle whose log is gone: C owns it, and it is lost, waits in a *)
(* ConnectInfo, or is used by a Session that borrows another log.          *)
DanglingIsUnborrowed ==
    \A h \in Handles :
        hp[h] \in {"rust", "c"} /\ log[hpLog[h]] # "live" =>
            /\ hp[h] = "c"
            /\ \A i \in Infos : Holds(i, h) =>
                  info[i] = "built" \/ sesLog[i] # hpLog[h]

(* The one gap in the lifetimes is the ConnectInfo, which has none: a      *)
(* Session whose handle writes to the Session's own log never sees that log*)
(* dropped, nor does a HolepunchSession (log.rs 39-40, connect.rs 126-131, *)
(* session.rs 281-287).                                                    *)
THEOREM OnlyUnborrowedDangle == Spec => []DanglingIsUnborrowed
<1>1. Init => Borrowers
  BY DEF Init, Borrowers
<1>2. HandleInv /\ Borrowers => DanglingIsUnborrowed
  BY DEF HandleInv, TypeOK, Borrowers, DanglingIsUnborrowed, Holds
<1> QED
  BY <1>1, <1>2, BorrowersStep, HandleHolds, PTL DEF Spec

=============================================================================
