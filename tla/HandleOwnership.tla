--------------------------- MODULE HandleOwnership ---------------------------
(***************************************************************************)
(* Who must release a holepunch handle, and which Log it writes to, as the *)
(* handle moves from a HolepunchSession (src/src/holepunch.rs) into a      *)
(* ConnectInfo (src/src/connect.rs) and from there, as a raw pointer, into *)
(* the C session that Session::new builds (src/src/session.rs).            *)
(*                                                                         *)
(* The borrow checker is part of the environment: a Log is dropped only    *)
(* when no Rust value carries a lifetime that borrows it.                  *)
(* HolepunchSession<'a> and Session<'a> carry one, ConnectInfo does not.   *)
(*                                                                         *)
(* External, modelled from how the crate uses it: the C handle keeps the   *)
(* log pointer it was opened with; the C session's init, when it fails,    *)
(* and its fini release the handle it was given (connect.rs 121-122).      *)
(* A definition marked "slip" is no part of the model: it is a mistake the *)
(* properties must catch.                                                  *)
(***************************************************************************)

CONSTANTS Logs, Handles, Infos,     \* what the application may create: bounds
          None

ASSUME HandleAssumption == None \notin Logs /\ None \notin Handles

VARIABLES
    log,        \* log[l]
    hp,         \* hp[h]: not open, owned by a Rust value, by C, or released
    hpLog,      \* hpLog[h]: the Log the C handle points to
    twice,      \* handles released a second time
    info,       \* info[i]: a ConnectInfo, on its own or inside a Session
    infoHp,     \* infoHp[i]: raw.holepunch_session
    sesLog      \* sesLog[i]: the Log the Session built from i borrows

vars == <<log, hp, hpLog, twice, info, infoHp, sesLog>>

TypeOK ==
    /\ log \in [Logs -> {"unused", "live", "dropped"}]
    /\ hp \in [Handles -> {"unused", "rust", "c", "released"}]
    /\ hpLog \in [Handles -> Logs \cup {None}]
    /\ twice \subseteq Handles
    /\ info \in [Infos -> {"unused", "built", "session", "gone"}]
    /\ infoHp \in [Infos -> Handles \cup {None}]
    /\ sesLog \in [Infos -> Logs \cup {None}]

Init ==
    /\ log = [l \in Logs |-> "unused"]
    /\ hp = [h \in Handles |-> "unused"]
    /\ hpLog = [h \in Handles |-> None]
    /\ twice = {}
    /\ info = [i \in Infos |-> "unused"]
    /\ infoHp = [i \in Infos |-> None]
    /\ sesLog = [i \in Infos |-> None]

(* chiaki_holepunch_session_fini; a null handle is no handle. (Slip: it is.)*)
FiniNull(h) ==
    /\ hp' = [x \in Handles \cup {h} |-> IF x = h THEN "released" ELSE hp[x]]
    /\ UNCHANGED twice
Fini(h) ==
    /\ hp' = [x \in Handles |-> IF x = h THEN "released" ELSE hp[x]]
    /\ twice' = twice \cup {x \in Handles : x = h /\ hp[x] = "released"}

-----------------------------------------------------------------------------

LogNew(l) ==
    /\ log[l] = "unused"
    /\ log' = [log EXCEPT ![l] = "live"]
    /\ UNCHANGED <<hp, hpLog, twice, info, infoHp, sesLog>>

Borrowed(l) ==
    \/ \E h \in Handles : hp[h] = "rust" /\ hpLog[h] = l
    \/ \E i \in Infos : info[i] = "session" /\ sesLog[i] = l

LogDrop(l) ==
    /\ log[l] = "live"
    /\ ~Borrowed(l)
    /\ log' = [log EXCEPT ![l] = "dropped"]
    /\ UNCHANGED <<hp, hpLog, twice, info, infoHp, sesLog>>

(* HolepunchSession::open (a null handle is an error, and no value) and its*)
(* Drop.                                                                   *)
Open(h, l) ==
    /\ hp[h] = "unused"
    /\ log[l] = "live"
    /\ hp' = [hp EXCEPT ![h] = "rust"]
    /\ hpLog' = [hpLog EXCEPT ![h] = l]
    /\ UNCHANGED <<log, twice, info, infoHp, sesLog>>

HandleDrop(h) ==
    /\ hp[h] = "rust"
    /\ Fini(h)
    /\ UNCHANGED <<log, hpLog, info, infoHp, sesLog>>

InfoNew(i) ==
    /\ info[i] = "unused"
    /\ info' = [info EXCEPT ![i] = "built"]
    /\ UNCHANGED <<log, hp, hpLog, twice, infoHp, sesLog>>

(* set_holepunch_session takes the value, stores its raw handle over       *)
(* whatever was there, and forgets the value.  (Slip: it is dropped.)      *)
ForgetNot(h) == Fini(h)
Forget(h) == hp' = [hp EXCEPT ![h] = "c"] /\ UNCHANGED twice

Inject(i, h) ==
    /\ info[i] = "built"
    /\ hp[h] = "rust"
    /\ infoHp' = [infoHp EXCEPT ![i] = h]
    /\ Forget(h)
    /\ UNCHANGED <<log, hpLog, info, sesLog>>

(* A ConnectInfo dropped on its own releases its strings, not the handle;  *)
(* so does a Session::new that finds no memory.                           *)
InfoDrop(i) ==
    /\ info[i] = "built"
    /\ info' = [info EXCEPT ![i] = "gone"]
    /\ UNCHANGED <<log, hp, hpLog, twice, infoHp, sesLog>>

(* Session::new: the info moves into the Session; or init fails, releases  *)
(* the handle, and the info is dropped.  (Slip: the info outlives the      *)
(* failure, and can be used again.)                                        *)
AfterRefusalKept == "built"
AfterRefusal == "gone"

SessionNew(i, l) ==
    /\ info[i] = "built"
    /\ log[l] = "live"
    /\ \/ /\ info' = [info EXCEPT ![i] = "session"]
          /\ sesLog' = [sesLog EXCEPT ![i] = l]
          /\ UNCHANGED <<hp, twice>>
       \/ /\ Fini(infoHp[i])
          /\ info' = [info EXCEPT ![i] = AfterRefusal]
          /\ UNCHANGED sesLog
    /\ UNCHANGED <<log, hpLog, infoHp>>

(* Drop for Session: fini releases the handle.  (Slip: the C session is    *)
(* deallocated without fini.)                                              *)
FiniSessionNot(i) == UNCHANGED <<hp, twice>>
FiniSession(i) == Fini(infoHp[i])

SessionDrop(i) ==
    /\ info[i] = "session"
    /\ FiniSession(i)
    /\ info' = [info EXCEPT ![i] = "gone"]
    /\ UNCHANGED <<log, hpLog, infoHp, sesLog>>

Next ==
    \/ \E l \in Logs : LogNew(l) \/ LogDrop(l)
    \/ \E h \in Handles : HandleDrop(h) \/ \E l \in Logs : Open(h, l)
    \/ \E i \in Infos :
          \/ InfoNew(i) \/ InfoDrop(i) \/ SessionDrop(i)
          \/ \E h \in Handles : Inject(i, h)
          \/ \E l \in Logs : SessionNew(i, l)

Spec == Init /\ [][Next]_vars

-----------------------------------------------------------------------------
(* Properties.                                                             *)

Holds(i, h) == info[i] \in {"built", "session"} /\ infoHp[i] = h

(* A handle is released exactly once.  Never twice: not by Rust and C, not *)
(* by two sessions, not by a failed init and a later one (holepunch.rs     *)
(* 67-71).  And not never: a Session that is gone has released the handle  *)
(* it was built with (connect.rs 121-124).                                 *)
ReleasedOnce ==
    /\ twice = {}
    /\ \A i \in Infos, h \in Handles :
          info[i] = "gone" /\ sesLog[i] # None /\ infoHp[i] = h
             => hp[h] = "released"

(* The handle in a ConnectInfo or a Session is open, C's, and in no other: *)
(* what init, start and fini are given is never a released handle.         *)
HandleOfOne ==
    \A i \in Infos, h \in Handles : Holds(i, h) =>
        hp[h] = "c" /\ \A j \in Infos : Holds(j, h) => j = i

(* Open, C's, and in no ConnectInfo and no Session: nobody can release it. *)
Lost(h) == hp[h] = "c" /\ \A i \in Infos : ~Holds(i, h)

LossesAreInfos ==
    \A h \in Handles :
        /\ Lost(h) => Lost(h)'
        /\ ~Lost(h) /\ Lost(h)' =>
              \E i \in Infos : info[i] = "built" /\ infoHp[i] = h

(* A handle is lost in one way only: from a ConnectInfo that no Session was*)
(* built from, which is dropped (as 126-127 say) or given another handle   *)
(* (129).  A Session, refused or dropped, loses none (connect.rs 121-124). *)
(* And what is lost stays so: no later info, Session or Drop comes upon the*)
(* handle again and releases it.                                           *)
OnlyInfosLose == [][LossesAreInfos]_vars

(* A Log outlives everything that uses it (log.rs 39-40): the handles that *)
(* are open, in whatever object, and the Sessions.                         *)
LogOutlivesUsers ==
    /\ \A h \in Handles : hp[h] \in {"rust", "c"} => log[hpLog[h]] = "live"
    /\ \A i \in Infos : info[i] = "session" => log[sesLog[i]] = "live"

=============================================================================
