------------------------------- MODULE Workers -------------------------------
(***************************************************************************)
(* The Rust values that own one C thread and one closure: DiscoveryThread  *)
(* (src/src/discovery.rs 246-303), which loops or, as a oneshot, ends with *)
(* the first answer, and Regist (src/src/regist.rs), which ends with one   *)
(* event.  From start to Drop; the thread runs at any time in between.     *)
(* With a Regist comes its RegistInfo (regist.rs 17-65), built before start*)
(* and owned by the Regist from then on.                                   *)
(* A definition marked "slip" is no part of the model: it is a mistake     *)
(* the properties must catch.                                              *)
(*                                                                         *)
(* External, modelled from how the two files use it: the C threads.        *)
(* chiaki_discovery_thread_stop tells the thread to stop and joins it;     *)
(* chiaki_regist_stop only tells it, chiaki_regist_fini joins it.  A       *)
(* worker dropped by its own closure is not modelled.  The thread of a     *)
(* registration reads the info it was given at any time.                   *)
(***************************************************************************)
EXTENDS Naturals

CONSTANTS
    Workers,     \* the values the application may start: a bound
    NoClosure,
    Strings,     \* the online ids an application may set: a bound
    NoString     \* None, and the null pointer

ASSUME WorkersAssumption == NoClosure \notin Workers /\ NoString \notin Strings

VARIABLES
    kind,       \* what the worker is
    pc,         \* the call in progress on it, and how far it has got
    has,        \* is the raw C object still this value's to end?
    mem,        \* the raw C object
    box,        \* the closure's box
    joins,      \* how often C has been told to join the thread
    at,         \* the C thread
    stopReq,    \* has the C thread been told to stop?
    onlineId,   \* the pointer psn_online_id of the worker's info
    owned,      \* the field _online_id
    str         \* str[w][s]: the string s, on the heap

info == <<onlineId, owned, str>>
vars == <<kind, pc, has, mem, box, joins, at, stopReq, info>>

Kinds == {"loop", "oneshot", "regist"}

TypeOK ==
    /\ kind \in [Workers -> Kinds]
    /\ pc \in [Workers -> {"none", "start", "up", "join", "joined", "drop",
                           "fields", "gone"}]
    /\ has \in [Workers -> BOOLEAN]
    /\ mem \in [Workers -> {"none", "live", "freed"}]
    /\ box \in [Workers -> {"unused", "live", "freed"}]
    /\ joins \in [Workers -> 0..2]
    /\ at \in [Workers -> {"off", "run", "in", "last", "done"}]
    /\ stopReq \in [Workers -> BOOLEAN]
    /\ onlineId \in [Workers -> Strings \cup {NoString}]
    /\ owned \in [Workers -> Strings \cup {NoString}]
    /\ str \in [Workers -> [Strings -> {"unused", "live", "freed"}]]

Init ==
    /\ kind \in [Workers -> Kinds]
    /\ pc = [w \in Workers |-> "none"]
    /\ has = [w \in Workers |-> FALSE]
    /\ mem = [w \in Workers |-> "none"]
    /\ box = [w \in Workers |-> "unused"]
    /\ joins = [w \in Workers |-> 0]
    /\ at = [w \in Workers |-> "off"]
    /\ stopReq = [w \in Workers |-> FALSE]
    /\ onlineId = [w \in Workers |-> NoString]
    /\ owned = [w \in Workers |-> NoString]
    /\ str = [w \in Workers |-> [s \in Strings |-> "unused"]]

Alive(w) == at[w] \in {"run", "in", "last"}

Goto(w, from, to) == pc[w] = from /\ pc' = [pc EXCEPT ![w] = to]

(* Slip: what is released is the None that Option::take left behind.       *)
FreedNone(heap, w) ==
    [v \in Workers \cup {NoClosure} |-> IF v \in Workers THEN heap[v] ELSE "freed"]
Freed(heap, w) == [heap EXCEPT ![w] = "freed"]

-----------------------------------------------------------------------------
(* RegistInfo::set_psn_online_id: an empty text (NoString) becomes a null  *)
(* pointer; the string replaced is released.  A text with a NUL in it is   *)
(* refused before anything changes.                                        *)

PointerToOld(w, s) == IF owned[w] = NoString THEN s ELSE owned[w]     \* slip
PointerTo(w, s) == s

SetOnlineId(w, s) ==
    /\ kind[w] = "regist"
    /\ pc[w] = "none"
    /\ s # NoString => str[w][s] = "unused"
    /\ onlineId' = [onlineId EXCEPT ![w] = PointerTo(w, s)]
    /\ owned' = [owned EXCEPT ![w] = s]
    /\ str' = [str EXCEPT ![w] = [x \in Strings |->
                 IF x = s THEN "live" ELSE IF x = owned[w] THEN "freed" ELSE @[x]]]
    /\ UNCHANGED <<kind, pc, has, mem, box, joins, at, stopReq>>

(* The info goes with its owner: the argument of start, or the field _info.*)
InfoDrop(w) ==
    /\ onlineId' = [onlineId EXCEPT ![w] = NoString]
    /\ owned' = [owned EXCEPT ![w] = NoString]
    /\ str' = [str EXCEPT ![w] = [x \in Strings |->
                 IF x = owned[w] THEN "freed" ELSE @[x]]]

-----------------------------------------------------------------------------
(* start: the closure is boxed and the C object allocated; then C starts   *)
(* the thread, or refuses, and the locals are released on the way out.     *)

StartBegin(w) ==
    /\ Goto(w, "none", "start")
    /\ box' = [box EXCEPT ![w] = "live"]
    /\ mem' = [mem EXCEPT ![w] = "live"]
    /\ UNCHANGED <<kind, has, joins, at, stopReq, info>>

StartErr(w) ==
    /\ Goto(w, "start", "gone")
    /\ mem' = Freed(mem, w)
    /\ box' = Freed(box, w)
    /\ InfoDrop(w)
    /\ UNCHANGED <<kind, has, joins, at, stopReq>>

StartOk(w) ==
    /\ Goto(w, "start", "up")
    /\ has' = [has EXCEPT ![w] = TRUE]
    /\ at' = [at EXCEPT ![w] = "run"]
    /\ UNCHANGED <<kind, mem, box, joins, stopReq, info>>

-----------------------------------------------------------------------------
(* The end.  stop(self) of a DiscoveryThread takes the raw object out of   *)
(* the value, so that the Drop that follows has nothing to end.            *)

AskToStopForgotten(w) == UNCHANGED stopReq     \* slip
AskToStop(w) == stopReq' = [stopReq EXCEPT ![w] = TRUE]

TakeBorrows(w) == UNCHANGED has                \* slip: as_mut for take
Take(w) == has' = [has EXCEPT ![w] = FALSE]

(* Regist::stop: may be called again, and waits for nothing. *)
RegistStop(w) ==
    /\ kind[w] = "regist"
    /\ pc[w] = "up"
    /\ AskToStop(w)
    /\ UNCHANGED <<kind, pc, has, mem, box, joins, at, info>>

ThreadStop(w) ==
    /\ kind[w] # "regist"
    /\ Goto(w, "up", "join")
    /\ Take(w)
    /\ AskToStop(w)
    /\ UNCHANGED <<kind, mem, box, joins, at, info>>

DropBegin(w) ==
    /\ Goto(w, "up", "drop")
    /\ UNCHANGED <<kind, has, mem, box, joins, at, stopReq, info>>

(* Drop::drop of both types; with the raw object gone it does nothing.     *)
DropEnds(w) ==
    /\ has[w]
    /\ Goto(w, "drop", "join")
    /\ Take(w)
    /\ AskToStop(w)
    /\ UNCHANGED <<kind, mem, box, joins, at, info>>

DropNothing(w) ==
    /\ ~has[w]
    /\ Goto(w, "drop", "fields")
    /\ UNCHANGED <<kind, has, mem, box, joins, at, stopReq, info>>

(* Slip: fini, or the wait in thread_stop, is left out.                    *)
ThreadJoinedNot(w) == TRUE
ThreadJoined(w) == at[w] = "done"

Join(w) ==
    /\ Goto(w, "join", "joined")
    /\ ThreadJoined(w)
    /\ joins' = [joins EXCEPT ![w] = IF @ = 2 THEN 2 ELSE @ + 1]
    /\ UNCHANGED <<kind, has, mem, box, at, stopReq, info>>

(* The raw object goes first: the local of stop and of Drop, or Regist's   *)
(* first field.                                                            *)
FreeRaw(w) ==
    /\ Goto(w, "joined", "drop")
    /\ mem' = Freed(mem, w)
    /\ UNCHANGED <<kind, has, box, joins, at, stopReq, info>>

FreeFields(w) ==
    /\ Goto(w, "fields", "gone")
    /\ InfoDrop(w)
    /\ box' = Freed(box, w)
    /\ UNCHANGED <<kind, has, mem, joins, at, stopReq>>

-----------------------------------------------------------------------------
(* The C thread, and the trampoline it calls.                              *)

Become(w, from, to) ==
    /\ at[w] = from
    /\ at' = [at EXCEPT ![w] = to]
    /\ UNCHANGED <<kind, pc, has, mem, box, joins, stopReq, info>>

Emit(w) == Become(w, "run", "in")

(* The closure returned, or panicked under catch_unwind.  A oneshot and a  *)
(* Regist have then said all they had to say.                              *)
Return(w) == Become(w, "in", IF kind[w] = "loop" THEN "run" ELSE "last")

(* A Regist that is told to stop still reports that it was canceled. *)
Exit(w) ==
    \/ Become(w, "last", "done")
    \/ kind[w] # "regist" /\ stopReq[w] /\ Become(w, "run", "done")

Finish(w) ==
    \/ StartErr(w) \/ StartOk(w)
    \/ DropEnds(w) \/ DropNothing(w) \/ Join(w) \/ FreeRaw(w) \/ FreeFields(w)

Gone == (\A w \in Workers : pc[w] = "gone") /\ UNCHANGED vars

Next ==
    \/ \E w \in Workers :
          \/ StartBegin(w) \/ RegistStop(w) \/ ThreadStop(w) \/ DropBegin(w)
          \/ Finish(w) \/ Emit(w) \/ Return(w) \/ Exit(w)
          \/ \E s \in Strings \cup {NoString} : SetOnlineId(w, s)
    \/ Gone

Spec == Init /\ [][Next]_vars

(* A call in progress and a closure run on.  A thread's loop sees the stop *)
(* request (SF: it may call back in between); a Regist then reports.       *)
Fairness ==
    \A w \in Workers :
        /\ WF_vars(Finish(w))
        /\ WF_vars(Return(w))
        /\ SF_vars(Exit(w))
        /\ WF_vars(kind[w] = "regist" /\ stopReq[w] /\ Emit(w))

FairSpec == Spec /\ Fairness

-----------------------------------------------------------------------------
(* Properties.                                                             *)

(* C joins the thread at most once, however stop and Drop follow each      *)
(* other (the comment on stop, discovery.rs 288), and exactly once before  *)
(* a worker that was started is gone.                                      *)
JoinedOnce ==
    \A w \in Workers :
        /\ joins[w] <= 1
        /\ pc[w] = "gone" /\ at[w] # "off" => joins[w] = 1

(* The raw object that C works on and the closure it calls are there until *)
(* its thread has ended, and neither is left behind by a value that is     *)
(* gone, a refused start included (discovery.rs 257-303, regist.rs 116-151).*)
WorkerOutlivesThread ==
    \A w \in Workers :
        /\ Alive(w) => mem[w] = "live" /\ box[w] = "live"
        /\ pc[w] = "gone" => mem[w] = "freed" /\ box[w] = "freed"

(* The online id a registration thread reads is the string the info owns,  *)
(* until the thread has ended, and each string set and replaced before is  *)
(* released (regist.rs 41-55; SAFETY comment of RegistInfo, 24).           *)
OnlineIdOutlivesThread ==
    \A w \in Workers :
        /\ Alive(w) /\ onlineId[w] # NoString => str[w][onlineId[w]] = "live"
        /\ \A s \in Strings : str[w][s] = "live" => s = owned[w]
        /\ pc[w] = "gone" => owned[w] = NoString

(* stop and Drop end, with the thread ended (doc of DiscoveryThread, 246;  *)
(* Regist's Drop waits for the event of a canceled registration).          *)
DropTerminates ==
    \A w \in Workers :
        pc[w] \in {"join", "drop"} ~> pc[w] = "gone" /\ at[w] = "done"

(* Each worker keeps the promise of CallbackOwner for its closure; closure *)
(* and thread go by the name of their worker.                              *)
using == [w \in Workers |-> IF at[w] = "in" THEN w ELSE NoClosure]
Owner == INSTANCE CallbackOwner WITH Closures <- Workers, Threads <- Workers
OwnerSpec == Owner!Spec

=============================================================================
