------------------------------- MODULE Session -------------------------------
(***************************************************************************)
(* The life of a Session (src/src/session.rs): the raw ChiakiSession, the  *)
(* callback boxes its fields own, the C threads that call into those boxes *)
(* and the start / stop / join / Drop protocol that keeps the three apart. *)
(*                                                                         *)
(* One call of the Rust API runs at a time (every method here takes        *)
(* `&mut self`); `pc` says which one and how far it has got.  The C        *)
(* threads run at any time, between and inside those calls.                *)
(*                                                                         *)
(* A definition marked "slip" is not part of the model: it is a plausible  *)
(* mistake in the definition below it, which a property must catch.        *)
(*                                                                         *)
(* External, modelled from how session.rs uses it: libchiaki's threads.    *)
(* chiaki_session_start creates the session thread, which creates the      *)
(* others and joins them before it ends; chiaki_session_join waits for the *)
(* session thread and reports an error when that thread itself calls it.   *)
(***************************************************************************)

CONSTANTS
    Slots,              \* the callback fields of Session (lines 261-265)
    Closures,           \* the boxes the application may hand over: a bound
    Threads,            \* the threads of the C library
    SessionThread,      \* the one chiaki_session_start creates
    App,                \* the application's own thread
    NoClosure,          \* None, and the null pointer
    AppSetsLate,        \* does the application call set_* after start?
    CallsFromCallback   \* does a callback call join or drop the Session?

ASSUME SessionAssumption ==
    /\ SessionThread \in Threads
    /\ App \notin Threads
    /\ NoClosure \notin Closures
    /\ AppSetsLate \in BOOLEAN
    /\ CallsFromCallback \in BOOLEAN

VARIABLES
    pc,         \* the API call in progress and its next step
    caller,     \* the thread that runs it
    reply,      \* the last call that returned, and what it returned
    started, joined,    \* the two flags of the struct
    held,       \* held[s]: the box the field s owns
    holder,     \* holder[s]: the local `holder` of a set_* still running
    mem,        \* the ChiakiSession allocation
    user,       \* user[s]: the pointer the C library has for s
    stopReq,    \* has the C library been told to stop?
    box,        \* box[c]: allocated, released, or not used yet
    poisoned,   \* the boxes whose Mutex is poisoned
    at,         \* at[t]: where the C thread t is
    cb          \* cb[t]: the box behind the trampoline t is in

api     == <<pc, caller, reply>>
fields  == <<started, joined, held, holder>>
clib    == <<mem, user, stopReq>>
threads == <<at, cb>>
vars    == <<pc, caller, reply, started, joined, held, holder, mem, user,
             stopReq, box, poisoned, at, cb>>

MaybeClosure == Closures \cup {NoClosure}

TypeOK ==
    /\ pc \in {"none", "idle", "set", "join", "drop_join", "drop_fini",
               "drop_dealloc", "drop_fields", "gone"}
    /\ caller \in Threads \cup {App}
    /\ reply \in {"new", "start", "join"} \X {"ok", "err"}
    /\ started \in BOOLEAN
    /\ joined \in BOOLEAN
    /\ held \in [Slots -> MaybeClosure]
    /\ holder \in [Slots -> MaybeClosure]
    /\ mem \in {"none", "init", "finished", "freed"}
    /\ user \in [Slots -> MaybeClosure]
    /\ stopReq \in BOOLEAN
    /\ box \in [Closures -> {"unused", "live", "freed"}]
    /\ poisoned \subseteq Closures
    /\ at \in [Threads -> {"off", "run", "wait", "in", "done"}]
    /\ cb \in [Threads -> MaybeClosure]

Init ==
    /\ pc = "none"
    /\ caller = App
    /\ reply = <<"new", "err">>
    /\ started = FALSE
    /\ joined = FALSE
    /\ held = [s \in Slots |-> NoClosure]
    /\ holder = [s \in Slots |-> NoClosure]
    /\ mem = "none"
    /\ user = [s \in Slots |-> NoClosure]
    /\ stopReq = FALSE
    /\ box = [c \in Closures |-> "unused"]
    /\ poisoned = {}
    /\ at = [t \in Threads |-> "off"]
    /\ cb = [t \in Threads |-> NoClosure]

Alive(t)  == at[t] \in {"run", "wait", "in"}
InCall(t) == at[t] \in {"wait", "in"}
Quiet     == \A t \in Threads : ~Alive(t)

-----------------------------------------------------------------------------
(* Construction: alloc, zero, chiaki_session_init.  A failed init gives    *)
(* the memory back without fini and no Session exists.                     *)

New ==
    /\ pc = "none"
    /\ \/ /\ mem' = "init"
          /\ pc' = "idle"
          /\ reply' = <<"new", "ok">>
       \/ /\ mem' \in {"none", "freed"}
          /\ pc' = "gone"
          /\ reply' = <<"new", "err">>
    /\ UNCHANGED <<caller, fields, user, stopReq, box, poisoned, threads>>

-----------------------------------------------------------------------------
(* set_event_callback, set_video_sample_callback, set_audio_sink,          *)
(* set_haptics_sink and set_display_sink: box the closure, hand C the      *)
(* pointer, and only then assign the field, which drops the box it held.   *)

MaySet == AppSetsLate \/ ~started

SetCallback(s, c) ==
    /\ pc = "idle"
    /\ MaySet
    /\ box[c] = "unused"
    /\ box' = [box EXCEPT ![c] = "live"]
    /\ holder' = [holder EXCEPT ![s] = c]
    /\ user' = [user EXCEPT ![s] = c]
    /\ pc' = "set"
    /\ UNCHANGED <<caller, reply, started, joined, held, mem, stopReq,
                   poisoned, threads>>

(* Slips: drop_fn is never called; or it is called on a field that is None.*)
DropBoxLeaks(c) == UNCHANGED box
DropBoxOfNone(c) == box' = [x \in Closures \cup {c} |->
                               IF x = c THEN "freed" ELSE box[x]]

(* Drop for ErasedCallback, on the field's old value if it had one. *)
DropBox(c) == box' = [x \in Closures |-> IF x = c THEN "freed" ELSE box[x]]

(* Slip: the local is dropped at the end of the scope, not the old field.  *)
ReplacedLocal(s) == holder[s]
Replaced(s) == held[s]

FinishSet(s) ==
    /\ pc = "set"
    /\ holder[s] # NoClosure
    /\ DropBox(Replaced(s))
    /\ held' = [held EXCEPT ![s] = holder[s]]
    /\ holder' = [holder EXCEPT ![s] = NoClosure]
    /\ pc' = "idle"
    /\ UNCHANGED <<caller, reply, started, joined, clib, poisoned, threads>>

-----------------------------------------------------------------------------
(* start: refused by the flag, or chiaki_session_start, which either       *)
(* creates the threads or fails and leaves the Session as it was.          *)

MayStartAgain == TRUE     \* slip: no flag
MayStart == ~started

Start ==
    /\ pc = "idle"
    /\ \/ /\ MayStart
          /\ started' = TRUE
          /\ at' = [t \in Threads |-> "run"]
          /\ reply' = <<"start", "ok">>
       \/ /\ reply' = <<"start", "err">>     \* refused, or C failed
          /\ UNCHANGED <<started, at>>
    /\ UNCHANGED <<pc, caller, joined, held, holder, clib, box, poisoned, cb>>

AskToStopForgotten == UNCHANGED stopReq     \* slip
AskToStop == stopReq' = TRUE                \* chiaki_session_stop

Stop ==
    /\ pc = "idle"
    /\ AskToStop
    /\ UNCHANGED <<api, fields, mem, user, box, poisoned, threads>>

(* Who may call join or drop: the application, or the callback a C thread  *)
(* is running, when the closure can reach the Session.                     *)
Callers == {App} \cup {t \in Threads : CallsFromCallback /\ at[t] = "in"}

MayJoinUnstarted == ~joined      \* slip: only the second guard is there
MayJoin == started /\ ~joined

JoinEarly ==
    /\ pc = "idle"
    /\ ~MayJoin
    /\ reply' = <<"join", IF joined THEN "ok" ELSE "err">>
    /\ UNCHANGED <<pc, caller, fields, clib, box, poisoned, threads>>

JoinBegin(p) ==
    /\ pc = "idle"
    /\ MayJoin
    /\ p \in Callers
    /\ pc' = "join"
    /\ caller' = p
    /\ UNCHANGED <<reply, fields, clib, box, poisoned, threads>>

(* chiaki_session_join, as its two callers see it. *)
CJoinOk  == at[SessionThread] = "done"
CJoinErr == caller = SessionThread

JoinedAfterAny(r) == TRUE        \* slip: the result is not looked at
JoinedAfter(r) == joined \/ r = "ok"

JoinEnd(r) ==
    /\ pc = "join"
    /\ \/ r = "ok" /\ CJoinOk
       \/ r = "err" /\ CJoinErr
    /\ joined' = JoinedAfter(r)
    /\ reply' = <<"join", r>>
    /\ pc' = "idle"
    /\ caller' = App
    /\ UNCHANGED <<started, held, holder, clib, box, poisoned, threads>>

-----------------------------------------------------------------------------
(* Drop: stop; join unless never started or joined already, its result     *)
(* ignored; fini; dealloc; then the fields, each dropping its box.         *)

(* Slips: the flag read the wrong way round; the fields dropped first.     *)
AfterStopSwapped == IF started /\ joined THEN "drop_join" ELSE "drop_fini"
AfterStopFields == "drop_fields"
AfterStop == IF started /\ ~joined THEN "drop_join" ELSE "drop_fini"

DropStop(p) ==
    /\ pc = "idle"
    /\ p \in Callers
    /\ AskToStop
    /\ caller' = p
    /\ pc' = AfterStop
    /\ UNCHANGED <<reply, fields, mem, user, box, poisoned, threads>>

DropJoin ==
    /\ pc = "drop_join"
    /\ CJoinOk \/ CJoinErr
    /\ pc' = "drop_fini"
    /\ UNCHANGED <<caller, reply, fields, clib, box, poisoned, threads>>

DropFini ==
    /\ pc = "drop_fini"
    /\ mem' = "finished"
    /\ pc' = "drop_dealloc"
    /\ UNCHANGED <<caller, reply, fields, user, stopReq, box, poisoned, threads>>

DropDealloc ==
    /\ pc = "drop_dealloc"
    /\ mem' = "freed"
    /\ pc' = "drop_fields"
    /\ UNCHANGED <<caller, reply, fields, user, stopReq, box, poisoned, threads>>

DropField(s) ==
    /\ pc = "drop_fields"
    /\ held[s] # NoClosure
    /\ DropBox(held[s])
    /\ held' = [held EXCEPT ![s] = NoClosure]
    /\ UNCHANGED <<api, started, joined, holder, clib, poisoned, threads>>

DropEnd ==
    /\ pc = "drop_fields"
    /\ \A s \in Slots : held[s] = NoClosure
    /\ pc' = "gone"
    /\ caller' = App
    /\ UNCHANGED <<reply, fields, clib, box, poisoned, threads>>

-----------------------------------------------------------------------------
(* The C threads.  Between Emit and Return a thread is in a trampoline:    *)
(* it has made a reference out of `user` and locks the Mutex ("wait"), or  *)
(* runs the closure under catch_unwind ("in").                             *)

Emit(t, s) ==
    /\ at[t] = "run"
    /\ user[s] # NoClosure
    /\ at' = [at EXCEPT ![t] = "wait"]
    /\ cb' = [cb EXCEPT ![t] = user[s]]
    /\ UNCHANGED <<api, fields, clib, box, poisoned>>

(* lock() answers at once, with Err, when the Mutex is poisoned: the call  *)
(* is then swallowed.                                                      *)
Acquire(t) ==
    /\ at[t] = "wait"
    /\ \A u \in Threads : at[u] = "in" => cb[u] # cb[t]
    /\ IF cb[t] \in poisoned
       THEN /\ at' = [at EXCEPT ![t] = "run"]
            /\ cb' = [cb EXCEPT ![t] = NoClosure]
       ELSE /\ at' = [at EXCEPT ![t] = "in"]
            /\ UNCHANGED cb
    /\ UNCHANGED <<api, fields, clib, box, poisoned>>

(* A guard dropped while its thread unwinds poisons the Mutex.  Here the   *)
(* guard outlives catch_unwind, so a panic has ended when it is dropped.   *)
(* (Slip: the guard taken inside catch_unwind.)                            *)
UnwindsPastGuardIn(outcome) == outcome = "panics"
UnwindsPastGuard(outcome) == FALSE

Return(t, outcome) ==
    /\ at[t] = "in"
    /\ caller # t
    /\ poisoned' = IF UnwindsPastGuard(outcome)
                   THEN poisoned \cup {cb[t]} ELSE poisoned
    /\ at' = [at EXCEPT ![t] = "run"]
    /\ cb' = [cb EXCEPT ![t] = NoClosure]
    /\ UNCHANGED <<api, fields, clib, box>>

Exit(t) ==
    /\ at[t] = "run"
    /\ t = SessionThread =>
           \A u \in Threads \ {SessionThread} : at[u] = "done"
    /\ at' = [at EXCEPT ![t] = "done"]
    /\ UNCHANGED <<api, fields, clib, box, poisoned, cb>>

-----------------------------------------------------------------------------

Gone == pc = "gone" /\ UNCHANGED vars     \* nothing is left to call

DropSteps ==
    \/ DropJoin \/ DropFini \/ DropDealloc \/ DropEnd
    \/ \E s \in Slots : DropField(s)

Next ==
    \/ New \/ Start \/ Stop \/ JoinEarly \/ DropSteps \/ Gone
    \/ \E s \in Slots : FinishSet(s) \/ \E c \in Closures : SetCallback(s, c)
    \/ \E p \in Threads \cup {App} : JoinBegin(p) \/ DropStop(p)
    \/ \E r \in {"ok", "err"} : JoinEnd(r)
    \/ \E t \in Threads :
          \/ Acquire(t) \/ Exit(t)
          \/ \E s \in Slots : Emit(t, s)
          \/ \E outcome \in {"returns", "panics"} : Return(t, outcome)

Spec == Init /\ [][Next]_vars

(* The code of a call keeps running; so does a closure, and libchiaki's    *)
(* loops look at the stop request between two callbacks.  A thread that    *)
(* waits for a Mutex gets it in the end (SF: std's Mutex lets others in    *)
(* first, not for ever).  Nothing makes the application stop, join or drop.*)
Fairness ==
    /\ WF_vars(DropSteps)
    /\ WF_vars(\E s \in Slots : FinishSet(s))
    /\ WF_vars(\E r \in {"ok", "err"} : JoinEnd(r))
    /\ \A t \in Threads :
          /\ SF_vars(Acquire(t))
          /\ WF_vars(\E outcome \in {"returns", "panics"} : Return(t, outcome))
          /\ SF_vars(stopReq /\ Exit(t))

FairSpec == Spec /\ Fairness

-----------------------------------------------------------------------------
(* Properties.                                                             *)

(* No C thread is in a trampoline over a released box: the promise of      *)
(* util.rs 5-6 and of the comment in Drop (525-526).                       *)
BoxesOutliveCalls == \A t \in Threads : InCall(t) => box[cb[t]] = "live"

(* From start to the end of the threads, the ChiakiSession they work on is *)
(* initialised: fini and dealloc in Drop come after the last thread.       *)
SessionOutlivesThreads == \A t \in Threads : Alive(t) => mem = "init"

(* While the ChiakiSession exists, every pointer registered with it is a   *)
(* live box, at every step of a replacement too (set_*: register, then     *)
(* drop the old box).                                                      *)
RegisteredLive ==
    mem = "init" => \A s \in Slots : user[s] # NoClosure => box[user[s]] = "live"

(* Ownership: a box is allocated exactly while one field, or one set_* in  *)
(* progress, owns it; so none is released twice and none is left behind    *)
(* once the Session is gone.                                               *)
Owners(c) == {s \in Slots : held[s] = c \/ holder[s] = c}
OwnedOnce ==
    /\ \A c \in Closures : (box[c] = "live") <=> (Owners(c) # {})
    /\ \A c \in Closures : \A s, u \in Owners(c) : s = u
    /\ \A s \in Slots : held[s] # NoClosure => held[s] # holder[s]
    /\ pc = "gone" => \A c \in Closures : box[c] # "live"

(* join answers Ok only when no C thread is left (and none comes back), so *)
(* that Drop may skip its own join (528).                                  *)
JoinOkMeansQuiet == joined \/ reply = <<"join", "ok">> => Quiet

(* The threads are created at most once: no later start, refused, failed   *)
(* or repeated, brings a thread back (the leak the comment in start names).*)
ThreadsStartOnce ==
    [][\A t \in Threads : at[t] = "done" => at'[t] = "done"]_vars

(* A thread that has reached a closure's Mutex runs the closure, whatever  *)
(* earlier calls of it did: a panic never silences a callback.             *)
NoCallSwallowed ==
    [][\A t \in Threads : at[t] = "wait" => at'[t] \in {"wait", "in"}]_vars

(* Dropping a Session ends (Drop "may block", 256, but not for ever), and  *)
(* leaves no thread and no box behind.                                     *)
DropTerminates ==
    pc \in {"drop_join", "drop_fini", "drop_dealloc", "drop_fields"}
        ~> pc = "gone" /\ Quiet

(* A join after a stop returns. *)
StoppedJoinReturns == pc = "join" /\ stopReq ~> pc # "join"

(* The Session keeps the promise of CallbackOwner for each of its boxes. *)
using == [t \in Threads |-> IF InCall(t) THEN cb[t] ELSE NoClosure]
Owner == INSTANCE CallbackOwner
OwnerSpec == Owner!Spec

(* Seen from outside, the Session goes through the life of SessionLife: in *)
(* particular it is never released under a running thread, and never runs  *)
(* a second time (Drop, session.rs 522-535; start, 320-330).               *)
phase ==
    IF mem = "none" THEN "none"
    ELSE IF mem # "init" THEN "freed"
    ELSE IF ~Quiet THEN "running"
    ELSE IF started THEN "ended" ELSE "idle"
Life == INSTANCE SessionLife
LifeSpec == Life!Spec

=============================================================================
