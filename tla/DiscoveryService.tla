--------------------------- MODULE DiscoveryService ---------------------------
(***************************************************************************)
(* DiscoveryServiceOptions and DiscoveryService (src/src/discovery.rs      *)
(* 305-451): who owns the send_host string, the closure and the raw        *)
(* service, from the builder through new, while the C thread pings and     *)
(* calls back, to Drop.                                                    *)
(* A definition marked "slip" is no part of the model: it is a mistake     *)
(* the properties must catch.                                              *)
(*                                                                         *)
(* External, modelled from how discovery.rs uses it:                       *)
(* chiaki_discovery_service_init copies the options, the send_host pointer *)
(* with them (418-419), fails without room for a host (316) and otherwise  *)
(* starts a thread; chiaki_discovery_service_fini stops and joins that     *)
(* thread and frees send_host (430-432).                                   *)
(***************************************************************************)

CONSTANTS Hosts,    \* heap strings set_send_host may allocate: a bound
          Null,     \* the null pointer, and None
          Cb, Svc,  \* the closure of the service, the thread of the service
          NoClosure

ASSUME DiscoveryAssumption ==
    /\ Null \notin Hosts
    /\ NoClosure # Cb

VARIABLES
    pc,         \* "build" the options; "new" and, after init, "give"; "up"; Drop
    result,     \* what DiscoveryService::new returned
    hostsMax,   \* raw.hosts_max: none or some
    raw, own,   \* raw.send_host, and the CString in _send_host
    str,        \* str[h]: the heap string h
    twice,      \* the strings released a second time
    cHost,      \* the send_host pointer in C's copy of the options
    mem,        \* the ChiakiDiscoveryService allocation
    box,        \* the closure's box
    at,         \* the service thread
    stopReq     \* has fini told the thread to stop?

options == <<hostsMax, raw, own>>
strings == <<str, twice>>
vars == <<pc, result, hostsMax, raw, own, str, twice, cHost, mem, box, at, stopReq>>

MaybeHost == Hosts \cup {Null}

TypeOK ==
    /\ pc \in {"build", "new", "give", "up", "drop_fini", "drop_dealloc",
               "drop_fields", "gone"}
    /\ result \in {"none", "ok", "err"}
    /\ hostsMax \in {"zero", "some"}
    /\ raw \in MaybeHost
    /\ own \in MaybeHost
    /\ str \in [Hosts -> {"unused", "live", "freed"}]
    /\ twice \subseteq Hosts
    /\ cHost \in MaybeHost
    /\ mem \in {"none", "init", "finished", "freed"}
    /\ box \in {"unused", "live", "freed"}
    /\ at \in {"off", "run", "ping", "in", "done"}
    /\ stopReq \in BOOLEAN

(* DiscoveryServiceOptions::new: room for 16 hosts, no send_host. *)
Init ==
    /\ pc = "build"
    /\ result = "none"
    /\ hostsMax = "some"
    /\ raw = Null
    /\ own = Null
    /\ str = [h \in Hosts |-> "unused"]
    /\ twice = {}
    /\ cHost = Null
    /\ mem = "none"
    /\ box = "unused"
    /\ at = "off"
    /\ stopReq = FALSE

(* Slip: a null pointer is released like any other.                        *)
ReleasedNull(h) == [x \in Hosts \cup {h} |-> IF x = h THEN "freed" ELSE str[x]]

(* Releasing a string; a null pointer and a None release nothing. *)
Released(h) == [x \in Hosts |-> IF x = h THEN "freed" ELSE str[x]]
Again(h) == twice \cup {x \in Hosts : x = h /\ str[x] = "freed"}
Free(h) == str' = Released(h) /\ twice' = Again(h)

-----------------------------------------------------------------------------
(* The builder.                                                            *)

SetHostsMax(n) ==
    /\ pc = "build"
    /\ hostsMax' = n
    /\ UNCHANGED <<pc, result, raw, own, strings, cHost, mem, box, at, stopReq>>

(* Slip: the pointer taken from the CString that is replaced.              *)
PointerToOld(h) == own
PointerTo(h) == h

(* The pointer first, then the CString, which drops the one before.  A     *)
(* text with a NUL is refused before either (`?`), and changes nothing.    *)
SetSendHost(h) ==
    /\ pc = "build"
    /\ str[h] = "unused"
    /\ str' = [x \in Hosts |-> IF x = h THEN "live" ELSE Released(own)[x]]
    /\ twice' = Again(own)
    /\ raw' = PointerTo(h)
    /\ own' = h
    /\ UNCHANGED <<pc, result, hostsMax, cHost, mem, box, at, stopReq>>

-----------------------------------------------------------------------------
(* DiscoveryService::new.                                                  *)

(* Slip: the string is given away before the result of init is looked at.  *)
OnFailureForget == UNCHANGED strings
OnFailure == Free(own)

(* The closure is boxed first. *)
NewBegin ==
    /\ pc = "build"
    /\ box' = "live"
    /\ pc' = "new"
    /\ UNCHANGED <<result, options, strings, cHost, mem, at, stopReq>>

(* No memory, or chiaki_discovery_service_init refuses: dealloc, and the   *)
(* locals `options` and `holder` are dropped on the way out.               *)
NewErr ==
    /\ pc = "new"
    /\ mem' \in {"none", "freed"}
    /\ OnFailure
    /\ own' = Null
    /\ box' = "freed"
    /\ result' = "err"
    /\ pc' = "gone"
    /\ UNCHANGED <<hostsMax, raw, cHost, at, stopReq>>

(* init succeeds: from here on the service thread runs, inside `new` too. *)
NewOk ==
    /\ pc = "new"
    /\ hostsMax = "some"
    /\ mem' = "init"
    /\ cHost' = raw
    /\ at' = "run"
    /\ result' = "ok"
    /\ pc' = "give"
    /\ UNCHANGED <<options, strings, box, stopReq>>

(* `options._send_host = None`: an assignment, so the CString is dropped.  *)
GiveHost ==
    /\ pc = "give"
    /\ Free(own)
    /\ own' = Null
    /\ pc' = "up"
    /\ UNCHANGED <<result, hostsMax, raw, cHost, mem, box, at, stopReq>>

-----------------------------------------------------------------------------
(* Drop: fini, dealloc, then the fields _options and _cb.                  *)

AskToStopForgotten == UNCHANGED stopReq     \* slip
AskToStop == stopReq' = TRUE

DropBegin ==
    /\ pc = "up"
    /\ AskToStop
    /\ pc' = "drop_fini"
    /\ UNCHANGED <<result, options, strings, cHost, mem, box, at>>

(* fini waits for the thread before anything is released.                  *)
(* (Slip: it does not.)                                                    *)
ThreadJoinedNot == TRUE
ThreadJoined == at = "done"

DropFini ==
    /\ pc = "drop_fini"
    /\ ThreadJoined
    /\ Free(cHost)
    /\ mem' = "finished"
    /\ pc' = "drop_dealloc"
    /\ UNCHANGED <<result, options, cHost, box, at, stopReq>>

DropDealloc ==
    /\ pc = "drop_dealloc"
    /\ mem' = "freed"
    /\ pc' = "drop_fields"
    /\ UNCHANGED <<result, options, strings, cHost, box, at, stopReq>>

DropFields ==
    /\ pc = "drop_fields"
    /\ Free(own)
    /\ own' = Null
    /\ box' = "freed"
    /\ pc' = "gone"
    /\ UNCHANGED <<result, hostsMax, raw, cHost, mem, at, stopReq>>

-----------------------------------------------------------------------------
(* The service thread: a ping reads the send_host pointer, an answer or a  *)
(* timeout that changes the list of hosts calls service_trampoline.        *)

Become(from, to) ==
    /\ at = from
    /\ at' = to
    /\ UNCHANGED <<pc, result, options, strings, cHost, mem, box, stopReq>>

Ping     == Become("run", "ping")
PingDone == Become("ping", "run")
Emit     == Become("run", "in")
Return   == Become("in", "run")    \* the closure returned, or panicked
Exit     == stopReq /\ Become("run", "done")

Gone == pc = "gone" /\ UNCHANGED vars

Finish == NewErr \/ NewOk \/ GiveHost \/ DropFini \/ DropDealloc \/ DropFields

Next ==
    \/ \E n \in {"zero", "some"} : SetHostsMax(n)
    \/ \E h \in Hosts : SetSendHost(h)
    \/ NewBegin \/ DropBegin \/ Finish \/ Gone
    \/ Ping \/ PingDone \/ Emit \/ Return \/ Exit

Spec == Init /\ [][Next]_vars

(* new and Drop run on; pings and closures end; the thread's loop sees the *)
(* stop request (SF: it may ping and call back in between).                *)
FairSpec ==
    Spec /\ WF_vars(Finish) /\ WF_vars(PingDone) /\ WF_vars(Return) /\ SF_vars(Exit)

-----------------------------------------------------------------------------
(* Properties.                                                             *)

(* While options are being built, raw.send_host is null or points to the   *)
(* CString the options own (SAFETY comment, 311), the one string allocated.*)
BuilderPointsToOwned ==
    pc = "build" =>
        raw = own /\ {h \in Hosts : str[h] = "live"} = {own} \ {Null}

(* A refused `new` releases the closure and the string it was given, each  *)
(* once, and starts nothing (426-429).                                     *)
RefusalReleasesAll ==
    result = "err" =>
        /\ box = "freed" /\ at = "off" /\ mem # "init"
        /\ twice = {} /\ \A h \in Hosts : str[h] # "live"

(* The service thread never runs without its service and its closure, and  *)
(* a dropped service leaves neither behind (444-451).                      *)
ServiceOutlivesThread ==
    /\ at \in {"run", "ping", "in"} => mem = "init" /\ box = "live"
    /\ pc = "gone" => box = "freed" /\ \A h \in Hosts : str[h] # "live"

(* After a successful `new` the string belongs to C: it is there for every *)
(* ping until fini, and it is released once (343-345, 430-432).            *)
HostBelongsToC ==
    /\ pc \in {"up", "drop_fini"} /\ cHost # Null => str[cHost] = "live"
    /\ twice = {}

(* Dropping a service ends, with its thread ended. *)
DropTerminates == pc = "drop_fini" ~> pc = "gone" /\ at = "done"

(* The service keeps the promise of CallbackOwner for its closure. *)
Owner == INSTANCE CallbackOwner WITH
    Closures <- {Cb}, Threads <- {Svc},
    box   <- [c \in {Cb} |-> box],
    using <- [t \in {Svc} |-> IF at = "in" THEN Cb ELSE NoClosure]
OwnerSpec == Owner!Spec

=============================================================================
