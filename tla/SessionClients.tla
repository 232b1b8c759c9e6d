---------------------------- MODULE SessionClients ----------------------------
(***************************************************************************)
(* The values an application uses next to a Session and that no lifetime,  *)
(* or only half of one, ties to it: an OpusEncoder and an OpusDecoder      *)
(* (src/src/opus.rs), a LogSniffer (src/src/log.rs), and the calls of      *)
(* Session itself that reach into what its C threads build and tear down   *)
(* (src/src/session.rs 484-519).  The Session is the abstract one of       *)
(* SessionLife.                                                            *)
(*                                                                         *)
(* The contract modelled: the encoder is dropped before the Session it is  *)
(* bound to (opus.rs 7-8); the decoder is changed and dropped, and the     *)
(* sniffer read (log.rs 132-133), only while no C thread runs or will run. *)
(* opus.rs asks less of the decoder, to be dropped before the Session; that*)
(* is too little while the Session runs: see the README.                   *)
(*                                                                         *)
(* External: the C thread that decodes, logs and owns the video receiver;  *)
(* one stands for all of them, since several of them in one sniffer are    *)
(* undefined behaviour upstream (log.rs 107-109).  How the sink gets to    *)
(* the Session is the application's doing: no method takes one.            *)
(***************************************************************************)
EXTENDS Naturals

CONSTANTS Pairs,        \* the DecoderCbs the application may box: a bound
          NoPair,       \* None, and the null pointer
          FrameLens     \* frame_size x channels of the headers it binds

ASSUME ClientsAssumption == NoPair \notin Pairs /\ FrameLens \subseteq Nat

VARIABLES
    life,       \* the Session: the phase of SessionLife
    joined,     \* has join returned Ok?
    call,       \* the call the application is in, and its next step
    arg,        \* its local: a pointer read from C, or a length
    enc,        \* the OpusEncoder
    expected,   \* frame_size x channels of its audio_header
    dec,        \* the OpusDecoder's raw object
    wired,      \* does the Session feed the decoder's sink?
    settingsCb, frameCb, cbUser,    \* the three fields C reads
    cbs,        \* the field _cbs: the box the decoder owns
    holder,     \* the local of a set_cb in progress
    box,        \* the boxes
    receiver,   \* stream_connection.video_receiver
    sniff,      \* the LogSniffer
    sniffed,    \* is its log the Session's?
    at,         \* where the C thread is
    via, inside \* the trampoline it calls and the box it gives it

session == <<life, joined, sniffed>>
app     == <<call, arg>>
encoder == <<enc, expected>>
fields  == <<settingsCb, frameCb, cbUser>>
decoder == <<dec, wired, fields, cbs, holder, box>>
cthread == <<at, via, inside>>
vars    == <<session, app, encoder, decoder, receiver, sniff, cthread>>

Life == INSTANCE SessionLife WITH phase <- life

MaybePair == Pairs \cup {NoPair}
Lens      == FrameLens \cup {0}

TypeOK ==
    /\ life \in {"none", "idle", "running", "ended", "freed"}
    /\ joined \in BOOLEAN
    /\ call \in {"none", "frame", "idr", "receiver", "receiver_use", "buffer",
                 "set_settings", "set_frame", "set_user", "set_holder"}
    /\ arg \in Nat
    /\ enc \in {"none", "made", "bound", "gone"}
    /\ expected \in Nat
    /\ dec \in {"none", "live", "freed"}
    /\ wired \in BOOLEAN
    /\ settingsCb \in MaybePair
    /\ frameCb \in MaybePair
    /\ cbUser \in MaybePair
    /\ cbs \in MaybePair
    /\ holder \in MaybePair
    /\ box \in [Pairs -> {"unused", "live", "freed"}]
    /\ receiver \in {0, 1}
    /\ sniff \in {"none", "live", "freed"}
    /\ sniffed \in BOOLEAN
    /\ at \in {"out", "fetched", "in", "push"}
    /\ via \in MaybePair
    /\ inside \in MaybePair

Init ==
    /\ Life!Init
    /\ joined = FALSE
    /\ call = "none"
    /\ arg = 0
    /\ enc = "none"
    /\ expected = 0
    /\ dec = "none"
    /\ wired = FALSE
    /\ settingsCb = NoPair
    /\ frameCb = NoPair
    /\ cbUser = NoPair
    /\ cbs = NoPair
    /\ holder = NoPair
    /\ box = [p \in Pairs |-> "unused"]
    /\ receiver = 0
    /\ sniff = "none"
    /\ sniffed = FALSE
    /\ at = "out"
    /\ via = NoPair
    /\ inside = NoPair

(* The application knows that no C thread runs when none was started, when *)
(* join answered Ok, and when the Session is gone.                         *)
Still == life \in {"none", "idle", "freed"} \/ joined

(* A call of one step, the steps of a longer one. *)
Idle == call = "none"
Goto(from, to) == call = from /\ call' = to

-----------------------------------------------------------------------------
(* The Session.  It borrows the log it is given, a sniffer's or another    *)
(* (session.rs 281-287), which therefore lives as long as it does.         *)

SessionNew ==
    /\ Idle
    /\ Life!New
    /\ sniffed' \in {FALSE, sniff = "live"}
    /\ UNCHANGED <<joined, app, encoder, decoder, receiver, sniff, cthread>>

(* No closure of a Session to be started feeds a decoder that is gone.     *)
SessionStart ==
    /\ Idle
    /\ wired => dec = "live"
    /\ Life!Start
    /\ UNCHANGED <<joined, sniffed, app, encoder, decoder, receiver, sniff,
                   cthread>>

JoinReturnsEarly == life \in {"running", "ended"}    \* slip: Ok without waiting
JoinReturns == life = "ended"

Join ==
    /\ Idle
    /\ JoinReturns
    /\ joined' = TRUE
    /\ UNCHANGED <<life, sniffed, app, encoder, decoder, receiver, sniff, cthread>>

(* Drop of the Session, which has waited for the threads; with it go the   *)
(* closures that feed the sink.                                            *)
SessionDrop ==
    /\ Idle
    /\ enc # "bound"
    /\ Life!Free
    /\ wired' = FALSE
    /\ UNCHANGED <<joined, sniffed, app, encoder, dec, fields, cbs, holder,
                   box, receiver, sniff, cthread>>

(* set_controller_state .. set_stream_connection_switch_received: C copies *)
(* what it is given, under its own locks.                                  *)
Forward ==
    /\ Idle
    /\ life \in {"idle", "running", "ended"}
    /\ UNCHANGED vars

(* request_idr: refused before start. *)
RequestIdr ==
    /\ life \in {"idle", "running", "ended"}
    /\ \/ life # "idle" /\ Goto("none", "idr")
       \/ Goto("idr", "none")
    /\ UNCHANGED <<session, arg, encoder, decoder, receiver, sniff, cthread>>

(* video_receiver_*: read the pointer once; use it if it is not null.  The *)
(* stream may take the receiver away in between, or while C is in it.      *)
ReceiverRead ==
    /\ life \in {"idle", "running", "ended"}
    /\ Goto("none", "receiver")
    /\ arg' = receiver
    /\ UNCHANGED <<session, encoder, decoder, receiver, sniff, cthread>>

ReceiverUse ==
    /\ \/ /\ arg # 0
          /\ Goto("receiver", "receiver_use")
          /\ UNCHANGED arg
       \/ /\ arg = 0
          /\ Goto("receiver", "none")
          /\ UNCHANGED arg
       \/ /\ Goto("receiver_use", "none")
          /\ arg' = 0
    /\ UNCHANGED <<session, encoder, decoder, receiver, sniff, cthread>>

-----------------------------------------------------------------------------
(* OpusEncoder: made, bound to a Session by header, fed by frame.          *)

EncoderNew ==
    /\ Idle
    /\ enc = "none"
    /\ enc' = "made"
    /\ UNCHANGED <<session, app, expected, decoder, receiver, sniff, cthread>>

(* header hands over the Session; C may refuse the audio parameters.       *)
EncoderHeader(n) ==
    /\ Idle
    /\ enc \in {"made", "bound"}
    /\ life \in {"idle", "running", "ended"}
    /\ enc' = "bound"
    /\ expected' = n
    /\ UNCHANGED <<session, app, decoder, receiver, sniff, cthread>>

MayFrameUnbound(n) == n = expected     \* slip: an empty frame fits no header
MayFrame(n) == expected # 0 /\ n = expected

EncoderFrame(n) ==
    /\ \/ /\ enc \in {"made", "bound"}
          /\ MayFrame(n)
          /\ Goto("none", "frame")
          /\ arg' = n
       \/ /\ Goto("frame", "none")
          /\ arg' = 0
    /\ UNCHANGED <<session, encoder, decoder, receiver, sniff, cthread>>

EncoderDrop ==
    /\ Idle
    /\ enc \in {"made", "bound"}
    /\ enc' = "gone"
    /\ expected' = 0
    /\ UNCHANGED <<session, app, decoder, receiver, sniff, cthread>>

-----------------------------------------------------------------------------
(* OpusDecoder.  set_cb boxes the closures, writes the fields C reads one  *)
(* after the other, and then replaces the box it owns.                     *)

DecoderNew ==
    /\ Idle
    /\ dec = "none"
    /\ dec' = "live"
    /\ UNCHANGED <<session, app, encoder, wired, fields, cbs, holder, box,
                   receiver, sniff, cthread>>

DecoderSink ==
    /\ Idle
    /\ dec = "live"
    /\ life = "idle"
    /\ wired' = TRUE
    /\ UNCHANGED <<session, app, encoder, dec, fields, cbs, holder, box,
                   receiver, sniff, cthread>>

SetCbBegin(p) ==
    /\ dec = "live"
    /\ Still
    /\ box[p] = "unused"
    /\ Goto("none", "set_settings")
    /\ holder' = p
    /\ box' = [box EXCEPT ![p] = "live"]
    /\ UNCHANGED <<session, arg, encoder, dec, wired, fields, cbs, receiver,
                   sniff, cthread>>

(* Slip: the field keeps what an earlier set_cb wrote.                     *)
NewUserKept == IF cbUser = NoPair THEN holder ELSE cbUser
NewUser == holder

SetCbFields ==
    /\ \/ /\ Goto("set_settings", "set_frame")
          /\ settingsCb' = holder
          /\ UNCHANGED <<frameCb, cbUser>>
       \/ /\ Goto("set_frame", "set_user")
          /\ frameCb' = holder
          /\ UNCHANGED <<settingsCb, cbUser>>
       \/ /\ Goto("set_user", "set_holder")
          /\ cbUser' = NewUser
          /\ UNCHANGED <<settingsCb, frameCb>>
    /\ UNCHANGED <<session, arg, encoder, dec, wired, cbs, holder, box,
                   receiver, sniff, cthread>>

(* The old box, if any, goes with the value the field held.                *)
(* Slips: the box is left, or None is released as well.                    *)
FreedLeaks(p) == box
FreedNone(p) == [q \in Pairs \cup {p} |-> IF q = p THEN "freed" ELSE box[q]]
Freed(p) == [q \in Pairs |-> IF q = p THEN "freed" ELSE box[q]]

SetCbEnd ==
    /\ Goto("set_holder", "none")
    /\ box' = Freed(cbs)
    /\ cbs' = holder
    /\ holder' = NoPair
    /\ UNCHANGED <<session, arg, encoder, dec, wired, fields, receiver, sniff,
                   cthread>>

(* Drop: the fields to None and null, the box, then fini. *)
DecoderDrop ==
    /\ Idle
    /\ dec = "live"
    /\ Still
    /\ settingsCb' = NoPair
    /\ frameCb' = NoPair
    /\ cbUser' = NoPair
    /\ box' = Freed(cbs)
    /\ cbs' = NoPair
    /\ dec' = "freed"
    /\ UNCHANGED <<session, app, encoder, wired, holder, receiver, sniff,
                   cthread>>

-----------------------------------------------------------------------------
(* LogSniffer. *)

SnifferNew ==
    /\ Idle
    /\ sniff = "none"
    /\ sniff' = "live"
    /\ UNCHANGED <<session, app, encoder, decoder, receiver, cthread>>

Buffer ==
    /\ \/ sniff = "live" /\ Still /\ Goto("none", "buffer")
       \/ Goto("buffer", "none")
    /\ UNCHANGED <<session, arg, encoder, decoder, receiver, sniff, cthread>>

SnifferDrop ==
    /\ Idle
    /\ sniff = "live"
    /\ sniffed => life = "freed"
    /\ sniff' = "freed"
    /\ UNCHANGED <<session, app, encoder, decoder, receiver, cthread>>

-----------------------------------------------------------------------------
(* The C thread. *)

CThreadStep(from, to) ==
    /\ life = "running"
    /\ at = from
    /\ at' = to
    /\ UNCHANGED <<session, app, encoder, decoder, sniff>>

(* The decoder reads one of its callbacks, then its user pointer, and calls*)
(* the one with the other.  A trampoline does nothing with a null pointer. *)
Fetch(p) ==
    /\ wired
    /\ p \in {settingsCb, frameCb} \ {NoPair}
    /\ via' = p
    /\ CThreadStep("out", "fetched")
    /\ UNCHANGED <<inside, receiver>>

Trampoline ==
    /\ inside' = cbUser
    /\ CThreadStep("fetched", IF cbUser = NoPair THEN "out" ELSE "in")
    /\ UNCHANGED <<via, receiver>>

(* The closure returns or panics: catch_unwind ends before the guard.      *)
Return ==
    /\ inside' = NoPair
    /\ via' = NoPair
    /\ CThreadStep("in", "out")
    /\ UNCHANGED receiver

(* Logging: the sniffer's buffer is extended, perhaps moved, without a lock*)
Push ==
    /\ \/ sniffed /\ CThreadStep("out", "push")
       \/ CThreadStep("push", "out")
    /\ UNCHANGED <<via, inside, receiver>>

(* The stream makes the receiver and takes it away again. *)
Stream ==
    /\ receiver' = 1 - receiver
    /\ CThreadStep("out", "out")
    /\ UNCHANGED <<via, inside>>

(* The last C thread ends; the stream has taken its receiver away by then. *)
ThreadsEnd ==
    /\ at = "out"
    /\ receiver = 0
    /\ Life!End
    /\ UNCHANGED <<joined, sniffed, app, encoder, decoder, receiver, sniff,
                   cthread>>

-----------------------------------------------------------------------------

Next ==
    \/ SessionNew \/ SessionStart \/ Join \/ SessionDrop \/ Forward
    \/ RequestIdr \/ ReceiverRead \/ ReceiverUse
    \/ EncoderNew \/ EncoderDrop
    \/ \E n \in Lens : EncoderHeader(n) \/ EncoderFrame(n)
    \/ DecoderNew \/ DecoderSink \/ SetCbFields \/ SetCbEnd \/ DecoderDrop
    \/ \E p \in Pairs : SetCbBegin(p) \/ Fetch(p)
    \/ SnifferNew \/ Buffer \/ SnifferDrop
    \/ Trampoline \/ Return \/ Push \/ Stream \/ ThreadsEnd

Spec == Init /\ [][Next]_vars

-----------------------------------------------------------------------------
(* Properties.                                                             *)

(* When the C thread reads the decoder or is in one of its closures, the   *)
(* decoder and the box are there, through any number of set_cb (Drop,      *)
(* opus.rs 183-188: "first take C's references away, then release"), and   *)
(* the box is the one the trampoline was compiled for, though set_cb       *)
(* (163-165) writes the fields C reads one by one.                         *)
SinkReachesLive ==
    /\ at \in {"fetched", "in"} => dec = "live"
    /\ at = "in" => box[inside] = "live" /\ via = inside

(* Ownership: a box is allocated exactly while the decoder, or a set_cb in *)
(* progress, owns it, and none is left when the decoder is gone.           *)
BoxesOwned ==
    /\ \A p \in Pairs : box[p] = "live" <=> p \in {cbs, holder}
    /\ dec = "freed" => \A p \in Pairs : box[p] # "live"

(* C encodes expected samples for the Session of the last header: the slice*)
(* has them, and the Session is there (frame, opus.rs 54-61, against the   *)
(* encoder without a header, whose expected length an empty slice has).    *)
FrameReachesSession ==
    call = "frame" =>
        enc = "bound" /\ arg = expected /\ life \in {"idle", "running", "ended"}

(* buffer() never reads while the C thread extends the sniffer's buffer,   *)
(* and no C thread logs through a sniffer that is gone (log.rs 107-112).   *)
SnifferUnshared == at = "push" => sniff = "live" /\ call # "buffer"

=============================================================================
