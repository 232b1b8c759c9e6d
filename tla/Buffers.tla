------------------------------- MODULE Buffers -------------------------------
(***************************************************************************)
(* The buffers the crate sizes itself and hands to C: base64 (common.rs),  *)
(* the feedback history (feedback.rs), the device uid (holepunch.rs), the  *)
(* discovery packet (discovery.rs) and the serialised audio header         *)
(* (session.rs).  One call is in progress at a time; a call is what it is  *)
(* asked for (need), the buffer C gets (cap), what C touches of it and     *)
(* reports, and the part the caller is given.  Contents are left out.      *)
(*                                                                         *)
(* A definition marked "slip" is no part of the model: it is a mistake the *)
(* properties must catch.                                                  *)
(*                                                                         *)
(* External: how much the C functions write.  Those that are told the size *)
(* keep within it and answer BUF_TOO_SMALL, or, like snprintf, report what *)
(* they would have written; the two for audio headers touch 14 bytes.      *)
(***************************************************************************)
EXTENDS Integers

CONSTANTS Lengths    \* of inputs and of formatted texts, in bytes

ASSUME LengthsAssumption == Lengths \subseteq Nat

VARIABLES
    pc,         \* "idle", or how far the call has got
    op,         \* the call
    need,       \* the bytes its whole result takes
    cap,        \* the buffer in C's hands
    touched,    \* the bytes of it C has read or written
    size,       \* the size C reported, -1 for an error of its own
    reply,      \* what the last call returned
    result      \* and how many bytes with it

call  == <<op, need, cap>>
c     == <<touched, size>>
given == <<reply, result>>
vars  == <<pc, call, c, given>>

Bounded == {"encode", "decode", "format", "uid"}
Ops     == Bounded \cup {"packet", "header"}

HeaderSize == 14
FirstSize  == 256
LimitSize  == 1024 * 1024
UidSize    == 49
PacketSize == 512

TypeOK ==
    /\ pc \in {"idle", "call", "small", "back"}
    /\ op \in Ops
    /\ need \in Nat
    /\ cap \in Nat
    /\ touched \in Nat
    /\ size \in Nat \cup {-1}
    /\ reply \in {"none", "ok", "err", "small"}
    /\ result \in Nat

Init ==
    /\ pc = "idle"
    /\ op = "encode"
    /\ need = 0
    /\ cap = 0
    /\ touched = 0
    /\ size = 0
    /\ reply = "none"
    /\ result = 0

Smaller(m, n) == IF m < n THEN m ELSE n

-----------------------------------------------------------------------------
(* The beginnings: a buffer is made, or the input refused. *)

Begin(o, room, bytes) ==
    /\ pc = "idle"
    /\ pc' = "call"
    /\ op' = o
    /\ cap' = room
    /\ need' = bytes
    /\ touched' = 0
    /\ size' = 0
    /\ reply' = "none"
    /\ result' = 0

Answer(r, n) ==
    /\ pc' = "idle"
    /\ reply' = r
    /\ result' = n

Refuse(o) ==
    /\ pc = "idle"
    /\ op' = o
    /\ need' = 0
    /\ cap' = 0
    /\ touched' = 0
    /\ size' = 0
    /\ Answer("err", 0)

(* Slip: no room for the NUL after a group begun. *)
EncodeRoomShort(n) == (n \div 3) * 4 + 4
EncodeRoom(n) == (n \div 3) * 4 + 5

(* Four characters for each three bytes begun, and a NUL. *)
Encode(n) == Begin("encode", EncodeRoom(n), ((n + 2) \div 3) * 4 + 1)

DecodeRoom(n) == (n \div 4) * 3 + 3

(* A character carries six bits or, as padding, none; a text with a NUL is *)
(* refused.                                                                *)
Decode(n) ==
    \/ \E padding \in 0..2 :
          /\ padding <= (n * 3) \div 4
          /\ Begin("decode", DecodeRoom(n), (n * 3) \div 4 - padding)
    \/ n > 0 /\ Refuse("decode")

(* The events pushed so far take n bytes. *)
Format(n) == Begin("format", FirstSize, n)

DeviceUid == Begin("uid", UidSize, UidSize)

PacketFormat(n) == Begin("packet", PacketSize, n)

(* AudioHeader::load and ::save, on the slice of the caller.  C is not told*)
(* its length.                                                             *)
HeaderFitsNearly(n) == n >= HeaderSize - 1     \* slip
HeaderFits(n) == n >= HeaderSize

Header(n) ==
    \/ HeaderFits(n) /\ Begin("header", n, HeaderSize)
    \/ ~HeaderFits(n) /\ Refuse("header")

-----------------------------------------------------------------------------
(* C. *)

CFails ==
    /\ pc = "call"
    /\ op # "header"
    /\ size' = -1
    /\ touched' \in {0, Smaller(need, cap)}
    /\ pc' = "back"
    /\ UNCHANGED <<call, given>>

(* A uid may be shorter than its buffer, and reported as longer. *)
CFills ==
    /\ pc = "call"
    /\ op \in Bounded => need <= cap
    /\ touched' = IF op = "header" THEN HeaderSize ELSE Smaller(need, cap)
    /\ size' \in IF op = "uid" THEN Lengths \cup {need} ELSE {need}
    /\ pc' = "back"
    /\ UNCHANGED <<call, given>>

CTooSmall ==
    /\ pc = "call"
    /\ op \in Bounded
    /\ need > cap
    /\ touched' = cap
    /\ pc' = "small"
    /\ UNCHANGED <<call, size, given>>

-----------------------------------------------------------------------------
(* Back in Rust. *)

(* Slips: the last size is not tried; the size stays as it is.             *)
PastLimitEarly(n) == n >= LimitSize
PastLimit(n) == n > LimitSize
NextSizeSame(n) == n
NextSize(n) == 2 * n

(* BUF_TOO_SMALL: format tries twice the size, up to 1 MiB; the others     *)
(* return the error.                                                       *)
Retry ==
    /\ pc = "small"
    /\ op = "format"
    /\ ~PastLimit(NextSize(cap))
    /\ cap' = NextSize(cap)
    /\ touched' = 0
    /\ pc' = "call"
    /\ UNCHANGED <<op, need, size, given>>

GiveUp ==
    /\ pc = "small"
    /\ op = "format" => PastLimit(NextSize(cap))
    /\ Answer("small", 0)
    /\ UNCHANGED <<call, c>>

(* What is cut out of the buffer: up to the NUL, up to the reported size,  *)
(* or up to its end if C reports more than it was given.                   *)
CutTrusting(n) == n                            \* slip
Cut(n) == Smaller(n, cap)

Taken ==
    IF op = "encode" THEN size - 1
    ELSE IF op \in {"uid", "packet"} THEN Cut(size)
    ELSE size

FinishUnchecked ==      \* slip: the error is taken for a size
    /\ pc = "back"
    /\ Answer("ok", Taken)
    /\ UNCHANGED <<call, c>>
Finish ==
    /\ pc = "back"
    /\ IF size < 0 THEN Answer("err", 0) ELSE Answer("ok", Taken)
    /\ UNCHANGED <<call, c>>

-----------------------------------------------------------------------------

InCall == CFails \/ CFills \/ CTooSmall \/ Retry \/ GiveUp \/ Finish

Next ==
    \/ InCall \/ DeviceUid
    \/ \E n \in Lengths : \/ Encode(n) \/ Decode(n) \/ Format(n)
                          \/ PacketFormat(n) \/ Header(n)

Spec == Init /\ [][Next]_vars

(* A call that has begun goes on. *)
FairSpec == Spec /\ WF_vars(InCall)

-----------------------------------------------------------------------------
(* Properties, of the call that has just returned and of the one under way.*)

(* C never reads or writes past the buffer it is given, nor does Rust take *)
(* more than there is: the functions that are not told a length (load and  *)
(* save, session.rs 548-549, 559-560), and the sizes C reports back.       *)
InBounds ==
    /\ touched <= cap
    /\ pc = "idle" /\ reply = "ok" => result <= cap

(* Nothing that fits is refused for want of room: base64 never, whatever   *)
(* the length modulo three or four (common.rs 97, "upper bound of the      *)
(* length"), and a history only above 1 MiB; up to there it is returned    *)
(* whole (feedback.rs 59).                                                 *)
RoomEnough ==
    /\ op \in {"encode", "decode"} => pc # "small"
    /\ pc = "idle" /\ op = "format" =>
          /\ reply = "ok" => result = need
          /\ reply = "small" => need > LimitSize

(* The call returns: the loop of format ends. *)
CallReturns == pc # "idle" ~> pc = "idle"

=============================================================================
