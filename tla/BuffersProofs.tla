---------------------------- MODULE BuffersProofs ----------------------------
(***************************************************************************)
(* Theorems about Buffers, for inputs of any length.                       *)
(***************************************************************************)
EXTENDS Buffers, TLAPS

(* The rooms for base64 hold the longest result (common.rs 95-122).        *)
LEMMA EncodeFits ==
    ASSUME NEW n \in Nat
    PROVE  /\ EncodeRoom(n) \in Nat
           /\ ((n + 2) \div 3) * 4 + 1 \in Nat \ {0}
           /\ ((n + 2) \div 3) * 4 + 1 <= EncodeRoom(n)
<1>1. /\ n \div 3 \in Nat /\ (n + 2) \div 3 \in Nat
      /\ (n + 2) \div 3 <= n \div 3 + 1
  OBVIOUS
<1> QED
  BY <1>1 DEF EncodeRoom

LEMMA DecodeFits ==
    ASSUME NEW n \in Nat, NEW k \in 0..2, k <= (n * 3) \div 4
    PROVE  /\ DecodeRoom(n) \in Nat
           /\ (n * 3) \div 4 - k \in Nat
           /\ (n * 3) \div 4 - k <= DecodeRoom(n)
<1>1. /\ n \div 4 \in Nat /\ (n * 3) \div 4 \in Nat
      /\ (n * 3) \div 4 <= (n \div 4) * 3 + 3
  OBVIOUS
<1> QED
  BY <1>1 DEF DecodeRoom

(* The buffers format tries: 256 doubled up to 1 MiB, and no other.        *)
FormatSizes ==
    {256, 512, 1024, 2048, 4096, 8192, 16384, 32768, 65536, 131072, 262144,
     524288, 1048576}

LEMMA NextFormatSize ==
    ASSUME NEW n \in FormatSizes
    PROVE  /\ ~PastLimit(NextSize(n)) => NextSize(n) \in FormatSizes
           /\ PastLimit(NextSize(n)) => n = LimitSize
  BY DEF FormatSizes, PastLimit, NextSize, LimitSize

(* What C is given, while a call is on its way and after it.               *)
GivenInv ==
    /\ op \in {"encode", "decode"} => need <= cap
    /\ op = "encode" /\ pc # "idle" => need >= 1
    /\ op = "header" /\ pc # "idle" => need = HeaderSize /\ need <= cap
    /\ op = "uid" => need <= cap
    /\ op = "format" => cap \in FormatSizes

(* What C has done with it. *)
DoneInv ==
    /\ touched <= cap
    /\ pc = "small" => op \in Bounded /\ need > cap
    /\ pc = "back" /\ size >= 0 =>
          /\ op # "uid" => size = need
          /\ op # "packet" => need <= cap

ReturnedInv ==
    pc = "idle" =>
        /\ reply = "ok" => result <= cap
        /\ op = "format" /\ reply = "ok" => result = need
        /\ op = "format" /\ reply = "small" => need > LimitSize

BuffersInv == TypeOK /\ GivenInv /\ DoneInv /\ ReturnedInv

LEMMA BuffersInit == Init => BuffersInv
  BY DEF Init, BuffersInv, TypeOK, Ops, Bounded, GivenInv, DoneInv, ReturnedInv

LEMMA BuffersStep == BuffersInv /\ [Next]_vars => BuffersInv'
<1> SUFFICES ASSUME BuffersInv, [Next]_vars PROVE BuffersInv'
  OBVIOUS
<1> USE LengthsAssumption
    DEF BuffersInv, TypeOK, Ops, Bounded, GivenInv, DoneInv, ReturnedInv, call,
        c, given, Begin, Answer, Refuse, Smaller
<1>1. ASSUME NEW n \in Lengths, Encode(n) PROVE BuffersInv'
  <2>1. n \in Nat
    OBVIOUS
  <2> QED
    BY <1>1, <2>1, EncodeFits DEF Encode
<1>2. ASSUME NEW n \in Lengths, Decode(n) PROVE BuffersInv'
  <2>1. n \in Nat
    OBVIOUS
  <2>2. CASE n > 0 /\ Refuse("decode")
    BY <2>2
  <2>3. ASSUME NEW k \in 0..2, k <= (n * 3) \div 4,
               Begin("decode", DecodeRoom(n), (n * 3) \div 4 - k)
        PROVE  BuffersInv'
    BY <2>1, <2>3, DecodeFits
  <2> QED
    BY <1>2, <2>2, <2>3 DEF Decode
<1>3. ASSUME NEW n \in Lengths, Format(n) PROVE BuffersInv'
  BY <1>3 DEF Format, FirstSize, FormatSizes
<1>4. CASE DeviceUid
  BY <1>4 DEF DeviceUid, UidSize
<1>5. ASSUME NEW n \in Lengths, PacketFormat(n) PROVE BuffersInv'
  BY <1>5 DEF PacketFormat, PacketSize
<1>6. ASSUME NEW n \in Lengths, Header(n) PROVE BuffersInv'
  BY <1>6 DEF Header, HeaderFits, HeaderSize
<1>7. CASE CFails
  BY <1>7 DEF CFails
<1>8. CASE CFills
  BY <1>8 DEF CFills, HeaderSize
<1>9. CASE CTooSmall
  BY <1>9 DEF CTooSmall
<1>10. CASE Retry
  <2>1. NextSize(cap) \in FormatSizes /\ NextSize(cap) \in Nat
    BY <1>10, NextFormatSize DEF Retry, NextSize
  <2> QED
    BY <1>10, <2>1 DEF Retry
<1>11. CASE GiveUp
  <2>1. op = "format" => need > LimitSize
    BY <1>11, NextFormatSize DEF GiveUp
  <2> QED
    BY <1>11, <2>1 DEF GiveUp
<1>12. CASE Finish
  <2>1. CASE size < 0
    BY <1>12, <2>1 DEF Finish
  <2>2. CASE size >= 0
    <3>1. Taken \in Nat /\ Taken <= cap /\ (op = "format" => Taken = need)
      BY <1>12, <2>2 DEF Finish, Taken, Cut
    <3> QED
      BY <1>12, <2>2, <3>1 DEF Finish
  <2> QED
    BY <2>1, <2>2
<1>13. CASE UNCHANGED vars
  BY <1>13 DEF vars
<1> QED
  BY <1>1, <1>2, <1>3, <1>4, <1>5, <1>6, <1>7, <1>8, <1>9, <1>10, <1>11,
     <1>12, <1>13 DEF Next, InCall

LEMMA BuffersHold == Spec => []BuffersInv
  BY BuffersInit, BuffersStep, PTL DEF Spec

(* Every reachable state is well typed. *)
THEOREM BuffersTypeCorrect == Spec => []TypeOK
<1>1. BuffersInv => TypeOK
  BY DEF BuffersInv
<1> QED
  BY <1>1, BuffersHold, PTL

(* Nothing is read or written past a buffer, for any length (common.rs     *)
(* 95-122, session.rs 546-570, holepunch.rs 57-63, discovery.rs 85-100).   *)
THEOREM NeverOutOfBounds == Spec => []InBounds
<1>1. BuffersInv => InBounds
  BY DEF BuffersInv, DoneInv, ReturnedInv, InBounds
<1> QED
  BY <1>1, BuffersHold, PTL

(* base64 always has room, and format returns all of a history of up to    *)
(* 1 MiB, for any length (common.rs 95-122, feedback.rs 59-83).            *)
THEOREM AlwaysRoom == Spec => []RoomEnough
<1>1. BuffersInv => (op \in {"encode", "decode"} => pc # "small")
  BY DEF BuffersInv, TypeOK, GivenInv, DoneInv
<1>2. BuffersInv => (pc = "idle" /\ op = "format" =>
                       /\ reply = "ok" => result = need
                       /\ reply = "small" => need > LimitSize)
  BY DEF BuffersInv, ReturnedInv
<1> QED
  BY <1>1, <1>2, BuffersHold, PTL DEF RoomEnough

-----------------------------------------------------------------------------
(* Why a call returns: CallReturns is what follows, and fairness.          *)

(* The steps a call has left at most, the doublings of format counted by   *)
(* the bytes they add.                                                     *)
Measure ==
    (CASE pc = "idle" -> 0 [] pc = "back" -> 1 [] pc = "small" -> 2
       [] pc = "call" -> 3)
    + (IF op = "format" /\ pc \in {"call", "small"} THEN 2 * (LimitSize - cap)
       ELSE 0)

(* Every step of a call brings it nearer to its end.                       *)
Nearer == InCall => Measure' < Measure

LEMMA MeasureIsNat == BuffersInv => Measure \in Nat
<1> SUFFICES ASSUME BuffersInv PROVE Measure \in Nat
  OBVIOUS
<1>1. op = "format" => LimitSize - cap \in Nat
  BY DEF BuffersInv, GivenInv, FormatSizes, LimitSize
<1> QED
  BY <1>1 DEF BuffersInv, TypeOK, Measure

LEMMA StepIsNearer == BuffersInv => Nearer
<1> SUFFICES ASSUME BuffersInv, InCall PROVE Measure' < Measure
  BY DEF Nearer
<1>1. op = "format" => cap \in Nat /\ LimitSize - cap \in Nat /\ cap > 0
  BY DEF BuffersInv, GivenInv, FormatSizes, LimitSize
<1> USE DEF BuffersInv, TypeOK, Measure, call, c, given
<1>2. CASE CFails
  BY <1>1, <1>2 DEF CFails
<1>3. CASE CFills
  BY <1>1, <1>3 DEF CFills
<1>4. CASE CTooSmall
  BY <1>1, <1>4 DEF CTooSmall
<1>5. CASE Retry
  <2>1. LimitSize \in Nat
    BY DEF LimitSize
  <2> QED
    BY <1>1, <1>5, <2>1 DEF Retry, NextSize
<1>6. CASE GiveUp
  BY <1>1, <1>6 DEF GiveUp, Answer
<1>7. CASE Finish
  BY <1>7 DEF Finish, Answer
<1> QED
  BY <1>2, <1>3, <1>4, <1>5, <1>6, <1>7 DEF InCall

(* The loop of format ends, for a history of any size, and so does every   *)
(* other call: each step lowers a natural number (feedback.rs 59-83).      *)
THEOREM CallsGetNearer == Spec => [](Measure \in Nat) /\ [][Nearer]_vars
  BY MeasureIsNat, StepIsNearer, BuffersHold, PTL

=============================================================================
