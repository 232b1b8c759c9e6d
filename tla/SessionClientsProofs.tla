------------------------- MODULE SessionClientsProofs -------------------------
(***************************************************************************)
(* Theorems about SessionClients, for any closures and frame lengths.      *)
(***************************************************************************)
EXTENDS SessionClients, TLAPS

InSetCb == call \in {"set_settings", "set_frame", "set_user", "set_holder"}

(* A C thread is anywhere but outside only while the Session runs, which   *)
(* it does not when the application believes it does not.                  *)
ThreadsInv ==
    /\ joined => life \in {"ended", "freed"}
    /\ life # "running" => at = "out" /\ receiver = 0
    /\ life = "running" /\ wired => dec = "live"
    /\ call = "buffer" \/ InSetCb => Still

(* The fields C reads are those of the box the decoder owns, except where  *)
(* set_cb has got on the way.                                              *)
FieldsInv ==
    /\ dec # "live" => settingsCb = NoPair /\ frameCb = NoPair /\ cbs = NoPair
                       /\ cbUser = NoPair
    /\ ~InSetCb =>
          settingsCb = cbs /\ frameCb = cbs /\ cbUser = cbs /\ holder = NoPair
    /\ InSetCb => dec = "live" /\ holder \in Pairs /\ cbs # holder
    /\ call \in {"set_frame", "set_user", "set_holder"} => settingsCb = holder
    /\ call \in {"set_user", "set_holder"} => frameCb = holder
    /\ call = "set_holder" => cbUser = holder

BoxInv == \A p \in Pairs : box[p] = "live" <=> p \in {cbs, holder}

TrampolineInv ==
    /\ at = "fetched" => wired /\ via \in Pairs /\ via = cbUser
    /\ at = "in" => wired /\ via \in Pairs /\ via = cbs /\ inside = cbs

EncoderInv ==
    /\ expected # 0 => enc = "bound"
    /\ enc = "bound" => life \in {"idle", "running", "ended"}
    /\ call = "frame" => enc = "bound" /\ arg = expected

(* Who has read a receiver has read it while the threads were running.     *)
ReceiverInv ==
    /\ call = "receiver" /\ arg # 0 => life \in {"running", "ended"} /\ ~joined
    /\ call = "receiver_use" => life \in {"running", "ended"} /\ ~joined

SnifferInv ==
    /\ sniffed /\ life \in {"idle", "running", "ended"} => sniff = "live"
    /\ at = "push" => sniffed

ClientsInv ==
    /\ TypeOK
    /\ ThreadsInv
    /\ FieldsInv
    /\ BoxInv
    /\ TrampolineInv
    /\ EncoderInv
    /\ ReceiverInv
    /\ SnifferInv

LEMMA ClientsInit == Init => ClientsInv
<1> SUFFICES ASSUME Init PROVE ClientsInv
  OBVIOUS
<1> USE ClientsAssumption DEF Init, Life!Init
<1>1. TypeOK
  BY DEF TypeOK, MaybePair
<1>2. ThreadsInv /\ EncoderInv /\ ReceiverInv /\ SnifferInv /\ TrampolineInv
  BY DEF ThreadsInv, InSetCb, EncoderInv, ReceiverInv, SnifferInv, TrampolineInv
<1>3. FieldsInv /\ BoxInv
  BY DEF FieldsInv, InSetCb, BoxInv
<1> QED
  BY <1>1, <1>2, <1>3 DEF ClientsInv

LEMMA ClientsStep == ClientsInv /\ [Next]_vars => ClientsInv'
<1> SUFFICES ASSUME ClientsInv, [Next]_vars PROVE ClientsInv'
  OBVIOUS
<1> USE ClientsAssumption
    DEF ClientsInv, TypeOK, MaybePair, ThreadsInv, InSetCb, Still, FieldsInv,
        BoxInv, TrampolineInv, EncoderInv, ReceiverInv, SnifferInv, session, app,
        encoder, fields, decoder, cthread, Idle, Goto
<1>1. CASE SessionNew
  <2>1. /\ life = "none" /\ life' \in {"idle", "freed"}
        /\ sniffed' \in BOOLEAN /\ (sniffed' => sniff = "live")
        /\ UNCHANGED <<joined, app, encoder, decoder, receiver, sniff, cthread>>
        /\ call = "none"
    BY <1>1 DEF SessionNew, Life!New
  <2>2. at = "out" /\ enc # "bound" /\ ~joined
    BY <2>1
  <2>3. TypeOK'
    BY <2>1
  <2> QED
    BY <2>1, <2>2, <2>3
<1>2. CASE SessionStart
  BY <1>2 DEF SessionStart, Life!Start
<1>3. CASE Join
  BY <1>3 DEF Join, JoinReturns
<1>4. CASE SessionDrop
  <2>1. /\ life \in {"idle", "ended"} /\ life' = "freed" /\ wired' = FALSE
        /\ call = "none" /\ enc # "bound"
        /\ UNCHANGED <<joined, sniffed, app, encoder, dec, fields, cbs, holder,
                       box, receiver, sniff, cthread>>
    BY <1>4 DEF SessionDrop, Life!Free
  <2>2. at = "out" /\ receiver = 0
    BY <2>1
  <2>3. wired' \in BOOLEAN
    BY <2>1
  <2>4. TypeOK'
    BY <2>1, <2>3
  <2> QED
    BY <2>1, <2>2, <2>4
<1>5. CASE Forward \/ UNCHANGED vars
  BY <1>5 DEF Forward, vars
<1>6. CASE RequestIdr
  BY <1>6 DEF RequestIdr
<1>7. CASE ReceiverRead \/ ReceiverUse
  BY <1>7 DEF ReceiverRead, ReceiverUse
<1>8. CASE EncoderNew \/ EncoderDrop
  BY <1>8 DEF EncoderNew, EncoderDrop
<1>9. ASSUME NEW n \in Lens, EncoderHeader(n) \/ EncoderFrame(n)
      PROVE  ClientsInv'
  BY <1>9 DEF EncoderHeader, EncoderFrame, MayFrame, Lens
<1>10. CASE DecoderNew
  BY <1>10 DEF DecoderNew
<1>11. CASE DecoderSink
  BY <1>11 DEF DecoderSink
<1>12. ASSUME NEW p \in Pairs, SetCbBegin(p) PROVE ClientsInv'
  BY <1>12 DEF SetCbBegin
<1>13. CASE SetCbFields
  BY <1>13 DEF SetCbFields, NewUser
<1>14. CASE SetCbEnd
  BY <1>14 DEF SetCbEnd, Freed
<1>15. CASE DecoderDrop
  BY <1>15 DEF DecoderDrop, Freed
<1>16. CASE SnifferNew \/ Buffer \/ SnifferDrop
  BY <1>16 DEF SnifferNew, Buffer, SnifferDrop
<1>17. ASSUME NEW p \in Pairs, Fetch(p) PROVE ClientsInv'
  BY <1>17 DEF Fetch, CThreadStep
<1>18. CASE Trampoline \/ Return \/ Push \/ Stream
  BY <1>18 DEF Trampoline, Return, Push, Stream, CThreadStep
<1>19. CASE ThreadsEnd
  BY <1>19 DEF ThreadsEnd, Life!End
<1> QED
  BY <1>1, <1>2, <1>3, <1>4, <1>5, <1>6, <1>7, <1>8, <1>9, <1>10, <1>11,
     <1>12, <1>13, <1>14, <1>15, <1>16, <1>17, <1>18, <1>19 DEF Next

LEMMA ClientsHold == Spec => []ClientsInv
  BY ClientsInit, ClientsStep, PTL DEF Spec

(* Every reachable state is well typed. *)
THEOREM ClientsTypeCorrect == Spec => []TypeOK
<1>1. ClientsInv => TypeOK
  BY DEF ClientsInv
<1> QED
  BY <1>1, ClientsHold, PTL

(* The C thread finds the decoder, and the closures of the trampoline it   *)
(* calls (opus.rs 84-111, 149-190).                                        *)
THEOREM SinkIsLive == Spec => []SinkReachesLive
<1>1. ClientsInv => SinkReachesLive
  BY DEF ClientsInv, TypeOK, ThreadsInv, TrampolineInv, BoxInv, SinkReachesLive
<1> QED
  BY <1>1, ClientsHold, PTL

(* The decoder's boxes are owned, and gone with it (opus.rs 158-166,       *)
(* 181-190).                                                               *)
THEOREM DecoderOwnsBoxes == Spec => []BoxesOwned
<1>1. ClientsInv => BoxesOwned
  BY ClientsAssumption
  DEF ClientsInv, TypeOK, ThreadsInv, FieldsInv, BoxInv, InSetCb, BoxesOwned
<1> QED
  BY <1>1, ClientsHold, PTL

(* A frame C encodes has the length of the header, and a Session to go to  *)
(* (opus.rs 37-61).                                                        *)
THEOREM FrameHasSession == Spec => []FrameReachesSession
<1>1. ClientsInv => FrameReachesSession
  BY DEF ClientsInv, EncoderInv, FrameReachesSession
<1> QED
  BY <1>1, ClientsHold, PTL

(* The stream may take its receiver away between the read and the use of a *)
(* video_receiver_* call, and C then works on released memory (session.rs  *)
(* 499-501).  How far this reaches: only into calls made between start and *)
(* the end of a successful join.  From join's Ok on, as before start, no   *)
(* call hands C a receiver at all, live or gone.                           *)
NoReceiverOutsideRun ==
    call = "receiver_use" => life \in {"running", "ended"} /\ ~joined

THEOREM NoReceiverAfterJoin == Spec => []NoReceiverOutsideRun
<1>1. ClientsInv => NoReceiverOutsideRun
  BY DEF ClientsInv, ReceiverInv, NoReceiverOutsideRun
<1> QED
  BY <1>1, ClientsHold, PTL

(* The sniffer's buffer is not read while it is written (log.rs 107-139).  *)
THEOREM SnifferIsUnshared == Spec => []SnifferUnshared
<1>1. ClientsInv => SnifferUnshared
  BY DEF ClientsInv, ThreadsInv, InSetCb, Still, SnifferInv, TypeOK,
         SnifferUnshared
<1> QED
  BY <1>1, ClientsHold, PTL

-----------------------------------------------------------------------------
(* The decoder keeps the promise of CallbackOwner for its boxes, with the  *)
(* Session's C thread as the thread that is inside one.                    *)

using == [t \in {"decoder"} |-> IF at = "in" THEN inside ELSE NoPair]

Owner == INSTANCE CallbackOwner WITH
    Closures <- Pairs, Threads <- {"decoder"}, NoClosure <- NoPair

(* What set_cb and Drop release is the box of the field, if any, and the   *)
(* Session is still: the C thread is in no closure.                        *)
LEMMA ReleaseStep ==
    ASSUME ClientsInv, box' = Freed(cbs), cthread' = cthread, at = "out"
    PROVE  Owner!Next \/ UNCHANGED <<box, using>>
<1> USE ClientsAssumption DEF ClientsInv, TypeOK, MaybePair, BoxInv, cthread
<1>1. using' = using /\ using["decoder"] = NoPair
  BY DEF using
<1>2. CASE cbs = NoPair
  BY <1>1, <1>2 DEF Freed
<1>3. CASE cbs \in Pairs
  <2>1. box[cbs] = "live" /\ box' = [box EXCEPT ![cbs] = "freed"]
    BY <1>3 DEF Freed
  <2>2. \A t \in {"decoder"} : using[t] # cbs
    BY <1>1, <1>3
  <2> QED
    BY <1>1, <1>3, <2>1, <2>2 DEF Owner!Next, Owner!Release
<1> QED
  BY <1>2, <1>3

LEMMA DecoderOwnerStep ==
    ClientsInv /\ [Next]_vars => [Owner!Next]_<<box, using>>
<1> SUFFICES ASSUME ClientsInv, [Next]_vars PROVE [Owner!Next]_<<box, using>>
  OBVIOUS
<1> USE ClientsAssumption
    DEF ClientsInv, TypeOK, MaybePair, session, app, encoder, fields, decoder,
        cthread
<1>1. CASE \/ SessionNew \/ SessionStart \/ Join \/ SessionDrop \/ Forward
           \/ RequestIdr \/ ReceiverRead \/ ReceiverUse \/ EncoderNew
           \/ EncoderDrop \/ DecoderNew \/ DecoderSink \/ SetCbFields
           \/ SnifferNew \/ Buffer \/ SnifferDrop \/ ThreadsEnd
           \/ UNCHANGED vars
  BY <1>1 DEF SessionNew, SessionStart, Join, SessionDrop, Forward, RequestIdr,
     ReceiverRead, ReceiverUse, EncoderNew, EncoderDrop, DecoderNew,
     DecoderSink, SetCbFields, SnifferNew, Buffer, SnifferDrop, ThreadsEnd,
     using, vars
<1>2. ASSUME NEW n \in Lens, EncoderHeader(n) \/ EncoderFrame(n)
      PROVE  UNCHANGED <<box, using>>
  BY <1>2 DEF EncoderHeader, EncoderFrame, using
<1>3. ASSUME NEW p \in Pairs, SetCbBegin(p) PROVE Owner!Next
  BY <1>3 DEF SetCbBegin, using, Owner!Next, Owner!Create
<1>4. CASE SetCbEnd
  <2>1. at = "out"
    BY <1>4 DEF SetCbEnd, Goto, ThreadsInv, InSetCb, Still
  <2> QED
    BY <1>4, <2>1, ReleaseStep DEF SetCbEnd
<1>5. CASE DecoderDrop
  <2>1. at = "out"
    BY <1>5 DEF DecoderDrop, ThreadsInv, Still
  <2> QED
    BY <1>5, <2>1, ReleaseStep DEF DecoderDrop
<1>6. ASSUME NEW p \in Pairs, Fetch(p) PROVE UNCHANGED <<box, using>>
  BY <1>6 DEF Fetch, CThreadStep, using
<1>7. CASE Push \/ Stream
  BY <1>7 DEF Push, Stream, CThreadStep, using
<1>8. CASE Trampoline
  <2>1. /\ cbUser \in Pairs /\ at = "fetched" /\ at' = "in"
        /\ inside' = cbUser /\ box' = box /\ life = "running"
    BY <1>8 DEF Trampoline, CThreadStep, TrampolineInv
  <2>2. cbs = cbUser
    BY <2>1 DEF ThreadsInv, Still, FieldsInv, InSetCb
  <2>3. box[cbUser] = "live"
    BY <2>1, <2>2 DEF BoxInv
  <2>4. using["decoder"] = NoPair /\ using' = [using EXCEPT !["decoder"] = cbUser]
    BY <2>1 DEF using
  <2>5. Owner!Enter("decoder", cbUser)
    BY <2>1, <2>3, <2>4 DEF Owner!Enter
  <2> QED
    BY <2>1, <2>5 DEF Owner!Next
<1>9. CASE Return
  <2>1. at = "in" /\ at' = "out" /\ box' = box /\ inside \in Pairs
    BY <1>9 DEF Return, CThreadStep, TrampolineInv
  <2>2. /\ using["decoder"] # NoPair
        /\ using' = [using EXCEPT !["decoder"] = NoPair]
    BY <2>1 DEF using
  <2>3. Owner!Leave("decoder")
    BY <2>1, <2>2 DEF Owner!Leave
  <2> QED
    BY <2>3 DEF Owner!Next
<1> QED
  BY <1>1, <1>2, <1>3, <1>4, <1>5, <1>6, <1>7, <1>8, <1>9 DEF Next

(* set_cb over set_cb, and a dropped decoder, release a box only when no C *)
(* thread is inside it; none is entered after that (opus.rs 84-111,        *)
(* 149-190).                                                               *)
THEOREM DecoderImplementsOwner == Spec => Owner!Spec
<1>1. Init => Owner!Init
  BY DEF Init, Owner!Init, using
<1>2. ClientsInv /\ [Next]_vars => [Owner!Next]_<<box, using>>
  BY DecoderOwnerStep
<1> QED
  BY <1>1, <1>2, ClientsHold, PTL DEF Spec, Owner!Spec, Owner!vars

=============================================================================
