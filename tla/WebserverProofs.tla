-------------------------- MODULE WebserverProofs --------------------------
(***************************************************************************)
(* What Webserver keeps for any partitions and any bounds: its types, that *)
(* the services follow the link, that no update is left in the library,    *)
(* and that it implements FirmwareUpdate.                                  *)
(***************************************************************************)
EXTENDS Webserver, TLAPS

\* What is still to be handled ends with the last event posted.
EventsEndWithLink ==
    /\ events # <<>> => events[Len(events)] = link
    /\ events = <<>> /\ evt \in {"startWeb", "startAgent"} => link
    /\ events = <<>> /\ evt \in {"stopWeb", "stopAgent"} => ~link
    /\ evt = "stopAgent" => ~server

\* A chunk that has been received was still to be received.
ChunkIsDue == req = "received" => remaining > 0

\* Another partition is chosen to be started only while a restart is due, and
\* both that one and the one that runs are whole.
BootIsWhole ==
    /\ boot # running => req = "reboot"
    /\ image[boot] = "whole" /\ image[running] = "whole"

\* An upload that is over and valid has left a whole image.
UploadIsWhole ==
    req = "ended" \/ (req = "receive" /\ valid /\ remaining = 0) =>
        image[UpdateSlot] = "whole"

-----------------------------------------------------------------------------
(* Queues.                                                                 *)

\* What is put at the end of a queue is its last element.
LEMMA AppendFacts ==
    ASSUME NEW S, NEW q \in Seq(S), NEW e \in S
    PROVE  /\ Append(q, e) \in Seq(S) /\ Len(Append(q, e)) = Len(q) + 1
           /\ Append(q, e) # <<>> /\ Append(q, e)[Len(Append(q, e))] = e
OBVIOUS

\* Taking the first element of a queue leaves its last one, if there is another.
LEMMA TailFacts ==
    ASSUME NEW S, NEW q \in Seq(S), q # <<>>
    PROVE  /\ Head(q) \in S
           /\ Tail(q) \in Seq(S) /\ Len(Tail(q)) = Len(q) - 1 /\ Len(q) \in Nat
           /\ Tail(q) = <<>> => q[Len(q)] = Head(q)
           /\ Tail(q) # <<>> => Tail(q)[Len(Tail(q))] = q[Len(q)]
<1>1. /\ Head(q) \in S /\ Head(q) = q[1] /\ Tail(q) \in Seq(S)
      /\ Len(q) \in Nat /\ Len(q) > 0 /\ Len(Tail(q)) = Len(q) - 1
  OBVIOUS
<1>7. Len(<<>>) = 0
  OBVIOUS
<1>2. Tail(q) = <<>> => Len(q) = 1
  <2>1. Tail(q) = <<>> => Len(Tail(q)) = 0
    BY <1>7, Zenon
  <2> QED BY <1>1, <2>1
<1>3. Tail(q) # <<>> => Len(Tail(q)) > 0
  BY <1>1
<1>4. \A i \in 1..Len(Tail(q)) : Tail(q)[i] = q[i + 1]
  OBVIOUS
<1>5. Tail(q) # <<>> => Tail(q)[Len(Tail(q))] = q[Len(q)]
  BY <1>1, <1>3, <1>4
<1>6. Tail(q) = <<>> => q[Len(q)] = Head(q)
  BY <1>1, <1>2
<1> QED BY <1>1, <1>5, <1>6

\* The empty queue is one.
LEMMA EmptyFacts == <<>> \in Seq(BOOLEAN) /\ Len(<<>>) = 0
OBVIOUS

-----------------------------------------------------------------------------
(* Types.                                                                  *)

\* Every operation keeps the types; a chunk is written only when one is due.
LEMMA TypeStep == TypeOK /\ ChunkIsDue /\ [Next]_vars => TypeOK' /\ ChunkIsDue'
<1> SUFFICES ASSUME TypeOK, ChunkIsDue, [Next]_vars PROVE TypeOK' /\ ChunkIsDue'
  OBVIOUS
<1> USE DEF netVars, otaVars, flashVars
<1>0. 0 \in 0..MaxLen
  BY BoundAssumption
<1>1. TypeOK'
  <2>1. CASE Network
    <3>1. PICK up \in BOOLEAN : Post(up)
      BY <2>1 DEF Network
    <3>2. events' = Append(events, up) /\ events \in Seq(BOOLEAN)
      BY <3>1 DEF Post, TypeOK
    <3>3. events' \in Seq(BOOLEAN) /\ Len(events') = Len(events) + 1
      BY <3>2, AppendFacts
    <3>4. Len(events') <= MaxEvents
      BY <3>1, <3>2, <3>3, BoundAssumption DEF Post
    <3> QED BY <3>1, <3>3, <3>4 DEF Post, TypeOK
  <2>2. CASE TakeEvent
    <3>1. events' = Tail(events) /\ events # <<>> /\ events \in Seq(BOOLEAN)
      BY <2>2 DEF TakeEvent, TypeOK
    <3>2. events' \in Seq(BOOLEAN) /\ Len(events') = Len(events) - 1 /\ Len(events) \in Nat
      BY <3>1, TailFacts
    <3>3. Len(events') <= MaxEvents
      BY <3>2, BoundAssumption DEF TypeOK
    <3>4. evt' \in {"startWeb", "stopWeb"}
      BY <2>2, Zenon DEF TakeEvent
    <3> QED BY <2>2, <3>2, <3>3, <3>4 DEF TakeEvent, TypeOK
  <2>3. CASE StartWeb
    BY <2>3 DEF StartWeb, TypeOK
  <2>4. CASE StartAgent
    BY <2>4 DEF StartAgent, TypeOK
  <2>5. CASE StopWeb
    BY <2>5 DEF StopWeb, TypeOK
  <2>6. CASE StopAgent
    BY <2>6 DEF StopAgent, TypeOK
  <2>7. CASE Client
    BY <2>7 DEF Client, Ask, UploadRefused, UploadBegins, TypeOK
  <2>8. CASE Answer
    BY <2>8 DEF Answer, TypeOK
  <2>9. CASE Receive
    BY <2>9 DEF Receive, TypeOK
  <2>10. CASE Break
    BY <2>10, UpdateAssumption DEF Break, Erased, UpdateSlot, TypeOK
  <2>11. CASE Write
    <3>1. remaining' \in 0..MaxLen
      BY <2>11, BoundAssumption DEF Write, ChunkIsDue, TypeOK
    <3>2. image' \in [Slot -> {"whole", "partial"}]
      BY <2>11, UpdateAssumption DEF Write, UpdateSlot, TypeOK
    <3> QED BY <2>11, <3>1, <3>2 DEF Write, TypeOK
  <2>12. CASE End
    BY <2>12 DEF End, TypeOK
  <2>13. CASE EndFails
    BY <2>13 DEF EndFails, TypeOK
  <2>14. CASE SetBoot
    BY <2>14, UpdateAssumption DEF SetBoot, UpdateSlot, TypeOK
  <2>15. CASE SetBootFails
    BY <2>15 DEF SetBootFails, TypeOK
  <2>16. CASE Fail
    BY <2>16, <1>0 DEF Fail, TypeOK
  <2>17. CASE Restart
    <3>1. events' \in Seq(BOOLEAN) /\ Len(events') = 0
      BY <2>17, EmptyFacts DEF Restart
    <3>2. Len(events') <= MaxEvents
      BY <3>1, BoundAssumption
    <3> QED BY <2>17, <1>0, <3>1, <3>2 DEF Restart, TypeOK
  <2>18. CASE UNCHANGED vars
    BY <2>18 DEF vars, TypeOK
  <2> QED
    BY <2>1, <2>2, <2>3, <2>4, <2>5, <2>6, <2>7, <2>8, <2>9, <2>10, <2>11, <2>12, <2>13,
       <2>14, <2>15, <2>16, <2>17, <2>18 DEF Next, EventTask, Server, Reboot
<1>2. ChunkIsDue'
  <2> USE DEF ChunkIsDue
  <2>1. CASE Network \/ EventTask
    BY <2>1 DEF Network, Post, EventTask, TakeEvent, StartWeb, StartAgent, StopWeb, StopAgent
  <2>2. CASE Client \/ Server \/ Restart
    BY <2>2 DEF Client, Ask, UploadRefused, UploadBegins, Server, Answer, Receive, Break,
       Write, End, EndFails, SetBoot, SetBootFails, Fail, Reboot, Restart
  <2>3. CASE UNCHANGED vars
    BY <2>3 DEF vars
  <2> QED BY <2>1, <2>2, <2>3 DEF Next
<1> QED BY <1>1, <1>2

\* The types hold at the start.
LEMMA TypeInit == Init => TypeOK /\ ChunkIsDue
<1> SUFFICES ASSUME Init PROVE TypeOK /\ ChunkIsDue
  OBVIOUS
<1>1. events \in Seq(BOOLEAN) /\ Len(events) = 0
  BY EmptyFacts DEF Init
<1>2. Len(events) <= MaxEvents /\ 0 \in 0..MaxLen
  BY <1>1, BoundAssumption
<1>3. ChunkIsDue
  BY DEF Init, ChunkIsDue
<1> QED BY <1>1, <1>2, <1>3 DEF Init, TypeOK

\* TypeOK is an invariant: at most MaxLen chunks are taken from a body, and none
\* that is not due.
THEOREM TypeCorrect == Spec => [](TypeOK /\ ChunkIsDue)
BY TypeInit, TypeStep, PTL DEF Spec

-----------------------------------------------------------------------------
(* The services and the link.                                              *)

LinkInv == ServicesFollowLink /\ EventsEndWithLink

\* Neither the server's task nor what clients send touches the services.
LEMMA RequestsLeaveNet ==
    ASSUME Client \/ Answer \/ Receive \/ Break \/ Write \/ End \/ EndFails
              \/ SetBoot \/ SetBootFails \/ Fail
    PROVE  UNCHANGED netVars
BY DEF Client, Ask, UploadRefused, UploadBegins, Answer, Receive, Break, Write, End,
       EndFails, SetBoot, SetBootFails, Fail, netVars

\* Each network event and each step of its handling keeps the relation between
\* what is to be handled, where the handling is, and the services.
LEMMA LinkStep == TypeOK /\ LinkInv /\ [Next]_vars => LinkInv'
<1> SUFFICES ASSUME TypeOK, LinkInv, [Next]_vars PROVE LinkInv'
  OBVIOUS
<1> USE DEF LinkInv, ServicesFollowLink, EventsEndWithLink, TypeOK
<1>1. CASE Network
  <2>1. PICK up \in BOOLEAN : Post(up)
    BY <1>1 DEF Network
  <2> HIDE DEF TypeOK
  <2>2. events' = Append(events, up) /\ link' = up /\ events \in Seq(BOOLEAN)
    BY <2>1 DEF Post, TypeOK
  <2>3. events' # <<>> /\ events'[Len(events')] = link'
    BY <2>2, AppendFacts
  <2> QED BY <2>1, <2>3 DEF Post
<1>2. CASE TakeEvent
  <2>1. events # <<>> /\ events' = Tail(events) /\ UNCHANGED <<link, server, agent>>
    BY <1>2 DEF TakeEvent
  <2>2. events' = <<>> => Head(events) = link
    BY <2>1, TailFacts, Zenon
  <2>3. events' # <<>> => events'[Len(events')] = link'
    BY <2>1, TailFacts, Zenon
  <2>4. evt' = IF Head(events) THEN "startWeb" ELSE "stopWeb"
    BY <1>2 DEF TakeEvent
  <2>5. events' = <<>> => evt' = IF link' THEN "startWeb" ELSE "stopWeb"
    BY <2>1, <2>2, <2>4, Zenon
  <2>6. evt' \in {"startWeb", "stopWeb"}
    BY <2>4, Zenon
  <2> QED BY <2>3, <2>5, <2>6
<1>3. CASE StartWeb \/ StartAgent
  BY <1>3 DEF StartWeb, StartAgent
<1>4. CASE StopWeb
  BY <1>4 DEF StopWeb
<1>5. CASE StopAgent
  BY <1>5 DEF StopAgent
<1>6. CASE Client \/ Answer \/ Receive \/ Break \/ Write \/ End \/ EndFails
              \/ SetBoot \/ SetBootFails \/ Fail
  BY <1>6, RequestsLeaveNet DEF netVars
<1>7. CASE Restart
  BY <1>7 DEF Restart
<1>8. CASE UNCHANGED vars
  BY <1>8 DEF vars, netVars
<1> QED
  BY <1>1, <1>2, <1>3, <1>4, <1>5, <1>6, <1>7, <1>8 DEF Next, EventTask, Server, Reboot

\* ServicesFollowLink: whatever comes and goes, once the events are handled the
\* agent runs exactly when there is a link, and no web server outlives it.
THEOREM ServicesCorrect == Spec => []ServicesFollowLink
<1>1. Init => LinkInv
  BY DEF Init, LinkInv, ServicesFollowLink, EventsEndWithLink
<1>2. LinkInv => ServicesFollowLink
  BY DEF LinkInv
<1> QED BY <1>1, <1>2, LinkStep, TypeCorrect, PTL DEF Spec

-----------------------------------------------------------------------------
(* The library's update.                                                   *)

\* HandleReleased: however an upload ends, esp_ota_end or esp_ota_abort has been
\* called for it before the next request is handled.
THEOREM HandleCorrect == Spec => []HandleReleased
<1>1. Init => HandleReleased
  BY DEF Init, HandleReleased
<1>2. HandleReleased /\ [Next]_vars => HandleReleased'
  <2> SUFFICES ASSUME HandleReleased, [Next]_vars PROVE HandleReleased'
    OBVIOUS
  <2> USE DEF HandleReleased, netVars, otaVars, flashVars
  <2>1. CASE Network \/ EventTask
    BY <2>1 DEF Network, Post, EventTask, TakeEvent, StartWeb, StartAgent, StopWeb, StopAgent
  <2>2. CASE Client
    BY <2>2 DEF Client, CanBegin, Ask, UploadRefused, UploadBegins
  <2>3. CASE Answer \/ Receive \/ Break \/ Write
    BY <2>3 DEF Answer, Receive, Break, Write
  <2>4. CASE End \/ EndFails \/ SetBoot \/ SetBootFails \/ Fail
    BY <2>4 DEF End, EndFails, SetBoot, SetBootFails, Fail
  <2>5. CASE Restart
    BY <2>5 DEF Restart
  <2>6. CASE UNCHANGED vars
    BY <2>6 DEF vars
  <2> QED BY <2>1, <2>2, <2>3, <2>4, <2>5, <2>6 DEF Next, Server, Reboot
<1> QED BY <1>1, <1>2, PTL DEF Spec

-----------------------------------------------------------------------------
(* The partitions.                                                         *)

FlashInv == BootIsWhole /\ UploadIsWhole

\* Every step keeps the partitions whole, and is a step of FirmwareUpdate or
\* leaves the partitions alone.
LEMMA FlashStep ==
    TypeOK /\ ChunkIsDue /\ FlashInv /\ [Next]_vars =>
        FlashInv' /\ [Firmware!Next]_flashVars
<1> SUFFICES ASSUME TypeOK, ChunkIsDue, FlashInv, [Next]_vars
             PROVE  FlashInv' /\ [Firmware!Next]_flashVars
  OBVIOUS
<1> USE DEF FlashInv, BootIsWhole, UploadIsWhole, UpdateSlot
<1>1. CASE Network \/ EventTask
  <2>1. UNCHANGED <<req, otaVars, flashVars>>
    BY <1>1 DEF Network, Post, EventTask, TakeEvent, StartWeb, StartAgent, StopWeb, StopAgent
  <2> QED BY <2>1 DEF otaVars, flashVars
<1>2. CASE Client
  BY <1>2 DEF Client, CanBegin, Ask, UploadRefused, UploadBegins, otaVars, flashVars, TypeOK
<1>3. CASE Answer \/ Receive \/ EndFails \/ SetBootFails \/ Fail
  BY <1>3 DEF Answer, Receive, EndFails, SetBootFails, Fail, otaVars, flashVars
<1>4. CASE End
  BY <1>4 DEF End, flashVars
<1>5. CASE Break
  <2>1. boot = running /\ Update[running] \in Slot \ {running, boot}
    BY <1>5, UpdateAssumption DEF Break, TypeOK
  <2>2. CASE UNCHANGED image
    BY <1>5, <2>2 DEF Break, flashVars
  <2>3. CASE image' = [image EXCEPT ![Update[running]] = "partial"]
    <3>1. Firmware!Write
      BY <1>5, <2>1, <2>3 DEF Break, Firmware!Write, Firmware!Content
    <3>2. image'[boot] = image[boot] /\ image'[running] = image[running]
      BY <2>1, <2>3 DEF TypeOK
    <3> QED BY <1>5, <3>1, <3>2 DEF Break, Firmware!Next
  <2> QED BY <1>5, <2>2, <2>3 DEF Break, Erased
<1>6. CASE Write
  <2> DEFINE c == IF valid /\ remaining = 1 THEN "whole" ELSE "partial"
  <2>1. boot = running /\ Update[running] \in Slot \ {running, boot}
    BY <1>6, UpdateAssumption DEF Write, TypeOK
  <2>2. image' = [image EXCEPT ![Update[running]] = c] /\ c \in {"whole", "partial"}
    BY <1>6 DEF Write
  <2>3. Firmware!Write
    BY <1>6, <2>1, <2>2 DEF Write, Firmware!Write, Firmware!Content
  <2>4. /\ image'[boot] = image[boot] /\ image'[running] = image[running]
        /\ image'[Update[running]] = c
    BY <2>1, <2>2 DEF TypeOK
  <2>5. remaining' = 0 => remaining = 1
    BY <1>6 DEF Write, TypeOK
  <2>6. UploadIsWhole'
    BY <1>6, <2>4, <2>5 DEF Write
  <2> QED BY <1>6, <2>1, <2>3, <2>4, <2>6 DEF Write, Firmware!Next
<1>7. CASE SetBoot
  <2>1. Update[running] \in Slot /\ image[Update[running]] = "whole"
    BY <1>7, UpdateAssumption DEF SetBoot, TypeOK
  <2>2. Firmware!Choose
    BY <1>7, <2>1 DEF SetBoot, Firmware!Choose
  <2> QED BY <1>7, <2>1, <2>2 DEF SetBoot, Firmware!Next
<1>8. CASE Restart
  BY <1>8 DEF Restart, Firmware!Next, Firmware!Start
<1>9. CASE UNCHANGED vars
  BY <1>9 DEF vars, otaVars, flashVars
<1> QED
  BY <1>1, <1>2, <1>3, <1>4, <1>5, <1>6, <1>7, <1>8, <1>9 DEF Next, Server, Reboot

\* FlashInv: the partition that runs and the one to be started hold whole images.
THEOREM BootCorrect == Spec => []FlashInv
<1>1. Init => FlashInv
  BY DEF Init, FlashInv, BootIsWhole, UploadIsWhole
<1> QED BY <1>1, FlashStep, TypeCorrect, PTL DEF Spec

\* FirmwareProtocol: the upload handler, whatever it is sent and whenever the
\* board restarts, implements FirmwareUpdate.
THEOREM FirmwareCorrect == Spec => FirmwareProtocol
<1>1. Init => Firmware!Init
  BY DEF Init, Firmware!Init, Firmware!Content
<1> QED
  BY <1>1, TypeCorrect, BootCorrect, FlashStep, PTL
  DEF Spec, FirmwareProtocol, Firmware!Spec, flashVars
=============================================================================
