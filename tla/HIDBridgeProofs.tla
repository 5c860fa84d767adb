-------------------------- MODULE HIDBridgeProofs --------------------------
(***************************************************************************)
(* Proofs about the HID bridge, for any set of device models, any lengths  *)
(* of the event queue and any number of connections.                       *)
(***************************************************************************)
EXTENDS HIDBridge, TLAPS

Preparing == {"INFO", "DEV_DESC", "CONFIG_DESC", "STR_DESC"}

\* The stages under way: set-up and polling, neither opening nor closing.
Working == actions \ {"OPEN", "CLOSE"}

IsGone(i) == msgs[i].event = "DEV_GONE"

\* The handle, as the assertions and the library see it.
HandleInv ==
    /\ HandleDiscipline
    /\ HandleMatchesLibrary
    /\ dev_hdl # NULL => dev_addr # 0

\* One token goes round: a stage under way or a transfer out, never two.
RequestInv ==
    /\ \A a, b \in Working : a = b
    /\ ctrl # "none" => Working = {} /\ intr = "none"
    /\ intr # "none" => Working = {}

\* Transfers use a claimed interface, whose endpoint is the noted one; and an
\* attached device that is to be closed can be.
PipeInv ==
    /\ pipe # "free" => IsHid /\ devState \in Held
    /\ ctrl # "none" \/ intr # "none" \/ "CTRL" \in actions \/ "INTR" \in actions
            => pipe # "free" /\ ep_in = dev_hdl
    /\ "CLOSE" \in actions /\ devState = "open"
            => pipe # "free" /\ intr = "none" /\ ctrl = "none" /\ Working = {}

\* A queued DEV_GONE is of a device that has been seen to leave; none is of an
\* earlier device once the bridge has decided to open the next.
MessageInv ==
    \A i \in DOMAIN msgs : IsGone(i) =>
        /\ msgs[i].dev_hdl <= devId
        /\ devState \in {"enumerated", "open", "lost"} => msgs[i].dev_hdl # devId
        /\ dev_hdl # NULL => msgs[i].dev_hdl = dev_hdl
        /\ ~("OPEN" \in actions /\ pc # "events")

\* What the application knows at each point of a device's life.
AppInv ==
    /\ app.dev <= devId
    /\ devState = "enumerated" => app.dev < devId
    /\ app.phase = "described" => dev_hdl # NULL /\ IsHid
    /\ actions \cap Preparing # {} => app.phase # "described" /\ app.dev < dev_hdl
    /\ "CLAIM" \in actions \/ "CTRL" \in actions \/ ctrl # "none"
            => app.phase = "informed" /\ app.dev = dev_hdl /\ app.last = 0
    /\ "INTR" \in actions \/ intr # "none"
            => app.phase = "described" /\ app.dev = dev_hdl

IInv == TypeOK /\ HandleInv /\ RequestInv /\ PipeInv /\ MessageInv /\ AppInv

\* The stage after a stage is a stage or the top of the loop.
LEMMA StagesAdvance == \A s \in Stage : NextStage[s] \in Stage \cup {"loop"}
  BY DEF Stage, NextStage

\* Every step keeps the types.
LEMMA TypeStep ==
    ASSUME TypeOK, HandleInv, [Next]_vars
    PROVE  TypeOK'
<1> USE DEF TypeOK, HostTypeOK, NULL, PC, Stage, DevState, Held, Transfer, Pipe
<1>1. CASE Install
  BY <1>1 DEF Install, hostVars
<1>2. CASE Register
  BY <1>2 DEF Register, hostVars
<1>3. CASE Loop
  BY <1>3 DEF Loop, hostVars
<1>4. CASE Skip
  BY <1>4, StagesAdvance DEF Skip, Proceed, hostVars
<1>5. CASE ClientEvent
  <2>1. /\ Head(msgs) \in Message
        /\ Tail(msgs) \in Seq(Message)
        /\ Len(Tail(msgs)) <= MaxMsg
    BY <1>5, BoundAssumption DEF ClientEvent
  <2>2. CASE Head(msgs).event = "NEW_DEV" /\ OnNewDev(Head(msgs).address)
    <3>1. Head(msgs).address \in Addr
      BY <2>1, <2>2 DEF Message
    <3>2. dev_addr' \in Addr \cup {0} /\ actions' \subseteq Stage
      BY <2>2, <3>1 DEF OnNewDev
    <3> QED
      BY <1>5, <2>1, <3>2 DEF ClientEvent
  <2>3. CASE Head(msgs).event = "DEV_GONE" /\ OnDevGone /\ UNCHANGED dev_addr
    BY <1>5, <2>1, <2>3 DEF ClientEvent, OnDevGone
  <2> QED
    BY <1>5, <2>2, <2>3 DEF ClientEvent
<1>6. CASE CtrlCallback
  <2>1. CASE ctrl = "done"
    <3>1. /\ app' = [dev |-> devId, phase |-> "described", last |-> 0]
          /\ actions' = actions \cup {"INTR"}
      BY <1>6, <2>1 DEF CtrlCallback
    <3>2. actions' \subseteq Stage
      BY <3>1
    <3>3. app' \in [dev : Nat, phase : {"absent", "informed", "described"}, last : Nat]
      BY <3>1
    <3> QED
      BY <1>6, <3>2, <3>3 DEF CtrlCallback
  <2>2. CASE ctrl # "done"
    BY <1>6, <2>2 DEF CtrlCallback
  <2> QED
    BY <2>1, <2>2
<1>7. CASE IntrCallback
  BY <1>7 DEF IntrCallback, PollAgain
<1>8. CASE EventsHandled
  BY <1>8 DEF EventsHandled, NothingPending, hostVars
<1>9. CASE OpenDev
  BY <1>9, StagesAdvance DEF OpenDev, OpenSucceeds, At, Proceed
<1>10. CASE OpenAborts
  BY <1>10 DEF OpenAborts, Abort, At, hostVars
<1>11. CASE GetInfo
  BY <1>11, StagesAdvance DEF GetInfo, Describe, At, Proceed, hostVars
<1>12. CASE GetDevDesc
  BY <1>12, StagesAdvance DEF GetDevDesc, Describe, At, Proceed, hostVars
<1>13. CASE GetConfigDesc
  BY <1>13, StagesAdvance DEF GetConfigDesc, Describe, At, Proceed, hostVars
<1>14. CASE GetStrDesc
  BY <1>14, StagesAdvance DEF GetStrDesc, Describe, At, Proceed, hostVars
<1>15. CASE ClaimInterface
  <2>1. pc' \in PC /\ ep_in' \in Nat
    BY <1>15, StagesAdvance DEF ClaimInterface, At, Proceed, NoteEndpoint
  <2>2. pipe' \in Pipe /\ actions' \subseteq Stage
    BY <1>15 DEF ClaimInterface
  <2> QED
    BY <1>15, <2>1, <2>2 DEF ClaimInterface
<1>16. CASE SubmitCtrl
  <2>1. pc' \in PC
    BY <1>16, StagesAdvance DEF SubmitCtrl, At, Proceed
  <2>2. ctrl' \in Transfer /\ actions' \subseteq Stage
    BY <1>16 DEF SubmitCtrl, CtrlQueued
  <2> QED
    BY <1>16, <2>1, <2>2 DEF SubmitCtrl
<1>17. CASE SubmitIntr
  <2>1. pc' \in PC
    BY <1>17, StagesAdvance DEF SubmitIntr, At, Proceed
  <2>2. intr' \in Transfer /\ actions' \subseteq Stage
    BY <1>17 DEF SubmitIntr, IntrQueued
  <2>3. mps' \in Nat
    <3>1. devModel \in Model
      BY <1>17 DEF SubmitIntr, At, HandleInv, HandleDiscipline, HandleMatchesLibrary,
                   NeedsHandle
    <3> QED
      BY <1>17, <3>1, MpsAssumption DEF SubmitIntr
  <2> QED
    BY <1>17, <2>1, <2>2, <2>3 DEF SubmitIntr
<1>18. CASE CloseDev
  BY <1>18, StagesAdvance DEF CloseDev, CloseCanComplete, ReleaseSucceeds, CloseSucceeds, TellRemoved, Forget, At, Proceed
<1>19. CASE CloseAborts
  BY <1>19 DEF CloseAborts, Abort, At, hostVars
<1>20. CASE Daemon /\ Enumerate
  <2>1. NewDev(devAddr') \in Message
    BY <1>20 DEF Enumerate, NewDev, Message
  <2>2. msgs' \in Seq(Message) /\ Len(msgs') <= MaxMsg
    BY <1>20, <2>1, BoundAssumption DEF Enumerate, Post
  <2>3. devModel' \in Model /\ devAddr' \in Addr /\ devId' \in Nat /\ devId' # 0
    BY <1>20 DEF Enumerate
  <2> QED
    BY <1>20, <2>2, <2>3 DEF Daemon, Enumerate, taskVars
<1>21. CASE Daemon /\ ReportGone
  <2>1. DevGone(devId) \in Message
    BY DEF DevGone, Message
  <2>2. msgs' \in Seq(Message) /\ Len(msgs') <= MaxMsg
    BY <1>21, <2>1, BoundAssumption DEF ReportGone, Post
  <2> QED
    BY <1>21, <2>2 DEF Daemon, ReportGone, taskVars
<1>22. CASE Bus
  BY <1>22 DEF Bus, CompleteCtrl, CompleteIntr, taskVars
<1>23. CASE Cable
  BY <1>23 DEF Cable, Plug, Unplug, taskVars
<1>24. CASE Reboot
  <2>1. msgs' \in Seq(Message) /\ Len(msgs') <= MaxMsg
    BY <1>24, BoundAssumption DEF Reboot, HostReset
  <2>2. app' \in [dev : Nat, phase : {"absent", "informed", "described"}, last : Nat]
    BY <1>24 DEF Reboot
  <2> QED
    BY <1>24, <2>1, <2>2 DEF Reboot, HostReset
<1>25. CASE UNCHANGED vars
  BY <1>25 DEF vars, hostVars, taskVars
<1>26. QED
  BY <1>1, <1>2, <1>3, <1>4, <1>5, <1>6, <1>7, <1>8, <1>9, <1>10, <1>11, <1>12, <1>13, <1>14, <1>15, <1>16, <1>17, <1>18, <1>19, <1>20, <1>21, <1>22, <1>23, <1>24, <1>25
     DEF Next, ClassDriver, HandleEvents, RunStage, Daemon


\* The steps that only move the task on, or start it.
Idle == Install \/ Register \/ Loop \/ Skip \/ EventsHandled \/ OpenAborts \/ CloseAborts

LEMMA IdleStep ==
    ASSUME Idle
    PROVE  /\ UNCHANGED <<hostVars, dev_addr, dev_hdl, ep_in, actions, mps, app>>
           /\ pc = "events" => pc' = "events" \/ msgs = <<>>
  BY DEF Idle, Install, Register, Loop, Skip, EventsHandled, NothingPending, OpenAborts, CloseAborts, Abort, At, Stage


\* Every step preserves HandleInv: dev_hdl and the library agree.
LEMMA HandleStep ==
    ASSUME TypeOK, HandleInv, PipeInv, [Next]_vars
    PROVE  HandleInv'
<1> USE DEF NULL, Held, NeedsHandle, Stage, HandleInv, HandleDiscipline, HandleMatchesLibrary, PipeInv, TypeOK, HostTypeOK
<1>1. CASE Idle
  BY <1>1, IdleStep DEF hostVars
<1>2. CASE ClientEvent
  <2>1. CASE Head(msgs).event = "NEW_DEV" /\ OnNewDev(Head(msgs).address)
    <3>1. Head(msgs) \in Message
      BY <1>2 DEF ClientEvent
    <3>2. Head(msgs).address # 0
      BY <2>1, <3>1, AddrAssumption DEF Message
    <3> QED
      BY <1>2, <2>1, <3>2 DEF ClientEvent, OnNewDev
  <2>2. CASE OnDevGone /\ UNCHANGED dev_addr
    BY <1>2, <2>2 DEF ClientEvent, OnDevGone
  <2> QED
    BY <1>2, <2>1, <2>2 DEF ClientEvent
<1>3. CASE CtrlCallback
  BY <1>3 DEF CtrlCallback
<1>4. CASE IntrCallback
  BY <1>4 DEF IntrCallback, PollAgain
<1>5. CASE OpenDev
  BY <1>5 DEF OpenDev, OpenSucceeds, At
<1>6. CASE GetInfo
  BY <1>6 DEF GetInfo, Describe, At, hostVars
<1>7. CASE GetDevDesc
  BY <1>7 DEF GetDevDesc, Describe, At, hostVars
<1>8. CASE GetConfigDesc
  BY <1>8 DEF GetConfigDesc, Describe, At, hostVars
<1>9. CASE GetStrDesc
  BY <1>9 DEF GetStrDesc, Describe, At, hostVars
<1>10. CASE ClaimInterface
  BY <1>10 DEF ClaimInterface, NoteEndpoint, ClaimSucceeds, At
<1>11. CASE SubmitCtrl
  BY <1>11 DEF SubmitCtrl, SubmitCtrlSucceeds, CtrlQueued, At
<1>12. CASE SubmitIntr
  BY <1>12 DEF SubmitIntr, SubmitIntrSucceeds, IntrQueued, At
<1>13. CASE CloseDev
  BY <1>13 DEF CloseDev, CloseCanComplete, ReleaseSucceeds, CloseSucceeds, TellRemoved, Forget, At
<1>14. CASE Daemon /\ Enumerate
  BY <1>14 DEF Daemon, Enumerate, Post, NewDev, taskVars
<1>15. CASE Daemon /\ ReportGone
  BY <1>15 DEF Daemon, ReportGone, Post, DevGone, taskVars
<1>16. CASE Bus
  BY <1>16 DEF Bus, CompleteCtrl, CompleteIntr, taskVars
<1>17. CASE Cable
  BY <1>17 DEF Cable, Plug, Unplug, taskVars
<1>18. CASE Reboot
  BY <1>18 DEF Reboot, HostReset
<1>19. CASE UNCHANGED vars
  BY <1>19 DEF vars, hostVars, taskVars
<1>20. QED
  BY <1>1, <1>2, <1>3, <1>4, <1>5, <1>6, <1>7, <1>8, <1>9, <1>10, <1>11, <1>12, <1>13, <1>14, <1>15, <1>16, <1>17, <1>18, <1>19
     DEF Next, ClassDriver, HandleEvents, RunStage, Daemon, Idle

\* Every step preserves RequestInv: one transfer or one request for it.
LEMMA RequestStep ==
    ASSUME TypeOK, HandleInv, RequestInv, PipeInv, [Next]_vars
    PROVE  RequestInv'
<1> USE DEF NULL, Held, NeedsHandle, Stage, HandleInv, HandleDiscipline, RequestInv, PipeInv, Working
<1>1. CASE Idle
  BY <1>1, IdleStep DEF hostVars
<1>2. CASE ClientEvent
  BY <1>2 DEF ClientEvent, OnNewDev, OnDevGone
<1>3. CASE CtrlCallback
  BY <1>3 DEF CtrlCallback
<1>4. CASE IntrCallback
  BY <1>4 DEF IntrCallback, PollAgain
<1>5. CASE OpenDev
  <2>1. actions \cap NeedsHandle = {} /\ ctrl = "none" /\ intr = "none"
    BY <1>5 DEF OpenDev, At
  <2>2. Working' = {"INFO"}
    BY <1>5, <2>1 DEF OpenDev, TypeOK
  <2> QED
    BY <1>5, <2>1, <2>2 DEF OpenDev
<1>6. CASE GetInfo
  BY <1>6 DEF GetInfo, Describe, At, hostVars
<1>7. CASE GetDevDesc
  BY <1>7 DEF GetDevDesc, Describe, At, hostVars
<1>8. CASE GetConfigDesc
  BY <1>8 DEF GetConfigDesc, Describe, At, hostVars
<1>9. CASE GetStrDesc
  BY <1>9 DEF GetStrDesc, Describe, At, hostVars
<1>10. CASE ClaimInterface
  BY <1>10 DEF ClaimInterface, NoteEndpoint, ClaimSucceeds, At
<1>11. CASE SubmitCtrl
  BY <1>11 DEF SubmitCtrl, SubmitCtrlSucceeds, CtrlQueued, At
<1>12. CASE SubmitIntr
  BY <1>12 DEF SubmitIntr, SubmitIntrSucceeds, IntrQueued, At
<1>13. CASE CloseDev
  BY <1>13 DEF CloseDev, CloseCanComplete, ReleaseSucceeds, CloseSucceeds, TellRemoved, Forget, At
<1>14. CASE Daemon /\ Enumerate
  BY <1>14 DEF Daemon, Enumerate, Post, NewDev, taskVars
<1>15. CASE Daemon /\ ReportGone
  BY <1>15 DEF Daemon, ReportGone, Post, DevGone, taskVars
<1>16. CASE Bus
  BY <1>16 DEF Bus, CompleteCtrl, CompleteIntr, taskVars
<1>17. CASE Cable
  BY <1>17 DEF Cable, Plug, Unplug, taskVars
<1>18. CASE Reboot
  BY <1>18 DEF Reboot, HostReset
<1>19. CASE UNCHANGED vars
  BY <1>19 DEF vars, hostVars, taskVars
<1>20. QED
  BY <1>1, <1>2, <1>3, <1>4, <1>5, <1>6, <1>7, <1>8, <1>9, <1>10, <1>11, <1>12, <1>13, <1>14, <1>15, <1>16, <1>17, <1>18, <1>19
     DEF Next, ClassDriver, HandleEvents, RunStage, Daemon, Idle

\* Every step preserves PipeInv: the pipe and the claim go together.
LEMMA PipeStep ==
    ASSUME TypeOK, HandleInv, RequestInv, PipeInv, MessageInv, [Next]_vars
    PROVE  PipeInv'
<1> USE DEF NULL, Held, NeedsHandle, Stage, HandleInv, HandleDiscipline, HandleMatchesLibrary, RequestInv, PipeInv, Working, IsHid
<1>1. CASE Idle
  BY <1>1, IdleStep DEF hostVars
<1>2. CASE ClientEvent
  <2>1. CASE Head(msgs).event = "NEW_DEV" /\ OnNewDev(Head(msgs).address)
    BY <1>2, <2>1 DEF ClientEvent, OnNewDev
  <2>2. CASE Head(msgs).event = "DEV_GONE" /\ OnDevGone
    <3>1. 1 \in DOMAIN msgs /\ Head(msgs) = msgs[1]
      BY <1>2 DEF ClientEvent, TypeOK, HostTypeOK
    <3>2. dev_hdl # NULL => devState # "open"
      BY <2>2, <3>1 DEF MessageInv, IsGone
    <3> QED
      BY <1>2, <2>2, <3>2 DEF ClientEvent, OnDevGone
  <2> QED
    BY <1>2, <2>1, <2>2 DEF ClientEvent
<1>3. CASE CtrlCallback
  BY <1>3 DEF CtrlCallback
<1>4. CASE IntrCallback
  BY <1>4 DEF IntrCallback, PollAgain
<1>5. CASE OpenDev
  BY <1>5 DEF OpenDev, OpenSucceeds, At
<1>6. CASE GetInfo
  BY <1>6 DEF GetInfo, Describe, At, hostVars
<1>7. CASE GetDevDesc
  BY <1>7 DEF GetDevDesc, Describe, At, hostVars
<1>8. CASE GetConfigDesc
  BY <1>8 DEF GetConfigDesc, Describe, At, hostVars
<1>9. CASE GetStrDesc
  BY <1>9 DEF GetStrDesc, Describe, At, hostVars
<1>10. CASE ClaimInterface
  BY <1>10 DEF ClaimInterface, NoteEndpoint, ClaimSucceeds, At
<1>11. CASE SubmitCtrl
  BY <1>11 DEF SubmitCtrl, SubmitCtrlSucceeds, CtrlQueued, At
<1>12. CASE SubmitIntr
  BY <1>12 DEF SubmitIntr, SubmitIntrSucceeds, IntrQueued, At
<1>13. CASE CloseDev
  BY <1>13 DEF CloseDev, CloseCanComplete, ReleaseSucceeds, CloseSucceeds, TellRemoved, Forget, At
<1>14. CASE Daemon /\ Enumerate
  BY <1>14 DEF Daemon, Enumerate, Post, NewDev, taskVars
<1>15. CASE Daemon /\ ReportGone
  BY <1>15 DEF Daemon, ReportGone, Post, DevGone, taskVars
<1>16. CASE Bus
  BY <1>16 DEF Bus, CompleteCtrl, CompleteIntr, taskVars
<1>17. CASE Cable
  BY <1>17 DEF Cable, Plug, Unplug, taskVars
<1>18. CASE Reboot
  BY <1>18 DEF Reboot, HostReset
<1>19. CASE UNCHANGED vars
  BY <1>19 DEF vars, hostVars, taskVars
<1>20. QED
  BY <1>1, <1>2, <1>3, <1>4, <1>5, <1>6, <1>7, <1>8, <1>9, <1>10, <1>11, <1>12, <1>13, <1>14, <1>15, <1>16, <1>17, <1>18, <1>19
     DEF Next, ClassDriver, HandleEvents, RunStage, Daemon, Idle

\* Every step preserves MessageInv: what DEV_GONE messages can be queued.
LEMMA MessageStep ==
    ASSUME TypeOK, HandleInv, MessageInv, [Next]_vars
    PROVE  MessageInv'
<1> USE DEF NULL, Held, NeedsHandle, Stage, TypeOK, HostTypeOK, HandleInv, HandleDiscipline, HandleMatchesLibrary, MessageInv, IsGone
<1>1. CASE Idle
  BY <1>1, IdleStep DEF hostVars
<1>2. CASE ClientEvent
  BY <1>2 DEF ClientEvent, OnNewDev, OnDevGone
<1>3. CASE CtrlCallback
  BY <1>3 DEF CtrlCallback
<1>4. CASE IntrCallback
  BY <1>4 DEF IntrCallback, PollAgain
<1>5. CASE OpenDev
  BY <1>5, StagesAdvance DEF OpenDev, OpenSucceeds, At, Proceed
<1>6. CASE GetInfo
  BY <1>6, StagesAdvance DEF GetInfo, Describe, At, Proceed, hostVars
<1>7. CASE GetDevDesc
  BY <1>7, StagesAdvance DEF GetDevDesc, Describe, At, Proceed, hostVars
<1>8. CASE GetConfigDesc
  BY <1>8, StagesAdvance DEF GetConfigDesc, Describe, At, Proceed, hostVars
<1>9. CASE GetStrDesc
  BY <1>9, StagesAdvance DEF GetStrDesc, Describe, At, Proceed, hostVars
<1>10. CASE ClaimInterface
  BY <1>10, StagesAdvance DEF ClaimInterface, NoteEndpoint, ClaimSucceeds, At, Proceed
<1>11. CASE SubmitCtrl
  BY <1>11, StagesAdvance DEF SubmitCtrl, SubmitCtrlSucceeds, CtrlQueued, At, Proceed
<1>12. CASE SubmitIntr
  BY <1>12, StagesAdvance DEF SubmitIntr, SubmitIntrSucceeds, IntrQueued, At, Proceed
<1>13. CASE CloseDev
  BY <1>13, StagesAdvance DEF CloseDev, CloseCanComplete, ReleaseSucceeds, CloseSucceeds, TellRemoved, Forget, At, Proceed
<1>14. CASE Daemon /\ Enumerate
  <2>1. dev_hdl = NULL /\ dev_hdl' = NULL /\ actions' = actions /\ pc' = pc
    BY <1>14 DEF Daemon, Enumerate, taskVars
  <2>2. ASSUME NEW i \in DOMAIN msgs', IsGone(i)'
        PROVE  i \in DOMAIN msgs /\ msgs'[i] = msgs[i]
    BY <1>14, <2>2 DEF Enumerate, Post, NewDev
  <2>3. devId' = devId + 1 /\ devState' = "enumerated" /\ devState = "absent"
    BY <1>14 DEF Enumerate
  <2>4. ASSUME NEW i \in DOMAIN msgs, IsGone(i)
        PROVE  msgs[i].dev_hdl \in Nat
    BY <2>4 DEF Message
  <2> QED
    BY <2>1, <2>2, <2>3, <2>4
<1>15. CASE Daemon /\ ReportGone
  BY <1>15 DEF Daemon, ReportGone, Post, DevGone, taskVars
<1>16. CASE Bus
  BY <1>16 DEF Bus, CompleteCtrl, CompleteIntr, taskVars
<1>17. CASE Cable
  BY <1>17 DEF Cable, Plug, Unplug, taskVars
<1>18. CASE Reboot
  BY <1>18 DEF Reboot, HostReset
<1>19. CASE UNCHANGED vars
  BY <1>19 DEF vars, hostVars, taskVars
<1>20. QED
  BY <1>1, <1>2, <1>3, <1>4, <1>5, <1>6, <1>7, <1>8, <1>9, <1>10, <1>11, <1>12, <1>13, <1>14, <1>15, <1>16, <1>17, <1>18, <1>19
     DEF Next, ClassDriver, HandleEvents, RunStage, Daemon, Idle

\* Every step preserves AppInv: what the application has been told.
LEMMA AppStep ==
    ASSUME TypeOK, HandleInv, RequestInv, PipeInv, AppInv, [Next]_vars
    PROVE  AppInv'
<1> USE DEF NULL, Held, NeedsHandle, Stage, TypeOK, HostTypeOK, HandleInv, HandleDiscipline, HandleMatchesLibrary, RequestInv, PipeInv, AppInv, Working, Preparing, IsHid
<1>1. CASE Idle
  BY <1>1, IdleStep DEF hostVars
<1>2. CASE ClientEvent
  BY <1>2 DEF ClientEvent, OnNewDev, OnDevGone
<1>3. CASE CtrlCallback
  BY <1>3 DEF CtrlCallback
<1>4. CASE IntrCallback
  BY <1>4 DEF IntrCallback, PollAgain
<1>5. CASE OpenDev
  BY <1>5 DEF OpenDev, OpenSucceeds, At
<1>6. CASE GetInfo
  BY <1>6 DEF GetInfo, Describe, At, hostVars
<1>7. CASE GetDevDesc
  BY <1>7 DEF GetDevDesc, Describe, At, hostVars
<1>8. CASE GetConfigDesc
  BY <1>8 DEF GetConfigDesc, Describe, At, hostVars
<1>9. CASE GetStrDesc
  BY <1>9 DEF GetStrDesc, Describe, At, hostVars
<1>10. CASE ClaimInterface
  BY <1>10 DEF ClaimInterface, NoteEndpoint, ClaimSucceeds, At
<1>11. CASE SubmitCtrl
  BY <1>11 DEF SubmitCtrl, SubmitCtrlSucceeds, CtrlQueued, At
<1>12. CASE SubmitIntr
  BY <1>12 DEF SubmitIntr, SubmitIntrSucceeds, IntrQueued, At
<1>13. CASE CloseDev
  BY <1>13 DEF CloseDev, CloseCanComplete, ReleaseSucceeds, CloseSucceeds, TellRemoved, Forget, At
<1>14. CASE Daemon /\ Enumerate
  BY <1>14 DEF Daemon, Enumerate, Post, NewDev, taskVars
<1>15. CASE Daemon /\ ReportGone
  BY <1>15 DEF Daemon, ReportGone, Post, DevGone, taskVars
<1>16. CASE Bus
  BY <1>16 DEF Bus, CompleteCtrl, CompleteIntr, taskVars
<1>17. CASE Cable
  BY <1>17 DEF Cable, Plug, Unplug, taskVars
<1>18. CASE Reboot
  BY <1>18 DEF Reboot, HostReset
<1>19. CASE UNCHANGED vars
  BY <1>19 DEF vars, hostVars, taskVars
<1>20. QED
  BY <1>1, <1>2, <1>3, <1>4, <1>5, <1>6, <1>7, <1>8, <1>9, <1>10, <1>11, <1>12, <1>13, <1>14, <1>15, <1>16, <1>17, <1>18, <1>19
     DEF Next, ClassDriver, HandleEvents, RunStage, Daemon, Idle

-----------------------------------------------------------------------------

\* The initial states satisfy the invariant.
LEMMA InitInv == Init => IInv
<1> SUFFICES ASSUME Init PROVE IInv
  OBVIOUS
<1> USE DEF Init, HostInit, NULL
<1>1. TypeOK
  <2>1. HostTypeOK
    <3>1. msgs \in Seq(Message) /\ Len(msgs) <= MaxMsg
      BY BoundAssumption
    <3> QED
      BY <3>1 DEF HostTypeOK, DevState, Transfer, Pipe
  <2>2. app \in [dev : Nat, phase : {"absent", "informed", "described"}, last : Nat]
    OBVIOUS
  <2> QED
    BY <2>1, <2>2 DEF TypeOK, PC
<1>2. HandleInv /\ PipeInv
  BY DEF HandleInv, HandleDiscipline, HandleMatchesLibrary, PipeInv, Held
<1>3. RequestInv
  BY DEF RequestInv, Working
<1>4. MessageInv
  BY DEF MessageInv
<1>5. AppInv
  BY DEF AppInv, Preparing
<1> QED
  BY <1>1, <1>2, <1>3, <1>4, <1>5 DEF IInv

\* The conjunction of the parts is inductive.
LEMMA StepInv == IInv /\ [Next]_vars => IInv'
  BY TypeStep, HandleStep, RequestStep, PipeStep, MessageStep, AppStep DEF IInv

\* The inductive invariant, for every value of the constants.
THEOREM Invariance == Spec => []IInv
  BY InitInv, StepInv, PTL DEF Spec

\* Every variable keeps its type; in particular the event queue stays within
\* CLIENT_NUM_EVENT_MSG.
THEOREM TypeCorrect == Spec => []TypeOK
  <1>1. IInv => TypeOK
    BY DEF IInv
  <1> QED
    BY Invariance, <1>1, PTL

\* No assertion of the stages ever fails, however the events interleave.
THEOREM AssertionsHold == Spec => []HandleDiscipline
  <1>1. IInv => HandleDiscipline
    BY DEF IInv, HandleInv
  <1> QED
    BY Invariance, <1>1, PTL

\* The bridge's handle is non-null exactly while the library holds the device.
THEOREM HandleAgrees == Spec => []HandleMatchesLibrary
  <1>1. IInv => HandleMatchesLibrary
    BY DEF IInv, HandleInv
  <1> QED
    BY Invariance, <1>1, PTL

\* At most one transfer is out.
THEOREM TransfersExclude == Spec => []OneTransfer
  <1>1. IInv => OneTransfer
    BY DEF IInv, RequestInv, OneTransfer
  <1> QED
    BY Invariance, <1>1, PTL

\* A DEV_GONE that closes a device is about that device.
THEOREM GoneMatches == Spec => []GoneIsTheOpenDevice
  <1>1. IInv => GoneIsTheOpenDevice
    <2>1. ASSUME IInv, msgs # <<>>
          PROVE  1 \in DOMAIN msgs /\ Head(msgs) = msgs[1]
      BY <2>1 DEF IInv, TypeOK, HostTypeOK
    <2> QED
      BY <2>1 DEF IInv, MessageInv, IsGone, GoneIsTheOpenDevice
  <1> QED
    BY Invariance, <1>1, PTL

\* The endpoint descriptor in use is never that of a closed device.
THEOREM EndpointValid == Spec => []EndpointIsCurrent
  <1>1. IInv => EndpointIsCurrent
    BY DEF IInv, PipeInv, EndpointIsCurrent
  <1> QED
    BY Invariance, <1>1, PTL

\* No checked call fails while the device is open and attached.
THEOREM AbortsNeedUnplug == Spec => NoAbortWhileAttached
  <1>1. ASSUME IInv, [Next]_vars, pc # "aborted", pc' = "aborted"
        PROVE  devState # "open"
    <2>1. CASE OpenAborts
      BY <1>1, <2>1 DEF OpenAborts, At, IInv, HandleInv, HandleDiscipline,
                        HandleMatchesLibrary, Held
    <2>2. CASE CloseAborts
      BY <1>1, <2>2 DEF CloseAborts, At, CloseCanComplete, ReleaseSucceeds,
                        CloseSucceeds, IInv, PipeInv
    <2>3. OpenAborts \/ CloseAborts
      <3>1. \A s \in Stage : NextStage[s] # "aborted"
        BY StagesAdvance DEF Stage
      <3>2. CASE RunStage
        BY <1>1, <3>1, <3>2
           DEF RunStage, OpenDev, GetInfo, GetDevDesc, GetConfigDesc, GetStrDesc,
               Describe, ClaimInterface, SubmitCtrl, SubmitIntr, CloseDev, At,
               Proceed, Stage
      <3>3. CASE Skip
        BY <1>1, <3>1, <3>3 DEF Skip, Proceed
      <3>4. CASE Install \/ Register \/ Loop \/ HandleEvents
        BY <1>1, <3>4
           DEF Install, Register, Loop, HandleEvents, ClientEvent, CtrlCallback,
               IntrCallback, EventsHandled
      <3>5. CASE Daemon \/ Bus \/ Cable \/ Reboot \/ UNCHANGED vars
        BY <1>1, <3>5 DEF Daemon, Bus, Cable, Reboot, taskVars, vars
      <3> QED
        BY <1>1, <3>2, <3>3, <3>4, <3>5 DEF Next, ClassDriver
    <2> QED
      BY <2>1, <2>2, <2>3
  <1> QED
    BY Invariance, <1>1, PTL DEF NoAbortWhileAttached, Spec

\* What an attached device is closed for, while it waits to be closed.
KeptInv ==
    "CLOSE" \in actions /\ devState = "open" => pipe = "halted" \/ mps % Mps[devModel] # 0

\* Every step preserves KeptInv: only a report request that is refused asks for
\* an attached device to be closed.
LEMMA KeptStep ==
    ASSUME IInv, KeptInv, [Next]_vars
    PROVE  KeptInv'
<1> USE DEF IInv, HandleInv, HandleDiscipline, HandleMatchesLibrary, NeedsHandle, Stage, KeptInv
<1>1. CASE Idle
  BY <1>1, IdleStep DEF hostVars
<1>2. CASE ClientEvent
  <2>1. CASE Head(msgs).event = "NEW_DEV" /\ OnNewDev(Head(msgs).address)
    BY <1>2, <2>1 DEF ClientEvent, OnNewDev
  <2>2. CASE Head(msgs).event = "DEV_GONE" /\ OnDevGone
    <3>1. 1 \in DOMAIN msgs /\ Head(msgs) = msgs[1]
      BY <1>2 DEF ClientEvent, TypeOK, HostTypeOK
    <3>2. dev_hdl # NULL => devState # "open"
      BY <2>2, <3>1 DEF MessageInv, IsGone
    <3> QED
      BY <1>2, <2>2, <3>2 DEF ClientEvent, OnDevGone
  <2> QED
    BY <1>2, <2>1, <2>2 DEF ClientEvent
<1>3. CASE CtrlCallback
  BY <1>3 DEF CtrlCallback
<1>4. CASE IntrCallback
  BY <1>4 DEF IntrCallback, PollAgain
<1>5. CASE OpenDev
  BY <1>5 DEF OpenDev, At
<1>6. CASE GetInfo \/ GetDevDesc \/ GetConfigDesc \/ GetStrDesc
  BY <1>6 DEF GetInfo, GetDevDesc, GetConfigDesc, GetStrDesc, Describe, At, hostVars
<1>7. CASE ClaimInterface
  <2>1. "CLAIM" \in Working
    BY <1>7 DEF ClaimInterface, At, Working
  <2>2. ~("CLOSE" \in actions /\ devState = "open")
    BY <2>1 DEF PipeInv
  <2> QED BY <1>7, <2>2 DEF ClaimInterface
<1>8. CASE SubmitCtrl
  BY <1>8 DEF SubmitCtrl, CtrlQueued, At
<1>9. CASE SubmitIntr
  <2>1. "INTR" \in Working /\ devState' = devState /\ pipe' = pipe /\ devModel' = devModel
    BY <1>9 DEF SubmitIntr, At, Working
  <2>2. pipe # "free" /\ intr = "none"
    BY <2>1 DEF PipeInv, RequestInv, TypeOK, HostTypeOK, Transfer, Working
  <2>3. CASE SubmitIntrSucceeds(mps')
    <3>1. ~("CLOSE" \in actions /\ devState = "open")
      BY <2>1 DEF PipeInv
    <3> QED BY <1>9, <2>1, <2>3, <3>1 DEF SubmitIntr, IntrQueued
  <2>4. CASE ~SubmitIntrSucceeds(mps')
    <3>1. devState = "open" => pipe # "active" \/ mps' % Mps[devModel] # 0
      BY <2>2, <2>4 DEF SubmitIntrSucceeds
    <3>2. pipe \in {"active", "halted"}
      BY <2>2 DEF TypeOK, HostTypeOK, Pipe
    <3> QED BY <2>1, <3>1, <3>2
  <2> QED BY <2>3, <2>4
<1>10. CASE CloseDev
  BY <1>10 DEF CloseDev, Forget
<1>11. CASE Daemon
  BY <1>11 DEF Daemon, Enumerate, ReportGone, taskVars
<1>12. CASE Bus
  BY <1>12 DEF Bus, CompleteCtrl, CompleteIntr, taskVars
<1>13. CASE Cable
  BY <1>13 DEF Cable, Plug, Unplug, taskVars
<1>14. CASE Reboot
  BY <1>14 DEF Reboot, HostReset
<1>15. CASE UNCHANGED vars
  BY <1>15 DEF vars, hostVars, taskVars
<1>16. QED
  BY <1>1, <1>2, <1>3, <1>4, <1>5, <1>6, <1>7, <1>8, <1>9, <1>10, <1>11, <1>12, <1>13,
     <1>14, <1>15 DEF Next, ClassDriver, HandleEvents, RunStage, Idle

\* A UPS that is still attached is closed only after a failed report, or for a
\* packet size that is another model's.
THEOREM AttachedKept == Spec => AttachedIsKept
<1>1. Init => KeptInv
  BY DEF Init, KeptInv
<1>2. IInv /\ KeptInv /\ [Next]_vars => KeptInv'
  BY KeptStep
<1>3. Spec => []KeptInv
  BY <1>1, <1>2, Invariance, PTL DEF Spec
<1> DEFINE Kept == devState = "open" /\ devState' = "closed"
                       => pipe = "halted" \/ mps % Mps[devModel] # 0
<1>4. KeptInv /\ [Next]_vars => [Kept]_vars
  <2> SUFFICES ASSUME KeptInv, Next, devState = "open", devState' = "closed"
               PROVE  Kept
    OBVIOUS
  <2>1. CASE CloseDev
    BY <2>1 DEF CloseDev, At, KeptInv
  <2>2. CASE Idle \/ HandleEvents
    BY <2>2, IdleStep DEF hostVars, HandleEvents, ClientEvent, CtrlCallback, IntrCallback, Idle
  <2>3. CASE RunStage
    BY <2>1, <2>2, <2>3 DEF RunStage, OpenDev, GetInfo, GetDevDesc, GetConfigDesc, GetStrDesc,
       Describe, ClaimInterface, SubmitCtrl, SubmitIntr, Idle, hostVars
  <2>4. CASE Daemon \/ Bus \/ Cable \/ Reboot
    BY <2>4 DEF Daemon, Enumerate, ReportGone, Bus, CompleteCtrl, CompleteIntr, Cable, Plug,
       Unplug, Reboot, HostReset
  <2> QED BY <2>2, <2>3, <2>4 DEF Next, ClassDriver, Idle
<1> QED
  BY <1>3, <1>4, PTL DEF Spec, AttachedIsKept

\* Every step of the bridge is one the callbacks' protocol allows, or none of
\* the application's business.
THEOREM CallbacksImplemented == Spec => CallbackProtocol
<1> USE DEF NULL, Callbacks!Next, Callbacks!Info, Callbacks!Described,
            Callbacks!Report, Callbacks!Removed, Callbacks!AppState, Callbacks!Phase
<1>1. Init => Callbacks!Init
  BY DEF Init, Callbacks!Init, Callbacks!NoDevice
<1>2. ASSUME IInv, [Next]_vars
      PROVE  [Callbacks!Next]_app
  <2> USE <1>2 DEF IInv, TypeOK, AppInv
  <2>1. CASE GetStrDesc
    <3>1. /\ app' = [dev |-> dev_hdl, phase |-> "informed", last |-> 0]
          /\ "STR_DESC" \in actions
      BY <2>1 DEF GetStrDesc, Describe, At
    <3>2. app.phase # "described" /\ app.dev < dev_hdl
      BY <3>1 DEF Preparing
    <3> QED
      BY <3>1, <3>2
  <2>2. CASE CtrlCallback
    <3>1. CASE ctrl = "done"
      <4>1. app' = [dev |-> devId, phase |-> "described", last |-> 0]
        BY <2>2, <3>1 DEF CtrlCallback
      <4>2. app.phase = "informed" /\ app.dev = devId /\ app.last = 0
        BY <3>1 DEF HandleInv, HandleDiscipline, HandleMatchesLibrary
      <4> QED
        BY <4>1, <4>2
    <3>2. CASE ctrl # "done"
      BY <2>2, <3>2 DEF CtrlCallback
    <3> QED
      BY <3>1, <3>2
  <2>3. CASE IntrCallback
    <3>1. app.phase = "described" /\ app.dev = devId
      BY <2>3 DEF IntrCallback, HandleInv, HandleDiscipline, HandleMatchesLibrary
    <3> QED
      BY <2>3, <3>1 DEF IntrCallback
  <2>4. CASE CloseDev
    BY <2>4 DEF CloseDev, TellRemoved
  <2>5. CASE Reboot
    BY <2>5 DEF Reboot
  <2>6. CASE Idle
    BY <2>6, IdleStep
  <2>7. CASE \/ ClientEvent \/ OpenDev \/ GetInfo \/ GetDevDesc \/ GetConfigDesc
             \/ ClaimInterface \/ SubmitCtrl \/ SubmitIntr
    BY <2>7 DEF ClientEvent, OpenDev, GetInfo, GetDevDesc, GetConfigDesc,
                ClaimInterface, SubmitCtrl, SubmitIntr
  <2>8. CASE Daemon \/ Bus \/ Cable \/ UNCHANGED vars
    BY <2>8 DEF Daemon, Bus, Cable, taskVars, vars
  <2> QED
    BY <2>1, <2>2, <2>3, <2>4, <2>5, <2>6, <2>7, <2>8
       DEF Next, ClassDriver, HandleEvents, RunStage, Idle
<1> QED
  BY <1>1, <1>2, Invariance, PTL DEF Spec, CallbackProtocol, Callbacks!Spec

=============================================================================
