---------------------------- MODULE PanelProofs ----------------------------
(***************************************************************************)
(* What Panel keeps for any delays, any number of tolerated failures and   *)
(* any colours.                                                            *)
(***************************************************************************)
EXTENDS Panel, TLAPS

-----------------------------------------------------------------------------
(* The temperature.                                                        *)

\* A reading that is counted as one failure too many is itself a failed one.
CountedIsFailed ==
    /\ failures \in Nat
    /\ failures > 0 => reading = Disconnected

ReadingInv == ProbeRecovers /\ CountedIsFailed

\* Only the probe's task touches the reading and what is made of it.
LEMMA OthersLeaveReading ==
    ASSUME Environment \/ Tick \/ Display \/ Loop
    PROVE  UNCHANGED probeVars
BY DEF Environment, Ups, Button, Tick, Display, Animate, DrawStatus, DrawValues, Turn, Loop,
       LedLoop, oledVars, ledVars

\* ProbeRecovers: the count of failures withholds no good reading, and it reaches
\* its maximum only at a failed one.
THEOREM ReadingCorrect == Spec => []ProbeRecovers
<1>1. Init => ReadingInv
  BY CountAssumption DEF Init, ReadingInv, ProbeRecovers, CountedIsFailed
<1>2. ReadingInv /\ [Next]_vars => ReadingInv'
  <2> SUFFICES ASSUME ReadingInv, [Next]_vars PROVE ReadingInv'
    OBVIOUS
  <2> USE CountAssumption, ReadingAssumption DEF ReadingInv, ProbeRecovers, CountedIsFailed
  <2>1. CASE Environment \/ Tick \/ Display \/ Loop
    BY <2>1, OthersLeaveReading DEF probeVars
  <2>2. CASE Read
    BY <2>2 DEF Read, Count
  <2>3. CASE Store
    BY <2>3 DEF Store
  <2>4. CASE UNCHANGED vars
    BY <2>4 DEF vars, probeVars
  <2> QED BY <2>1, <2>2, <2>3, <2>4 DEF Next, Probe
<1>3. ReadingInv => ProbeRecovers
  BY DEF ReadingInv
<1> QED BY <1>1, <1>2, <1>3, PTL DEF Spec

-----------------------------------------------------------------------------
(* The button.                                                             *)

\* PressHolds: no step but Turn changes the page, and it does so only at the end
\* of the delay a press has set, or for another press.
THEOREM PressCorrect == Spec => PressHolds
<1> DEFINE Holds == pressed /\ page' # page => since > ButtonDelay \/ Edge
<1>1. [Next]_vars => [Holds]_vars
  <2> SUFFICES ASSUME Next PROVE Holds
    OBVIOUS
  <2>1. CASE Turn
    BY <2>1 DEF Turn
  <2>2. CASE Environment \/ Tick \/ Probe \/ Loop
    BY <2>2 DEF Environment, Ups, Button, Tick, Probe, Read, Store, Loop, LedLoop, oledVars,
       pageVars
  <2>3. CASE Animate \/ DrawStatus \/ DrawValues
    BY <2>3 DEF Animate, DrawStatus, DrawValues, pageVars
  <2> QED BY <2>1, <2>2, <2>3 DEF Next, Display
<1> QED BY <1>1, PTL DEF Spec, PressHolds

-----------------------------------------------------------------------------
(* The LED.                                                                *)

\* A queue of at most one, after one is received, has room for one.
LEMMA RestFacts ==
    ASSUME NEW S, NEW q \in Seq(S), Len(q) <= 1, NEW e \in S
    PROVE  /\ Rest(q) \in Seq(S) /\ Len(Rest(q)) <= 1
           /\ Append(Rest(q), e) \in Seq(S) /\ Len(Append(Rest(q), e)) <= 1
<1>1. Rest(q) \in Seq(S) /\ Len(Rest(q)) = 0
  <2>1. CASE q = <<>>
    <3>1. Rest(q) = <<>>
      BY <2>1 DEF Rest
    <3>2. <<>> \in Seq(S) /\ Len(<<>>) = 0
      OBVIOUS
    <3> QED BY <3>1, <3>2, Zenon
  <2>2. CASE q # <<>>
    <3>1. Len(q) > 0 /\ Len(q) \in Nat
      BY <2>2
    <3>2. Tail(q) \in Seq(S) /\ Len(Tail(q)) = Len(q) - 1
      BY <2>2
    <3>3. Rest(q) = Tail(q)
      BY <2>2 DEF Rest
    <3>4. Len(Tail(q)) = 0
      BY <3>1, <3>2
    <3> QED BY <3>2, <3>3, <3>4, Zenon
  <2> QED BY <2>1, <2>2
<1> QED BY <1>1

\* The LED's queue holds at most the colour sent last.
LedInv ==
    /\ ledQueue \in Seq(0..Hues - 1) /\ Len(ledQueue) <= 1
    /\ hue \in 0..Hues - 1

\* No colour is dropped: however often one is due, the queue of ten never holds
\* more than one, since the loop takes one before it sends one.
THEOREM LedCorrect == Spec => []LedInv
<1>1. Init => LedInv
  <2> SUFFICES ASSUME Init PROVE LedInv
    OBVIOUS
  <2>1. ledQueue \in Seq(0..Hues - 1) /\ Len(ledQueue) = 0
    BY DEF Init
  <2> QED BY <2>1, CountAssumption DEF Init, LedInv
<1>2. LedInv /\ [Next]_vars => LedInv'
  <2> SUFFICES ASSUME LedInv, [Next]_vars PROVE LedInv'
    OBVIOUS
  <2>1. ASSUME NEW due \in BOOLEAN, LedLoop(due) PROVE LedInv'
    <3> DEFINE rest == Rest(ledQueue)
    <3>1. ledQueue' = rest \/ ledQueue' = Append(rest, hue)
      BY <2>1 DEF LedLoop, Send
    <3>2. ledQueue \in Seq(0..Hues - 1) /\ Len(ledQueue) <= 1 /\ hue \in 0..Hues - 1
      BY DEF LedInv
    <3>3. /\ rest \in Seq(0..Hues - 1) /\ Len(rest) <= 1
          /\ Append(rest, hue) \in Seq(0..Hues - 1) /\ Len(Append(rest, hue)) <= 1
      BY <3>2, RestFacts, Zenon
    <3> HIDE DEF rest
    <3>4. ledQueue' \in Seq(0..Hues - 1) /\ Len(ledQueue') <= 1
      BY <3>1, <3>3, Zenon
    <3>5. hue' \in 0..Hues - 1
      BY <2>1, CountAssumption DEF LedLoop, LedInv
    <3> QED BY <3>4, <3>5, Zenon DEF LedInv
  <2>2. CASE Environment \/ Tick \/ Display \/ Probe
    BY <2>2 DEF Environment, Ups, Button, Tick, Display, Animate, DrawStatus, DrawValues, Turn,
       Probe, Read, Store, ledVars, LedInv
  <2>3. CASE UNCHANGED vars
    BY <2>3 DEF vars, ledVars, LedInv
  <2> QED BY <2>1, <2>2, <2>3 DEF Next, Loop
<1> QED BY <1>1, <1>2, PTL DEF Spec
-----------------------------------------------------------------------------
(* The types.                                                              *)

EnvType == connected \in BOOLEAN /\ button \in BOOLEAN

OledType ==
    /\ oled \in {"logo", "draw", "turn"}
    /\ step \in 0..Frames - 1
    /\ page \in {0, 1} /\ next \in {0, 1}
    /\ delay \in {0, PageDelay, ButtonDelay}
    /\ since \in 0..ButtonDelay + 1
    /\ lastButton \in BOOLEAN /\ pressed \in BOOLEAN
    /\ buffer \in Drawing /\ screen \in Drawing

ProbeType ==
    /\ probe \in {"read", "store"}
    /\ reading \in Reading /\ temperature \in Reading
    /\ failures \in 0..FailureMax

LedType == LedInv /\ led \in 0..Hues - 1

\* What the tasks of the panel have in common.
PanelType == EnvType /\ OledType /\ ProbeType /\ LedType

\* What the display draws of the temperature is a drawing.
LEMMA DrawnFacts ==
    /\ <<"logo">> \in Drawing /\ <<"values">> \in Drawing
    /\ \A t \in Reading, c \in BOOLEAN : <<"status", t, c>> \in Drawing
BY DEF Drawing

\* The display's task keeps its types.
LEMMA OledStep ==
    ASSUME PanelType, Tick \/ Display
    PROVE  OledType'
<1> USE CountAssumption, TimeAssumption
<1>1. CASE Tick
  <2>1. since \in Nat /\ since <= ButtonDelay /\ since' = since + 1
    BY <1>1 DEF Tick, PanelType, OledType
  <2> QED BY <1>1, <2>1 DEF Tick, PanelType, OledType
<1>2. CASE Animate
  <2>1. step' \in 0..Frames - 1 /\ oled' \in {"logo", "draw"}
    BY <1>2 DEF Animate, PanelType, OledType
  <2> QED BY <1>2, <2>1 DEF Animate, PanelType, OledType, pageVars
<1>3. CASE DrawStatus
  <2>1. buffer' \in Drawing
    BY <1>3, DrawnFacts DEF DrawStatus, PanelType, EnvType, ProbeType
  <2> QED BY <1>3, <2>1 DEF DrawStatus, PanelType, OledType
<1>4. CASE DrawValues
  <2>1. buffer' \in Drawing
    BY <1>4, DrawnFacts DEF DrawValues
  <2> QED BY <1>4, <2>1 DEF DrawValues, PanelType, OledType
<1>5. CASE Turn
  <2>1. Edge \in BOOLEAN
    BY DEF Edge
  <2>2. /\ page' \in {0, 1} /\ since' \in 0..ButtonDelay + 1 /\ pressed' \in BOOLEAN
        /\ delay' \in {0, PageDelay, ButtonDelay}
    BY <1>5, <2>1 DEF Turn, PanelType, OledType
  <2> QED BY <1>5, <2>2 DEF Turn, PanelType, OledType, EnvType
<1> QED BY <1>1, <1>2, <1>3, <1>4, <1>5 DEF Display

\* The probe's task keeps its types: the count of failures stops at its maximum.
LEMMA ProbeStep ==
    ASSUME PanelType, Probe
    PROVE  ProbeType'
<1> USE CountAssumption DEF PanelType, ProbeType, Reading
<1>1. CASE Read
  <2>1. reading' \in Reading /\ probe' = "store" /\ temperature' = temperature
    BY <1>1 DEF Read
  <2>2. failures' \in 0..FailureMax
    BY <1>1 DEF Read, Count
  <2> QED BY <2>1, <2>2
<1>2. CASE Store
  BY <1>2 DEF Store
<1> QED BY <1>1, <1>2 DEF Probe

\* The first of a queue is one of its elements.
LEMMA HeadFacts ==
    ASSUME NEW S, NEW q \in Seq(S), q # <<>>
    PROVE  Head(q) \in S
OBVIOUS

\* The LED shows one of the colours it is sent.
LEMMA ShownFacts ==
    ASSUME LedType
    PROVE  Shown \in 0..Hues - 1
<1>1. ledQueue \in Seq(0..Hues - 1) /\ led \in 0..Hues - 1
  BY DEF LedType, LedInv
<1>2. ledQueue # <<>> => Head(ledQueue) \in 0..Hues - 1
  BY <1>1, HeadFacts, Zenon
<1> QED BY <1>1, <1>2, Zenon DEF Shown

\* Every variable of the panel keeps its type.
THEOREM TypeCorrect == Spec => []TypeOK
<1>1. Init /\ LedInv => PanelType
  <2> SUFFICES ASSUME Init, LedInv PROVE PanelType
    OBVIOUS
  <2>1. /\ 0 \in 0..Frames - 1 /\ 0 \in 0..Hues - 1 /\ 0 \in 0..FailureMax
        /\ 0 \in 0..ButtonDelay + 1
    BY CountAssumption, TimeAssumption
  <2>2. OledType
    BY <2>1, DrawnFacts DEF Init, OledType
  <2>3. EnvType /\ ProbeType
    BY <2>1 DEF Init, EnvType, ProbeType, Reading
  <2>4. LedType
    BY <2>1 DEF Init, LedType
  <2> QED BY <2>2, <2>3, <2>4 DEF PanelType
<1>2. PanelType /\ LedInv' /\ [Next]_vars => PanelType'
  <2> SUFFICES ASSUME PanelType, LedInv', [Next]_vars PROVE PanelType'
    OBVIOUS
  <2>1. CASE Environment
    <3>1. EnvType'
      BY <2>1 DEF Environment, Ups, Button, PanelType, EnvType
    <3>2. UNCHANGED <<oledVars, probeVars, ledVars>>
      BY <2>1 DEF Environment, Ups, Button
    <3> QED BY <3>1, <3>2 DEF PanelType, OledType, ProbeType, LedType, LedInv, oledVars, pageVars,
       probeVars, ledVars
  <2>2. CASE Tick \/ Display
    <3>1. OledType'
      BY <2>2, OledStep
    <3>2. UNCHANGED <<envVars, probeVars, ledVars>>
      BY <2>2 DEF Tick, Display, Animate, DrawStatus, DrawValues, Turn
    <3> QED BY <3>1, <3>2 DEF PanelType, EnvType, ProbeType, LedType, LedInv, envVars, probeVars, ledVars
  <2>3. CASE Probe
    <3>1. ProbeType'
      BY <2>3, ProbeStep
    <3>2. UNCHANGED <<envVars, oledVars, ledVars>>
      BY <2>3 DEF Probe, Read, Store
    <3> QED BY <3>1, <3>2 DEF PanelType, EnvType, OledType, LedType, LedInv, envVars, oledVars, pageVars,
       ledVars
  <2>4. CASE Loop
    <3>1. led' \in 0..Hues - 1
      BY <2>4, ShownFacts DEF Loop, LedLoop, PanelType
    <3>2. UNCHANGED <<envVars, oledVars, probeVars>>
      BY <2>4 DEF Loop, LedLoop
    <3> QED BY <3>1, <3>2 DEF PanelType, EnvType, OledType, ProbeType, LedType, envVars, oledVars,
       pageVars, probeVars
  <2>5. CASE UNCHANGED vars
    BY <2>5 DEF vars, envVars, oledVars, pageVars, probeVars, ledVars, PanelType, EnvType, OledType,
       ProbeType, LedType, LedInv
  <2> QED BY <2>1, <2>2, <2>3, <2>4, <2>5 DEF Next
<1>3. PanelType => TypeOK
  BY DEF PanelType, EnvType, OledType, ProbeType, LedType, LedInv, TypeOK
<1> QED BY <1>1, <1>2, <1>3, LedCorrect, PTL DEF Spec
=============================================================================
