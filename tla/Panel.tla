------------------------------- MODULE Panel -------------------------------
(***************************************************************************)
(* The front of the gateway: the display's task shows the logo and then    *)
(* two pages in turn, a button turns the page, the probe's task measures   *)
(* the temperature the first page shows, and the main loop steps the       *)
(* colour of the LED through the LED's queue.                              *)
(*                                                                         *)
(* External: the clock, the button, and a UPS that comes and goes, as      *)
(* isConnected gives it.  What page 1 reads of the UPS is left out.        *)
(***************************************************************************)
EXTENDS Naturals, Sequences

CONSTANTS
    Degrees,        \* temperatures the probe may read
    Disconnected,   \* DEVICE_DISCONNECTED_C
    Off,            \* the temperature before the first reading
    FailureMax,     \* TEMP_FAILURE_MAX
    PageDelay,      \* how long a page is shown: 3 s
    ButtonDelay,    \* how long a page the button chose is shown: 10 s
    Frames,         \* frames of the logo
    Hues            \* colours of the LED

ASSUME ReadingAssumption == Disconnected \notin Degrees /\ Off # Disconnected
ASSUME TimeAssumption == PageDelay \in Nat \ {0} /\ ButtonDelay \in Nat /\ PageDelay < ButtonDelay
ASSUME CountAssumption ==
    FailureMax \in Nat \ {0} /\ Frames \in Nat \ {0} /\ Hues \in Nat \ {0}

VARIABLES
    connected,      \* what isConnected returns
    button,         \* USER_BUTTON_PIN: FALSE while the button is pressed
    oled,           \* where oledTask is
    step,           \* LogoAnimation::step_
    page, next,     \* actualPage, nextPage
    delay,          \* pageDelay
    since,          \* now - lastPageChange, up to ButtonDelay + 1
    lastButton, pressed,
    buffer, screen, \* what is drawn, and what the display shows
    probe,          \* where readTemperature is
    reading,        \* tempRead
    failures,       \* failureCount_
    temperature,    \* temperature_
    ledQueue,       \* newStateQueue_
    hue, led        \* the colour to send next, and the LED's

envVars   == <<connected, button>>
pageVars  == <<page, next, delay, since, lastButton, pressed>>
oledVars  == <<oled, step, pageVars, buffer, screen>>
probeVars == <<probe, reading, failures, temperature>>
ledVars   == <<ledQueue, hue, led>>
vars == <<envVars, oledVars, probeVars, ledVars>>

Reading == Degrees \cup {Disconnected, Off}
Drawing == {<<"logo">>, <<"values">>} \cup {<<"status", t, c>> : t \in Reading, c \in BOOLEAN}

\* The LED's queue, which drops what comes while it holds ten, never holds two.
TypeOK ==
    /\ connected \in BOOLEAN /\ button \in BOOLEAN
    /\ oled \in {"logo", "draw", "turn"}
    /\ step \in 0..Frames - 1
    /\ page \in {0, 1} /\ next \in {0, 1}
    /\ delay \in {0, PageDelay, ButtonDelay}
    /\ since \in 0..ButtonDelay + 1
    /\ lastButton \in BOOLEAN /\ pressed \in BOOLEAN
    /\ buffer \in Drawing /\ screen \in Drawing
    /\ probe \in {"read", "store"}
    /\ reading \in Reading /\ temperature \in Reading
    /\ failures \in 0..FailureMax
    /\ ledQueue \in Seq(0..Hues - 1) /\ Len(ledQueue) <= 1
    /\ hue \in 0..Hues - 1 /\ led \in 0..Hues - 1

Init ==
    /\ connected = FALSE
    /\ button \in BOOLEAN
    /\ oled = "logo" /\ step = 0
    /\ page = 0 /\ next = 0 /\ delay = PageDelay /\ since = 0
    /\ lastButton = FALSE /\ pressed = FALSE
    /\ buffer = <<"logo">> /\ screen = <<"logo">>
    /\ probe = "read" /\ reading = Off /\ temperature = Off
    /\ failures = 0
    /\ ledQueue = <<>> /\ hue = 0 /\ led = 0

-----------------------------------------------------------------------------
(* The environment.                                                        *)

Ups == connected' = ~connected /\ UNCHANGED <<button, oledVars, probeVars, ledVars>>

Button == button' = ~button /\ UNCHANGED <<connected, oledVars, probeVars, ledVars>>

Tick ==
    /\ oled # "logo"
    /\ since <= ButtonDelay
    /\ since' = since + 1
    /\ UNCHANGED <<envVars, oled, step, page, next, delay, lastButton, pressed, buffer, screen,
                   probeVars, ledVars>>

-----------------------------------------------------------------------------
(* oledTask.                                                               *)

\* animate, each frame; after the last, the pages begin.
Animate ==
    /\ oled = "logo"
    /\ step' = (step + 1) % Frames
    /\ oled' = IF step' = 0 THEN "draw" ELSE "logo"
    /\ UNCHANGED <<envVars, pageVars, buffer, screen, probeVars, ledVars>>

DrawStatus ==
    /\ oled = "draw"
    /\ page = 0
    /\ buffer' = <<"status", temperature, connected>>
    /\ delay' = PageDelay
    /\ next' = IF connected THEN 1 ELSE 0
    /\ oled' = "turn"
    /\ UNCHANGED <<envVars, step, page, since, lastButton, pressed, screen, probeVars, ledVars>>

DrawValues_WaitsItsTurn ==
    /\ oled = "draw"
    /\ page = 1
    /\ buffer' = <<"values">>
    /\ delay' = PageDelay
    /\ next' = IF connected THEN 0 ELSE 1
    /\ oled' = "turn"
    /\ UNCHANGED <<envVars, step, page, since, lastButton, pressed, screen, probeVars, ledVars>>
DrawValues ==
    /\ oled = "draw"
    /\ page = 1
    /\ buffer' = <<"values">>
    /\ delay' = IF connected THEN PageDelay ELSE 0
    /\ next' = 0
    /\ oled' = "turn"
    /\ UNCHANGED <<envVars, step, page, since, lastButton, pressed, screen, probeVars, ledVars>>

\* The page is displayed, unless it is to be left at once; it is turned when its
\* time is over or the button has gone down since the last turn.
Edge == lastButton /\ ~button

Turn_ForgetsPress ==
    /\ oled = "turn"
    /\ screen' = IF delay > 0 THEN buffer ELSE screen
    /\ IF since > delay \/ Edge
       THEN page' = next /\ since' = 0 /\ pressed' = Edge
       ELSE UNCHANGED <<page, since, pressed>>
    /\ lastButton' = button
    /\ oled' = "draw"
    /\ UNCHANGED <<envVars, step, next, delay, buffer, probeVars, ledVars>>
Turn ==
    /\ oled = "turn"
    /\ screen' = IF delay > 0 THEN buffer ELSE screen
    /\ delay' = IF pressed THEN ButtonDelay ELSE delay
    /\ IF since > delay' \/ Edge
       THEN page' = next /\ since' = 0 /\ pressed' = Edge
       ELSE UNCHANGED <<page, since, pressed>>
    /\ lastButton' = button
    /\ oled' = "draw"
    /\ UNCHANGED <<envVars, step, next, buffer, probeVars, ledVars>>

-----------------------------------------------------------------------------
(* readTemperature.                                                        *)

Count_KeepsFailures(degrees) ==
    IF degrees = Disconnected /\ failures < FailureMax THEN failures + 1 ELSE failures
Count(degrees) ==
    IF degrees # Disconnected THEN 0
    ELSE IF failures < FailureMax THEN failures + 1
    ELSE failures

Read ==
    /\ probe = "read"
    /\ reading' \in Degrees \cup {Disconnected}
    /\ failures' = Count(reading')
    /\ probe' = "store"
    /\ UNCHANGED <<envVars, oledVars, temperature, ledVars>>

Store ==
    /\ probe = "store"
    /\ temperature' = IF failures < FailureMax THEN reading ELSE Disconnected
    /\ probe' = "read"
    /\ UNCHANGED <<envVars, oledVars, reading, failures, ledVars>>

-----------------------------------------------------------------------------
(* The main loop and the LED.                                              *)

\* setNewState: the queue drops what it cannot hold.
Send(queue, colour) == IF Len(queue) < 10 THEN Append(queue, colour) ELSE queue

\* UserLed::loop shows the colour it takes, if there is one.
Shown == IF ledQueue = <<>> THEN led ELSE Head(ledQueue)
Rest(queue) == IF queue = <<>> THEN <<>> ELSE Tail(queue)

\* Then, every 100 ms, the main loop sends the next: customHSV.
LedLoop_TakesWhenIdle(due) ==
    /\ led' = IF due THEN led ELSE Shown
    /\ ledQueue' = IF due THEN Send(ledQueue, hue) ELSE Rest(ledQueue)
    /\ hue' = IF due THEN (hue + 1) % Hues ELSE hue
    /\ UNCHANGED <<envVars, oledVars, probeVars>>
LedLoop(due) ==
    /\ led' = Shown
    /\ ledQueue' = IF due THEN Send(Rest(ledQueue), hue) ELSE Rest(ledQueue)
    /\ hue' = IF due THEN (hue + 1) % Hues ELSE hue
    /\ UNCHANGED <<envVars, oledVars, probeVars>>

-----------------------------------------------------------------------------

Environment == Ups \/ Button
Display     == Animate \/ DrawStatus \/ DrawValues \/ Turn
Probe       == Read \/ Store
Loop        == LedLoop(TRUE) \/ LedLoop(FALSE)

Next == Environment \/ Tick \/ Display \/ Probe \/ Loop

Spec == Init /\ [][Next]_vars

\* The task is scheduled and time passes; nobody need press the button.
Fairness == WF_vars(Display) /\ WF_vars(Tick)

FairSpec == Spec /\ Fairness

-----------------------------------------------------------------------------
(* Safety.                                                                 *)

\* A page the button has chosen stays until its longer time is over or the
\* button is pressed again, although each drawing sets the page's own time and
\* a UPS may go meanwhile: a press is what oledTask last turned the page for.
PressHolds ==
    [][pressed /\ page' # page => since > ButtonDelay \/ Edge]_vars

\* Once a reading is dealt with, a good one is what is shown, also the first
\* after any number of failures, and after FailureMax failures in a row the probe
\* is shown disconnected.  What is shown of fewer failures is left open: the code
\* shows each, though it counts them.
ProbeRecovers ==
    probe = "read" =>
        /\ reading \in Degrees => temperature = reading
        /\ failures = FailureMax => temperature = Disconnected

(* Liveness, under FairSpec.                                               *)

\* If the UPS stays away, the display comes to say so and keeps saying so,
\* whichever page is shown and however the button is pressed.
RemovalIsShown ==
    <>[]~connected => <>[](screen[1] = "status" /\ ~screen[3])
=============================================================================
