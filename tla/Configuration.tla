---------------------------- MODULE Configuration ----------------------------
(***************************************************************************)
(* DeviceConfiguration: the settings in memory and their file in flash.    *)
(* Two tasks change settings: the web server's, for POST /config, and the  *)
(* Arduino loop task, which resets them when the user button is held and   *)
(* writes them to flash some time after the last change.  Each setter is   *)
(* atomic under mutexData_; it then notifies the listeners under           *)
(* mutexListeners_, and main's configChanged reads the setting again and   *)
(* applies it to the Ethernet interface.  Power may fail at any time.      *)
(*                                                                         *)
(* A file that is absent or cannot be read is represented by one that      *)
(* holds the defaults.                                                     *)
(***************************************************************************)
EXTENDS Integers, Sequences

CONSTANTS
    Value,          \* what a setting, or a part of the address, may be
    Default,        \* what it is by default
    Dhcp,           \* INADDR_NONE, for a part of the address
    Posts,          \* the documents posted: settings and their new values
    SaveDelay,      \* FLASH_SAVE_DELAY
    PressTime,      \* USER_BTN_PRESS_TIME
    Wrap,           \* the modulus of an unsigned long
    MaxTime,        \* bound: the clock
    MaxPosts,       \* bound: documents posted
    MaxBoots        \* bound: power-ups

\* The address is one setting, the three of setIPAddress.
Param == {"name", "address", "temp", "trap", "mac", "user", "pass"}
Part  == {"ip", "subnet", "gateway"}

Address == [Part -> Value]
Setting == Value \cup Address

\* toJSON writes all but the trap address.
Saved == Param \ {"trap"}

\* What configChanged applies.
Heeded == {"name", "address"}

\* What a document may name; what resetToDefault sets, in its order.
Postable == {"name", "temp", "trap", "mac"} \cup Part
ResetOrder_NoTemp == <<"name", "address", "user", "pass">>
ResetOrder == <<"name", "address", "user", "pass", "temp">>

ASSUME DefaultAssumption == Default \in Value /\ Dhcp \in Value /\ Default # Dhcp
ASSUME PostsAssumption ==
    \A posting \in Posts : /\ DOMAIN posting \subseteq Postable
                           /\ \A q \in DOMAIN posting : posting[q] \in Value
ASSUME TimeAssumption ==
    /\ SaveDelay \in Nat /\ PressTime \in Nat
    /\ MaxTime \in Nat \ {0} /\ Wrap \in Nat /\ MaxTime < Wrap
ASSUME BoundAssumption == MaxPosts \in Nat /\ MaxBoots \in Nat

Task == {"web", "loop"}
Nobody == "nobody"

VARIABLES
    mem,            \* the settings
    lastChange,     \* lastChange_
    flash,          \* CFG_FILENAME
    applied,        \* what the Ethernet interface was last given
    registered,     \* listeners_ holds configChanged
    holder,         \* mutexListeners_
    todo,           \* todo[t]: the setters task t has yet to run
    step,           \* step[t]: where t is in the first of them
    heard,          \* heard[t]: what configChanged read in t
    doc,            \* the document the web task handles
    pc,             \* where the loop task is, setup included
    now,            \* loop's now
    image,          \* what write has serialised
    lastButton, lastPress, cfgReset,    \* DeviceConfiguration's, of the same names
    button,         \* the user button is down
    ethUp,          \* ETH_START is handled: requests may come
    clock,          \* millis()
    posts, boots,   \* counters for the bounds
    missed,         \* settings changed when nobody listened
    posted,         \* settings a POST has set since the last reset began
    lost            \* a write has failed and nothing has changed since

memVars    == <<mem, lastChange, flash, image>>
notifyVars == <<applied, registered, holder, todo, step, heard, doc>>
buttonVars == <<lastButton, lastPress, cfgReset>>
worldVars  == <<button, ethUp, clock, posts, boots>>
vars == <<memVars, notifyVars, pc, now, buttonVars, worldVars, missed, posted, lost>>

Booting == {"off", "loaded", "config", "register"}
Looping == {"top", "check", "write", "close", "button", "reset"}

\* The values the program starts with: the constructor's.
Defaults == [q \in Param |-> IF q = "address" THEN [part \in Part |-> Default] ELSE Default]

\* toJSON asks of the subnet, not of the gateway, whether to write the gateway.
Written(a) == IF a["subnet"] = Dhcp THEN [a EXCEPT !["gateway"] = Dhcp] ELSE a
Image(m) == [q \in Saved |-> IF q = "address" THEN Written(m[q]) ELSE m[q]]

\* A local that has left its scope.
NoImage == [q \in Saved |-> Defaults[q]]
Unheard(t) == [heard EXCEPT ![t] = Default]
DropDoc(t) == doc' = IF t = "web" /\ Tail(todo[t]) = <<>> THEN <<>> ELSE doc

TypeOK ==
    /\ mem \in [Param -> Setting]
    /\ mem["address"] \in Address
    /\ lastChange \in 0..MaxTime
    /\ flash \in [Saved -> Setting]
    /\ flash["address"] \in Address
    /\ applied \in [Heeded -> Setting]
    /\ registered \in BOOLEAN
    /\ holder \in Task \cup {Nobody}
    /\ todo \in [Task -> Seq(Param)]
    /\ step \in [Task -> {"set", "merged", "notify", "apply"}]
    /\ \A t \in Task : todo[t] = <<>> => step[t] = "set"
    /\ heard \in [Task -> Setting]
    /\ step["web"] = "merged" => heard["web"] \in Address
    /\ doc \in Posts \cup {<<>>}
    /\ pc \in Booting \cup Looping
    /\ now \in 0..MaxTime
    /\ image \in [Saved -> Setting]
    /\ image["address"] \in Address
    /\ lastButton \in BOOLEAN /\ lastPress \in 0..MaxTime /\ cfgReset \in BOOLEAN
    /\ button \in BOOLEAN /\ ethUp \in BOOLEAN
    /\ clock \in 1..MaxTime
    /\ posts \in 0..MaxPosts /\ boots \in 0..MaxBoots
    /\ missed \subseteq Heeded
    /\ posted \subseteq Param
    /\ lost \in BOOLEAN

-----------------------------------------------------------------------------

Init ==
    /\ mem = Defaults
    /\ lastChange = 0
    /\ applied = [q \in Heeded |-> Defaults[q]]
    /\ registered = FALSE
    /\ holder = Nobody
    /\ todo = [t \in Task |-> <<>>]
    /\ step = [t \in Task |-> "set"]
    /\ heard = [t \in Task |-> Default]
    /\ doc = <<>>
    /\ pc = "off"
    /\ now = 0
    /\ image = NoImage
    /\ lastButton = FALSE
    /\ lastPress = 0
    /\ cfgReset = FALSE
    /\ ethUp = FALSE
    /\ clock = 1
    /\ missed = {}
    /\ posted = {}
    /\ lost = FALSE
    /\ flash = Image(Defaults)
    /\ button = FALSE
    /\ posts = 0
    /\ boots = 0

-----------------------------------------------------------------------------
(* setup, in the loop task, and the event ETH.begin leads to.              *)

\* fromJSON of the file over the constructor's values.
Loaded == [q \in Param |-> IF q \in Saved THEN flash[q] ELSE Defaults[q]]

\* load: the setters find no listener, and nothing is left to write.
Load ==
    /\ pc = "off"
    /\ mem' = Loaded
    /\ lastChange' = 0
    /\ pc' = "loaded"
    /\ UNCHANGED <<flash, image, notifyVars, now, buttonVars, worldVars, missed, posted, lost>>

\* WiFiEvent, ETH_START.
EthStart ==
    /\ pc # "off"
    /\ ~ethUp
    /\ ethUp' = TRUE
    /\ applied' = [applied EXCEPT !["name"] = mem["name"]]
    /\ UNCHANGED <<memVars, registered, holder, todo, step, heard, doc, pc, now,
                   buttonVars, button, clock, posts, boots, missed, posted, lost>>

\* setup reads the address, gives it to the interface and registers configChanged.
SetupReadsIP ==
    /\ pc = "loaded"
    /\ heard' = [heard EXCEPT !["loop"] = mem["address"]]
    /\ pc' = "config"
    /\ UNCHANGED <<memVars, applied, registered, holder, todo, step, doc, now,
                   buttonVars, worldVars, missed, posted, lost>>

SetupAppliesIP ==
    /\ pc = "config"
    /\ applied' = [applied EXCEPT !["address"] = heard["loop"]]
    /\ heard' = Unheard("loop")
    /\ pc' = "register"
    /\ UNCHANGED <<memVars, registered, holder, todo, step, doc, now,
                   buttonVars, worldVars, missed, posted, lost>>

RegisterListener ==
    /\ pc = "register"
    /\ holder = Nobody
    /\ registered' = TRUE
    /\ pc' = "top"
    /\ UNCHANGED <<memVars, applied, holder, todo, step, heard, doc, now,
                   buttonVars, worldVars, missed, posted, lost>>

-----------------------------------------------------------------------------
(* A setter, in either task: the change, then notifyListeners.             *)

Change(t, q, v) ==
    /\ mem' = [mem EXCEPT ![q] = v]
    /\ lastChange' = clock
    /\ lost' = FALSE
    /\ step' = [step EXCEPT ![t] = "notify"]

Done_KeepsStep(t) ==
    /\ todo' = [todo EXCEPT ![t] = Tail(@)]
    /\ UNCHANGED step
Done(t) ==
    /\ todo' = [todo EXCEPT ![t] = Tail(@)]
    /\ step' = [step EXCEPT ![t] = "set"]

ListenersFree_Unlocked == TRUE
ListenersFree == holder = Nobody

\* Nobody listens, or configChanged has nothing to do for this setting.
NotifyNone(t) ==
    /\ step[t] = "notify"
    /\ ListenersFree
    /\ ~registered \/ Head(todo[t]) \notin Heeded
    /\ Done(t)
    /\ missed' = IF Head(todo[t]) \in Heeded /\ ~(Head(todo[t]) = "address" /\ pc = "loaded")
                 THEN missed \cup {Head(todo[t])}
                 ELSE missed
    /\ DropDoc(t)
    /\ UNCHANGED <<memVars, applied, registered, holder, heard, pc, now,
                   buttonVars, worldVars, posted, lost>>

\* configChanged reads the setting...
NotifyReads(t) ==
    /\ step[t] = "notify"
    /\ ListenersFree
    /\ registered /\ Head(todo[t]) \in Heeded
    /\ holder' = t
    /\ heard' = [heard EXCEPT ![t] = mem[Head(todo[t])]]
    /\ step' = [step EXCEPT ![t] = "apply"]
    /\ UNCHANGED <<memVars, applied, registered, todo, doc, pc, now,
                   buttonVars, worldVars, missed, posted, lost>>

\* ...and applies it; mutexListeners_ is held throughout.
NotifyApplies(t) ==
    /\ step[t] = "apply"
    /\ applied' = [applied EXCEPT ![Head(todo[t])] = heard[t]]
    /\ missed' = missed \ {Head(todo[t])}
    /\ heard' = Unheard(t)
    /\ holder' = Nobody
    /\ Done(t)
    /\ DropDoc(t)
    /\ UNCHANGED <<memVars, registered, pc, now, buttonVars, worldVars, posted, lost>>

Notify(t) == NotifyNone(t) \/ NotifyReads(t) \/ NotifyApplies(t)

-----------------------------------------------------------------------------
(* The web server's task: POST /config.                                    *)

\* fromJSON, in its order: the settings named, and the address whatever is.
Setters(posting) ==
    LET named(q) == IF q \in DOMAIN posting THEN <<q>> ELSE <<>>
    IN  named("name") \o <<"address">> \o named("temp") \o named("trap") \o named("mac")

PostBegin ==
    /\ ethUp
    /\ todo["web"] = <<>>
    /\ posts < MaxPosts
    /\ doc' \in Posts
    /\ posts' = posts + 1
    /\ todo' = [todo EXCEPT !["web"] = Setters(doc')]
    /\ UNCHANGED <<memVars, applied, registered, holder, step, heard, pc, now,
                   buttonVars, button, ethUp, clock, boots, missed, posted, lost>>

Merged(posting, address) ==
    [part \in Part |-> IF part \in DOMAIN posting THEN posting[part] ELSE address[part]]

\* The address is read, merged with the document and set in separate sections.
PostReadsIP ==
    /\ todo["web"] # <<>>
    /\ Head(todo["web"]) = "address"
    /\ step["web"] = "set"
    /\ heard' = [heard EXCEPT !["web"] = Merged(doc, mem["address"])]
    /\ step' = [step EXCEPT !["web"] = "merged"]
    /\ UNCHANGED <<memVars, applied, registered, holder, todo, doc, pc, now,
                   buttonVars, worldVars, missed, posted, lost>>

PostSets ==
    /\ todo["web"] # <<>>
    /\ LET q == Head(todo["web"])
       IN  /\ step["web"] = (IF q = "address" THEN "merged" ELSE "set")
           /\ Change("web", q, IF q = "address" THEN heard["web"] ELSE doc[q])
           /\ posted' = posted \cup {q}
    /\ heard' = Unheard("web")
    /\ UNCHANGED <<flash, image, applied, registered, holder, todo, doc, pc, now,
                   buttonVars, worldVars, missed>>

-----------------------------------------------------------------------------
(* DeviceConfiguration::loop.                                              *)

LoopTop ==
    /\ pc = "top"
    /\ now' = clock
    /\ pc' = "check"
    /\ UNCHANGED <<memVars, notifyVars, buttonVars, worldVars, missed, posted, lost>>

\* Unsigned: a change made after now was read is very old.
Elapsed(since) == (now - since) % Wrap

ChangeIsDue == lastChange # 0 /\ Elapsed(lastChange) >= SaveDelay

LoopCheck ==
    /\ pc = "check"
    /\ IF ChangeIsDue
       THEN lastChange' = 0 /\ pc' = "write"
       ELSE pc' = "button" /\ UNCHANGED lastChange
    /\ UNCHANGED <<mem, flash, image, notifyVars, now, buttonVars, worldVars, missed, posted, lost>>

\* The data mutex is not waited for: another task may hold it.
LoopBusy ==
    /\ pc = "check"
    /\ pc' = "button"
    /\ UNCHANGED <<memVars, notifyVars, now, buttonVars, worldVars, missed, posted, lost>>

ToJSON_NoMac == [Image(mem) EXCEPT !["mac"] = Default]
ToJSON == Image(mem)

WriteImage ==
    /\ pc = "write"
    /\ image' = ToJSON
    /\ pc' = "close"
    /\ UNCHANGED <<mem, lastChange, flash, notifyVars, now, buttonVars, worldVars, missed, posted, lost>>

\* LittleFS replaces the file when it is closed.
Close_Clears == flash' = image /\ lastChange' = 0
Close == flash' = image /\ UNCHANGED lastChange

WriteClose ==
    /\ pc = "close"
    /\ Close
    /\ image' = NoImage
    /\ lost' = FALSE
    /\ pc' = "button"
    /\ UNCHANGED <<mem, notifyVars, now, buttonVars, worldVars, missed, posted>>

\* Nobody looks at what LittleFS.open, serializeJson and close return: the file
\* stays as it was, or is cut short, which load takes for no file.
WriteFails ==
    /\ pc = "close"
    /\ flash' \in {flash, Image(Defaults)}
    /\ image' = NoImage
    /\ lost' = (lastChange = 0)
    /\ pc' = "button"
    /\ UNCHANGED <<mem, lastChange, notifyVars, now, buttonVars, worldVars, missed, posted>>

\* The button: its press is timed, and after PressTime resetToDefault begins.
LoopButton ==
    /\ pc = "button"
    /\ lastButton' = ~button
    /\ IF button /\ ~lastButton /\ ~cfgReset /\ (clock - lastPress) % Wrap > PressTime
       THEN /\ cfgReset' = TRUE
            /\ todo' = [todo EXCEPT !["loop"] = ResetOrder]
            /\ posted' = {}
            /\ pc' = "reset"
            /\ UNCHANGED lastPress
       ELSE /\ IF button /\ lastButton
               THEN lastPress' = now /\ cfgReset' = FALSE
               ELSE UNCHANGED <<lastPress, cfgReset>>
            /\ pc' = "top"
            /\ UNCHANGED <<todo, posted>>
    /\ now' = 0
    /\ UNCHANGED <<memVars, applied, registered, holder, step, heard, doc, worldVars, missed, lost>>

ResetSets ==
    /\ pc = "reset"
    /\ todo["loop"] # <<>>
    /\ step["loop"] = "set"
    /\ Change("loop", Head(todo["loop"]), Defaults[Head(todo["loop"])])
    /\ UNCHANGED <<flash, image, applied, registered, holder, todo, heard, doc, pc, now,
                   buttonVars, worldVars, missed, posted>>

ResetEnds ==
    /\ pc = "reset"
    /\ todo["loop"] = <<>>
    /\ pc' = "top"
    /\ UNCHANGED <<memVars, notifyVars, now, buttonVars, worldVars, missed, posted, lost>>

-----------------------------------------------------------------------------
(* The world.                                                              *)

Tick ==
    /\ clock < MaxTime
    /\ clock' = clock + 1
    /\ UNCHANGED <<memVars, notifyVars, pc, now, buttonVars, button, ethUp, posts, boots,
                   missed, posted, lost>>

Button ==
    /\ button' = ~button
    /\ UNCHANGED <<memVars, notifyVars, pc, now, buttonVars, ethUp, clock, posts, boots,
                   missed, posted, lost>>

\* Power fails and returns: the file is all that is left.
Restart ==
    /\ pc # "off"
    /\ boots < MaxBoots
    /\ boots' = boots + 1
    /\ mem' = Defaults
    /\ lastChange' = 0
    /\ applied' = [q \in Heeded |-> Defaults[q]]
    /\ registered' = FALSE
    /\ holder' = Nobody
    /\ todo' = [t \in Task |-> <<>>]
    /\ step' = [t \in Task |-> "set"]
    /\ heard' = [t \in Task |-> Default]
    /\ doc' = <<>>
    /\ pc' = "off"
    /\ now' = 0
    /\ image' = NoImage
    /\ lastButton' = FALSE
    /\ lastPress' = 0
    /\ cfgReset' = FALSE
    /\ ethUp' = FALSE
    /\ clock' = 1
    /\ missed' = {}
    /\ posted' = {}
    /\ lost' = FALSE
    /\ UNCHANGED <<flash, button, posts>>

-----------------------------------------------------------------------------

Setup == Load \/ SetupReadsIP \/ SetupAppliesIP \/ RegisterListener
Saving == LoopTop \/ LoopCheck \/ WriteImage \/ WriteClose \/ WriteFails \/ LoopButton
Reset == ResetSets \/ Notify("loop") \/ ResetEnds
Post  == PostReadsIP \/ PostSets \/ Notify("web")
World == Tick \/ Button \/ Restart

Next == Setup \/ EthStart \/ PostBegin \/ Post \/ Saving \/ LoopBusy \/ Reset \/ World

Spec == Init /\ [][Next]_vars

\* Each task runs; the loop finds the data mutex free again and again, because
\* what runs under it is a few assignments.
Fairness ==
    /\ WF_vars(Setup \/ Saving \/ Reset)
    /\ WF_vars(Post)
    /\ SF_vars(LoopCheck)

FairSpec == Spec /\ Fairness

-----------------------------------------------------------------------------
(* Safety.                                                                 *)

\* A file that holds what is in memory, but for the trap address, and for a
\* gateway while the subnet is left to DHCP: toJSON leaves both out.
HoldsMemory(file) ==
    /\ \A q \in Saved \ {"address"} : file[q] = mem[q]
    /\ \A part \in Part \ {"gateway"} : file["address"][part] = mem["address"][part]
    /\ mem["address"]["subnet"] # Dhcp => file["address"]["gateway"] = mem["address"]["gateway"]

\* No change is forgotten: when no write is due or under way, the file holds
\* what is in memory, unless the last write failed, of which loop knows nothing.
\* loop clears lastChange_ before it serialises, so that a change made meanwhile
\* is written next time.
NothingForgotten ==
    pc # "off" /\ lastChange = 0 /\ pc \notin {"write", "close"} /\ ~lost => HoldsMemory(flash)

\* Two tasks may change a setting and notify at the same time: once the
\* notifications have ended, the interface has the latest of the changes that
\* were made when configChanged was registered.
InterfaceIsCurrent ==
    registered /\ ethUp =>
        \A q \in Heeded \ missed :
            (\A t \in Task : todo[t] # <<>> /\ step[t] \in {"notify", "apply"} => Head(todo[t]) # q)
                => applied[q] = mem[q]

ResetIsOver == cfgReset /\ todo["loop"] = <<>>

\* Once a reset is over, what it resets is the default, but for what POSTs have
\* set since it began.  Every POST sets the address, to one that fromJSON may
\* have read before the reset.
ResetHolds ==
    ResetIsOver =>
        \A q \in {"name", "address", "temp", "user", "pass"} \ posted : mem[q] = Defaults[q]

(* Liveness, under FairSpec.                                               *)

Due == lastChange # 0 /\ clock - lastChange >= SaveDelay

\* A change that has been due long enough, or is being written, reaches the
\* file, unless a newer change restarts the delay, the power fails or the file
\* cannot be written: loop does not try again.
DueIsSaved ==
    Due \/ pc \in {"write", "close"} ~>
        \/ HoldsMemory(flash)
        \/ lastChange # 0 /\ ~Due
        \/ pc = "off"
        \/ lost

(* What the repository says of itself and the code does not keep.          *)

\* What loop saves to flash is the configuration: when no document is being
\* handled, nothing is left to write and no write has failed, a restart would
\* load what is in memory.
RestartKeepsSettings ==
    /\ pc # "off" /\ lastChange = 0 /\ pc \notin {"write", "close"} /\ ~lost
    /\ \A t \in Task : todo[t] = <<>>
    => mem = Loaded
=============================================================================
