------------------------ MODULE ConfigurationProofs ------------------------
(***************************************************************************)
(* Proofs about the configuration, for any values, any documents posted,   *)
(* any delays and any number of restarts.                                  *)
(***************************************************************************)
EXTENDS Configuration, TLAPS

\* A setting that a task has changed and not yet told of.
Pending(q) ==
    \E t \in Task : todo[t] # <<>> /\ step[t] \in {"notify", "apply"} /\ Head(todo[t]) = q

\* The interface need not have it.
Excused(q) == q \in missed \/ Pending(q)

\* Tasks and mutex: only who applies holds it; the loop task sets settings in
\* a reset only, the web task what the document names.
TaskInv ==
    /\ \A t \in Task : holder = t <=> step[t] = "apply"
    /\ \A t \in Task : step[t] = "apply" => Head(todo[t]) \in Heeded
    /\ step["loop"] # "merged"
    /\ todo["loop"] # <<>> => pc = "reset"
    /\ \A i \in DOMAIN todo["web"] : todo["web"][i] = "address" \/ todo["web"][i] \in DOMAIN doc
    /\ registered <=> pc \in Looping
    /\ holder # Nobody => registered
    /\ todo["web"] # <<>> => ethUp
    /\ pc = "off" => ~ethUp /\ ~cfgReset

\* The file has what is in memory, or there is a change to write, or the write
\* under way has it.
FileInv ==
    /\ NothingForgotten
    /\ pc = "close" /\ lastChange = 0 => HoldsMemory(image)

\* What is about to be applied is what is in memory, unless another task is
\* about to apply something newer; and setup's address likewise.
NotifyInv ==
    /\ \A t \in Task : step[t] = "apply" =>
           \/ heard[t] = mem[Head(todo[t])]
           \/ \E u \in Task : step[u] = "notify" /\ Head(todo[u]) = Head(todo[t])
    /\ ethUp => Excused("name") \/ applied["name"] = mem["name"]
    /\ pc = "config" => Excused("address") \/ heard["loop"] = mem["address"]
    /\ pc \in {"register"} \cup Looping => Excused("address") \/ applied["address"] = mem["address"]

Restored == {"name", "address", "temp", "user", "pass"}

\* A reset has set a setting, or has it still before it.
ResetInv ==
    cfgReset => \A q \in Restored \ posted :
        \/ mem[q] = Defaults[q]
        \/ \E i \in DOMAIN todo["loop"] :
               todo["loop"][i] = q /\ (i = 1 => step["loop"] = "set")

IInv == TypeOK /\ TaskInv /\ FileInv /\ NotifyInv /\ ResetInv

-----------------------------------------------------------------------------

\* What is left of a sequence without its head.
LEMMA Tails ==
    ASSUME NEW s \in Seq(Param), s # <<>>
    PROVE  /\ 1 \in DOMAIN s /\ Head(s) = s[1] /\ Head(s) \in Param
           /\ Tail(s) \in Seq(Param)
           /\ \A i \in DOMAIN Tail(s) : i + 1 \in DOMAIN s /\ Tail(s)[i] = s[i + 1]
           /\ \A i \in DOMAIN s : i # 1 => i - 1 \in DOMAIN Tail(s) /\ Tail(s)[i - 1] = s[i]
  OBVIOUS

\* The setters a document runs: of settings it names, and of the address.
LEMMA SettersFacts ==
    ASSUME NEW posting \in Posts
    PROVE  /\ Setters(posting) \in Seq(Param)
           /\ Setters(posting) # <<>>
           /\ \A i \in DOMAIN Setters(posting) :
                  Setters(posting)[i] = "address" \/ Setters(posting)[i] \in DOMAIN posting
<1> DEFINE named(q) == IF q \in DOMAIN posting THEN <<q>> ELSE <<>>
           ok(s) == /\ s \in Seq(Param)
                    /\ \A i \in DOMAIN s : s[i] = "address" \/ s[i] \in DOMAIN posting
<1>1. \A q \in Param : ok(named(q))
  OBVIOUS
<1>2. ok(<<"address">>)
  BY DEF Param
<1>3. ASSUME NEW s, NEW t, ok(s), ok(t)
      PROVE  ok(s \o t)
  BY <1>3
<1> DEFINE a == named("name") \o <<"address">>
           b == a \o named("temp")
           c == b \o named("trap")
<1> HIDE DEF named, ok
<1>4. ok(named("name")) /\ ok(named("temp")) /\ ok(named("trap")) /\ ok(named("mac"))
  BY <1>1 DEF Param
<1>5. ok(a)
  BY <1>2, <1>3, <1>4
<1>6. ok(b)
  BY <1>3, <1>4, <1>5
<1>7. ok(c)
  BY <1>3, <1>4, <1>6
<1>8. ok(c \o named("mac"))
  BY <1>3, <1>4, <1>7
<1>9. Setters(posting) = c \o named("mac")
  BY DEF Setters, named
<1>10. c \o named("mac") # <<>>
  OBVIOUS
<1>11. QED
  BY <1>8, <1>9, <1>10 DEF ok

\* A task that is not between two settings has one at hand.
LEMMA AtHand ==
    ASSUME TypeOK, TaskInv, NEW t \in Task, step[t] # "set" \/ todo[t] # <<>>
    PROVE  /\ todo[t] # <<>> /\ todo[t] \in Seq(Param)
           /\ Head(todo[t]) \in Param
           /\ Tail(todo[t]) \in Seq(Param)
<1>1. todo[t] # <<>> /\ todo[t] \in Seq(Param)
  BY DEF TypeOK
<1>2. QED
  BY <1>1, Tails

\* The web task has at hand the address or a setting its document names.
LEMMA Named ==
    ASSUME TypeOK, TaskInv, todo["web"] # <<>>, Head(todo["web"]) # "address"
    PROVE  /\ Head(todo["web"]) \in DOMAIN doc
           /\ doc[Head(todo["web"])] \in Value
<1>1. Head(todo["web"]) \in DOMAIN doc
  <2>1. todo["web"] \in Seq(Param)
    BY DEF TypeOK, Task
  <2>2. QED
    BY <2>1, Tails DEF TaskInv
<1>2. doc \in Posts
  BY <1>1 DEF TypeOK
<1>3. QED
  BY <1>1, <1>2, PostsAssumption

\* The defaults and what toJSON makes of the settings are settings, and the
\* address among them an address.
LEMMA SettingFacts ==
    /\ Value \subseteq Setting /\ Address \subseteq Setting
    /\ Defaults \in [Param -> Setting] /\ Defaults["address"] \in Address
    /\ \A q \in Param : q # "address" => Defaults[q] = Default
    /\ NoImage \in [Saved -> Setting] /\ NoImage["address"] \in Address
<1>1. [part \in Part |-> Default] \in Address /\ Default \in Setting
  BY DefaultAssumption DEF Address, Setting
<1>2. Value \subseteq Setting /\ Address \subseteq Setting
  BY DEF Setting
<1>3. Defaults \in [Param -> Setting] /\ Defaults["address"] \in Address
  BY <1>1, <1>2 DEF Defaults, Param
<1>4. \A q \in Param : q # "address" => Defaults[q] = Default
  BY DEF Defaults
<1>5. NoImage \in [Saved -> Setting] /\ NoImage["address"] \in Address
  BY <1>3 DEF NoImage, Saved, Param
<1> QED BY <1>2, <1>3, <1>4, <1>5

LEMMA ImageFacts ==
    ASSUME NEW m \in [Param -> Setting], m["address"] \in Address
    PROVE  /\ Image(m) \in [Saved -> Setting]
           /\ Image(m)["address"] \in Address
           /\ \A q \in Saved \ {"address"} : Image(m)[q] = m[q]
           /\ Image(m)["address"] = Written(m["address"])
<1>1. Written(m["address"]) \in Address
  BY DefaultAssumption DEF Written, Address, Part
<1>2. Written(m["address"]) \in Setting
  BY <1>1, SettingFacts
<1> QED BY <1>1, <1>2 DEF Image, Saved, Param

\* Each step keeps the types.
LEMMA TypeStep ==
    ASSUME TypeOK, TaskInv, [Next]_vars
    PROVE  TypeOK'
<1> USE DEF TypeOK, Task, Param, Saved, Heeded, Postable, memVars, notifyVars, buttonVars, worldVars
<1> USE SettingFacts
<1>1. CASE Load
  BY <1>1, TimeAssumption, BoundAssumption DEF Load, Loaded, Booting, Looping
<1>2. CASE SetupReadsIP
  BY <1>2, TimeAssumption, BoundAssumption DEF SetupReadsIP, Booting, Looping
<1>3. CASE SetupAppliesIP
  BY <1>3, TimeAssumption, BoundAssumption DEF SetupAppliesIP, Unheard, Booting, Looping
<1>4. CASE RegisterListener
  BY <1>4, TimeAssumption, BoundAssumption DEF RegisterListener, Booting, Looping
<1>5. CASE EthStart
  BY <1>5, TimeAssumption, BoundAssumption DEF EthStart, Booting, Looping
<1>6. CASE PostBegin
  <2>1. doc' \in Posts /\ todo' = [todo EXCEPT !["web"] = Setters(doc')]
    BY <1>6 DEF PostBegin
  <2>2. Setters(doc') \in Seq(Param) /\ Setters(doc') # <<>>
    BY <2>1, SettersFacts
  <2>3. QED
    BY <1>6, <2>1, <2>2, BoundAssumption DEF PostBegin
<1>7. CASE PostReadsIP
  <2>1. doc \in Posts \/ DOMAIN doc = {}
    <3>1. DOMAIN << >> = {}
      OBVIOUS
    <3> QED BY <3>1
  <2>2. Merged(doc, mem["address"]) \in Address
    BY <2>1, PostsAssumption DEF Merged, Address
  <2>3. QED
    BY <1>7, <2>2 DEF PostReadsIP
<1>8. CASE PostSets
  <2>1. Head(todo["web"]) \in Param /\ todo["web"] # <<>>
    BY <1>8, AtHand DEF PostSets
  <2>2. Head(todo["web"]) # "address" => doc[Head(todo["web"])] \in Value
    BY <2>1, Named
  <2>3. mem' \in [Param -> Setting] /\ mem'["address"] \in Address
    <3>1. CASE Head(todo["web"]) = "address"
      BY <1>8, <3>1 DEF PostSets, Change
    <3>2. CASE Head(todo["web"]) # "address"
      <4>1. mem' = [mem EXCEPT ![Head(todo["web"])] = doc[Head(todo["web"])]]
        BY <1>8, <3>2 DEF PostSets, Change
      <4> QED BY <2>1, <2>2, <3>2, <4>1
    <3> QED BY <3>1, <3>2
  <2>4. posted' \subseteq Param
    BY <1>8, <2>1 DEF PostSets
  <2>5. lastChange' \in 0..MaxTime
    BY <1>8, TimeAssumption DEF PostSets, Change
  <2>6. /\ step' \in [Task -> {"set", "merged", "notify", "apply"}]
        /\ heard' \in [Task -> Setting]
        /\ \A t \in Task : todo'[t] = <<>> => step'[t] = "set"
    BY <1>8, <2>1 DEF PostSets, Change, Unheard
  <2>7. QED
    BY <1>8, <2>3, <2>4, <2>5, <2>6 DEF PostSets, Change
<1>9. ASSUME NEW t \in Task, NotifyNone(t)
      PROVE  TypeOK'
  <2>1. todo[t] # <<>> /\ Head(todo[t]) \in Param /\ Tail(todo[t]) \in Seq(Param)
    BY <1>9, AtHand DEF NotifyNone
  <2>2. missed' \subseteq Heeded
    BY <1>9 DEF NotifyNone
  <2>3. /\ todo' \in [Task -> Seq(Param)]
        /\ step' \in [Task -> {"set", "merged", "notify", "apply"}]
        /\ \A u \in Task : todo'[u] = <<>> => step'[u] = "set"
        /\ doc' \in Posts \cup {<<>>}
        /\ step'["web"] = "merged" => step["web"] = "merged"
    BY <1>9, <2>1 DEF NotifyNone, Done, DropDoc
  <2>4. QED
    BY <1>9, <2>2, <2>3 DEF NotifyNone
<1>10. ASSUME NEW t \in Task, NotifyReads(t)
      PROVE  TypeOK'
  <2>1. todo[t] # <<>> /\ Head(todo[t]) \in Param /\ Tail(todo[t]) \in Seq(Param)
    BY <1>10, AtHand DEF NotifyReads
  <2>2. QED
    BY <1>10, <2>1 DEF NotifyReads
<1>11. ASSUME NEW t \in Task, NotifyApplies(t)
      PROVE  TypeOK'
  <2>1. todo[t] # <<>> /\ Head(todo[t]) \in Param /\ Tail(todo[t]) \in Seq(Param)
    BY <1>11, AtHand DEF NotifyApplies
  <2>2. QED
    BY <1>11, <2>1 DEF NotifyApplies, Done, DropDoc, Unheard
<1>12. CASE LoopTop
  BY <1>12, TimeAssumption, BoundAssumption DEF LoopTop, Booting, Looping
<1>13. CASE LoopCheck
  BY <1>13, TimeAssumption, BoundAssumption DEF LoopCheck, Booting, Looping
<1>14. CASE LoopBusy
  BY <1>14, TimeAssumption, BoundAssumption DEF LoopBusy, Booting, Looping
<1>15. CASE WriteImage
  BY <1>15, ImageFacts, TimeAssumption, BoundAssumption DEF WriteImage, ToJSON, Booting, Looping
<1>16. CASE WriteClose
  BY <1>16, TimeAssumption, BoundAssumption DEF WriteClose, Close, Booting, Looping
<1>f. CASE WriteFails
  <2>1. Image(Defaults) \in [Saved -> Setting] /\ Image(Defaults)["address"] \in Address
    BY ImageFacts
  <2> QED BY <1>f, <2>1, TimeAssumption, BoundAssumption DEF WriteFails, Booting, Looping
<1>17. CASE LoopButton
  <2>1. ResetOrder \in Seq(Param) /\ ResetOrder # <<>>
    BY DEF ResetOrder
  <2>2. \/ todo' = [todo EXCEPT !["loop"] = ResetOrder] /\ posted' = {}
           /\ lastPress' = lastPress /\ pc' = "reset" /\ cfgReset' = TRUE
        \/ todo' = todo /\ posted' = posted /\ pc' = "top"
           /\ lastPress' \in {now, lastPress} /\ cfgReset' \in {FALSE, cfgReset}
    BY <1>17 DEF LoopButton
  <2>3. /\ todo' \in [Task -> Seq(Param)]
        /\ \A t \in Task : todo'[t] = <<>> => step[t] = "set"
        /\ posted' \subseteq Param
    <3>1. CASE todo' = [todo EXCEPT !["loop"] = ResetOrder] /\ posted' = {}
      BY <2>1, <3>1
    <3>2. CASE todo' = todo /\ posted' = posted
      BY <3>2
    <3>3. QED
      BY <2>2, <3>1, <3>2
  <2>4. /\ now' \in 0..MaxTime /\ lastPress' \in 0..MaxTime
        /\ pc' \in Booting \cup Looping
        /\ cfgReset' \in BOOLEAN
    <3>1. now' = 0
      BY <1>17 DEF LoopButton
    <3>2. lastPress' \in {now, lastPress}
      BY <2>2
    <3>3. pc' \in {"reset", "top"} /\ cfgReset' \in {TRUE, FALSE, cfgReset}
      BY <2>2
    <3>4. now' \in 0..MaxTime /\ lastPress' \in 0..MaxTime
      BY <3>1, <3>2, TimeAssumption
    <3>5. QED
      BY <3>3, <3>4 DEF Looping
  <2>5. lastButton' \in BOOLEAN
    BY <1>17 DEF LoopButton
  <2>6. QED
    BY <1>17, <2>3, <2>4, <2>5 DEF LoopButton
<1>18. CASE ResetSets
  <2>1. Head(todo["loop"]) \in Param /\ todo["loop"] # <<>>
    BY <1>18, AtHand DEF ResetSets
  <2>2. mem' \in [Param -> Setting] /\ mem'["address"] \in Address
    BY <1>18, <2>1 DEF ResetSets, Change
  <2>3. /\ step' \in [Task -> {"set", "merged", "notify", "apply"}]
        /\ \A t \in Task : todo[t] = <<>> => step'[t] = "set"
        /\ step'["web"] = step["web"]
    BY <1>18, <2>1 DEF ResetSets, Change
  <2>4. lastChange' \in 0..MaxTime /\ lost' \in BOOLEAN
    <3>1. lastChange' = clock /\ lost' = FALSE
      BY <1>18 DEF ResetSets, Change
    <3>2. clock \in 0..MaxTime
      BY TimeAssumption
    <3>3. QED
      BY <3>1, <3>2
  <2>5. QED
    BY <1>18, <2>2, <2>3, <2>4 DEF ResetSets
<1>19. CASE ResetEnds
  BY <1>19, TimeAssumption, BoundAssumption DEF ResetEnds, Booting, Looping
<1>20. CASE Tick
  BY <1>20, TimeAssumption, BoundAssumption DEF Tick, Booting, Looping
<1>21. CASE Button
  BY <1>21, TimeAssumption, BoundAssumption DEF Button, Booting, Looping
<1>22. CASE Restart
  <2>1. mem' \in [Param -> Setting] /\ mem'["address"] \in Address /\ image' \in [Saved -> Setting] /\ image'["address"] \in Address
    BY <1>22 DEF Restart
  <2>2. /\ todo' \in [Task -> Seq(Param)]
        /\ step' \in [Task -> {"set", "merged", "notify", "apply"}]
        /\ \A t \in Task : todo'[t] = <<>> => step'[t] = "set"
        /\ step'["web"] = "set"
        /\ heard' \in [Task -> Setting]
        /\ applied' \in [Heeded -> Setting]
    BY <1>22, DefaultAssumption DEF Restart
  <2>3. clock' \in 1..MaxTime /\ boots' \in 0..MaxBoots
    BY <1>22, TimeAssumption, BoundAssumption DEF Restart
  <2>4. /\ lastChange' = 0 /\ now' = 0 /\ lastPress' = 0 /\ holder' = Nobody
        /\ registered' = FALSE /\ doc' = <<>> /\ pc' = "off"
        /\ lastButton' = FALSE /\ cfgReset' = FALSE /\ ethUp' = FALSE
        /\ missed' = {} /\ posted' = {} /\ lost' = FALSE
        /\ flash' = flash /\ button' = button /\ posts' = posts
    BY <1>22 DEF Restart
  <2>5. 0 \in 0..MaxTime
    BY TimeAssumption
  <2>6. QED
    BY <2>1, <2>2, <2>3, <2>4, <2>5 DEF Booting
<1>23. CASE UNCHANGED vars
  BY <1>23, TimeAssumption, BoundAssumption DEF vars, Booting, Looping
<1>24. QED
  BY <1>1, <1>2, <1>3, <1>4, <1>5, <1>6, <1>7, <1>8, <1>9, <1>10, <1>11, <1>12, <1>13,
     <1>14, <1>15, <1>16, <1>17, <1>18, <1>19, <1>20, <1>21, <1>22, <1>23, <1>f
  DEF Next, Setup, Saving, Reset, Post, World, Notify

\* Each step keeps the tasks in order.
LEMMA TaskStep ==
    ASSUME TypeOK, TaskInv, [Next]_vars
    PROVE  TaskInv'
<1> USE DEF Task, Nobody, memVars, notifyVars, buttonVars, worldVars, Booting, Looping
<1>0. /\ todo \in [Task -> Seq(Param)] /\ step \in [Task -> {"set", "merged", "notify", "apply"}]
      /\ holder \in Task \cup {Nobody} /\ pc \in Booting \cup Looping
      /\ \A t \in Task : todo[t] = <<>> => step[t] = "set"
  BY DEF TypeOK
<1>1. CASE Load
  BY <1>0, <1>1 DEF TaskInv, Load
<1>2. CASE SetupReadsIP
  BY <1>0, <1>2 DEF TaskInv, SetupReadsIP
<1>3. CASE SetupAppliesIP
  BY <1>0, <1>3 DEF TaskInv, SetupAppliesIP
<1>4. CASE RegisterListener
  BY <1>0, <1>4 DEF TaskInv, RegisterListener
<1>5. CASE EthStart
  BY <1>0, <1>5 DEF TaskInv, EthStart
<1>6. CASE PostBegin
  <2>1. doc' \in Posts /\ todo' = [todo EXCEPT !["web"] = Setters(doc')] /\ step["web"] = "set"
    BY <1>0, <1>6 DEF PostBegin
  <2>2. \A i \in DOMAIN todo'["web"] : todo'["web"][i] = "address" \/ todo'["web"][i] \in DOMAIN doc'
    BY <1>0, <2>1, SettersFacts
  <2>3. QED
    BY <1>0, <1>6, <2>1, <2>2 DEF TaskInv, PostBegin
<1>7. CASE PostReadsIP
  BY <1>0, <1>7 DEF TaskInv, PostReadsIP
<1>8. CASE PostSets
  BY <1>0, <1>8 DEF TaskInv, PostSets, Change
<1>9. ASSUME NEW t \in Task, step[t] \in {"notify", "apply"}, Done(t), DropDoc(t),
             UNCHANGED <<registered, pc, ethUp, cfgReset>>,
             holder' = IF step[t] = "apply" THEN Nobody ELSE holder
      PROVE  TaskInv'
  <2>1. todo[t] # <<>> /\ todo[t] \in Seq(Param)
    BY <1>0, <1>9
  <2>2. /\ todo'[t] = Tail(todo[t]) /\ step'[t] = "set"
        /\ \A u \in Task \ {t} : todo'[u] = todo[u] /\ step'[u] = step[u]
    BY <1>0, <1>9 DEF Done
  <2>3. \A i \in DOMAIN todo'["web"] : todo'["web"][i] = "address" \/ todo'["web"][i] \in DOMAIN doc'
    <3>1. CASE t = "web"
      <4>1. \A i \in DOMAIN Tail(todo["web"]) :
                Tail(todo["web"])[i] = "address" \/ Tail(todo["web"])[i] \in DOMAIN doc
        BY <2>1, <3>1, Tails DEF TaskInv
      <4>2. CASE Tail(todo["web"]) = <<>>
        <5>1. todo'["web"] = <<>>
          BY <2>2, <3>1, <4>2
        <5>2. DOMAIN << >> = {}
          OBVIOUS
        <5>3. QED
          BY <5>1, <5>2
      <4>3. CASE Tail(todo["web"]) # <<>>
        <5>1. doc' = doc
          BY <1>9, <3>1, <4>3 DEF DropDoc
        <5>2. QED
          BY <2>2, <3>1, <4>1, <5>1
      <4>4. QED
        BY <4>2, <4>3
    <3>2. CASE t # "web"
      BY <1>9, <2>2, <3>2 DEF DropDoc, TaskInv
    <3>3. QED
      BY <3>1, <3>2
  <2>4. \A u \in Task : holder' = u <=> step'[u] = "apply"
    BY <1>0, <1>9, <2>2 DEF TaskInv
  <2>5. todo'["loop"] # <<>> => pc' = "reset"
    BY <1>9, <2>1, <2>2 DEF TaskInv
  <2>6. todo'["web"] # <<>> => ethUp'
    BY <1>9, <2>1, <2>2 DEF TaskInv
  <2>7. \A u \in Task : step'[u] = "apply" => Head(todo'[u]) \in Heeded
    BY <2>2 DEF TaskInv
  <2>8. holder' # Nobody => registered'
    BY <1>9 DEF TaskInv
  <2>9. QED
    BY <1>9, <2>2, <2>3, <2>4, <2>5, <2>6, <2>7, <2>8 DEF TaskInv
<1>10. ASSUME NEW t \in Task, NotifyNone(t)
      PROVE  TaskInv'
  BY <1>9, <1>10 DEF NotifyNone
<1>11. ASSUME NEW t \in Task, NotifyReads(t)
      PROVE  TaskInv'
  BY <1>0, <1>11 DEF TaskInv, NotifyReads, ListenersFree
<1>12. ASSUME NEW t \in Task, NotifyApplies(t)
      PROVE  TaskInv'
  BY <1>9, <1>12 DEF NotifyApplies
<1>13. CASE LoopTop
  BY <1>0, <1>13 DEF TaskInv, LoopTop
<1>14. CASE LoopCheck
  BY <1>0, <1>14 DEF TaskInv, LoopCheck
<1>15. CASE LoopBusy
  BY <1>0, <1>15 DEF TaskInv, LoopBusy
<1>16. CASE WriteImage
  BY <1>0, <1>16 DEF TaskInv, WriteImage
<1>17. CASE WriteClose
  BY <1>0, <1>17 DEF TaskInv, WriteClose
<1>f. CASE WriteFails
  BY <1>0, <1>f DEF TaskInv, WriteFails
<1>18. CASE LoopButton
  <2>1. pc = "button" /\ todo["loop"] = <<>> /\ step["loop"] = "set"
    BY <1>0, <1>18 DEF LoopButton, TaskInv
  <2>2. /\ todo'["web"] = todo["web"]
        /\ pc' \in {"reset", "top"} /\ (todo'["loop"] # <<>> => pc' = "reset")
    BY <1>0, <1>18, <2>1 DEF LoopButton
  <2>3. UNCHANGED <<holder, step, doc, registered, ethUp>>
    BY <1>18 DEF LoopButton
  <2>4. QED
    BY <1>0, <2>1, <2>2, <2>3 DEF TaskInv
<1>19. CASE ResetSets
  BY <1>0, <1>19 DEF TaskInv, ResetSets, Change
<1>20. CASE ResetEnds
  BY <1>0, <1>20 DEF TaskInv, ResetEnds
<1>21. CASE Tick
  BY <1>0, <1>21 DEF TaskInv, Tick
<1>22. CASE Button
  BY <1>0, <1>22 DEF TaskInv, Button
<1>23. CASE Restart
  BY <1>0, <1>23 DEF TaskInv, Restart
<1>24. CASE UNCHANGED vars
  BY <1>24 DEF TaskInv, vars
<1>25. QED
  BY <1>1, <1>2, <1>3, <1>4, <1>5, <1>6, <1>7, <1>8, <1>9, <1>10, <1>11, <1>12, <1>13,
     <1>14, <1>15, <1>16, <1>17, <1>18, <1>19, <1>20, <1>21, <1>22, <1>23, <1>24, <1>f
  DEF Next, Setup, Saving, Reset, Post, World, Notify

\* Each step keeps the file up to date.
LEMMA FileStep ==
    ASSUME TypeOK, TaskInv, FileInv, [Next]_vars
    PROVE  FileInv'
<1> USE DEF Task, memVars, notifyVars, buttonVars, worldVars, Booting, Looping
<1>0. /\ flash \in [Saved -> Setting] /\ flash["address"] \in Address
      /\ mem \in [Param -> Setting] /\ mem["address"] \in Address /\ clock # 0
      /\ pc \in Booting \cup Looping
  BY TimeAssumption DEF TypeOK
<1>1. CASE Load
  <2>1. \A q \in Saved : Loaded[q] = flash[q]
    BY DEF Loaded, Saved
  <2>2. HoldsMemory(flash)'
    BY <1>1, <2>1 DEF Load, HoldsMemory, Saved, Param
  <2>3. QED
    BY <1>1, <2>2 DEF FileInv, NothingForgotten, Load
<1>2. CASE SetupReadsIP
  BY <1>2 DEF FileInv, NothingForgotten, HoldsMemory, SetupReadsIP
<1>3. CASE SetupAppliesIP
  BY <1>3 DEF FileInv, NothingForgotten, HoldsMemory, SetupAppliesIP
<1>4. CASE RegisterListener
  BY <1>4 DEF FileInv, NothingForgotten, HoldsMemory, RegisterListener
<1>5. CASE EthStart
  BY <1>5 DEF FileInv, NothingForgotten, HoldsMemory, EthStart
<1>6. CASE PostBegin
  BY <1>6 DEF FileInv, NothingForgotten, HoldsMemory, PostBegin
<1>7. CASE PostReadsIP
  BY <1>7 DEF FileInv, NothingForgotten, HoldsMemory, PostReadsIP
<1>8. CASE PostSets
  BY <1>0, <1>8 DEF FileInv, NothingForgotten, PostSets, Change
<1>9. ASSUME NEW t \in Task, NotifyNone(t)
      PROVE  FileInv'
  BY <1>9 DEF FileInv, NothingForgotten, HoldsMemory, NotifyNone
<1>10. ASSUME NEW t \in Task, NotifyReads(t)
      PROVE  FileInv'
  BY <1>10 DEF FileInv, NothingForgotten, HoldsMemory, NotifyReads
<1>11. ASSUME NEW t \in Task, NotifyApplies(t)
      PROVE  FileInv'
  BY <1>11 DEF FileInv, NothingForgotten, HoldsMemory, NotifyApplies
<1>12. CASE LoopTop
  BY <1>12 DEF FileInv, NothingForgotten, HoldsMemory, LoopTop
<1>13. CASE LoopCheck
  BY <1>13 DEF FileInv, NothingForgotten, HoldsMemory, LoopCheck
<1>14. CASE LoopBusy
  BY <1>14 DEF FileInv, NothingForgotten, HoldsMemory, LoopBusy
<1>15. CASE WriteImage
  <2>1. /\ \A q \in Saved \ {"address"} : image'[q] = mem[q]
        /\ image'["address"] = Written(mem["address"])
    BY <1>0, <1>15, ImageFacts DEF WriteImage, ToJSON
  <2>2. /\ \A part \in Part \ {"gateway"} : Written(mem["address"])[part] = mem["address"][part]
        /\ mem["address"]["subnet"] # Dhcp => Written(mem["address"]) = mem["address"]
    BY <1>0 DEF Written, Address
  <2>3. HoldsMemory(image)'
    BY <1>15, <2>1, <2>2 DEF WriteImage, HoldsMemory
  <2> QED BY <1>15, <2>3 DEF FileInv, NothingForgotten, WriteImage
<1>16. CASE WriteClose
  <2>1. HoldsMemory(image) => HoldsMemory(flash)'
    BY <1>16 DEF WriteClose, Close, HoldsMemory
  <2> QED BY <1>16, <2>1 DEF FileInv, NothingForgotten, WriteClose, Close
<1>f. CASE WriteFails
  BY <1>f DEF FileInv, NothingForgotten, WriteFails
<1>17. CASE LoopButton
  BY <1>17 DEF FileInv, NothingForgotten, HoldsMemory, LoopButton
<1>18. CASE ResetSets
  BY <1>0, <1>18 DEF FileInv, NothingForgotten, ResetSets, Change
<1>19. CASE ResetEnds
  BY <1>19 DEF FileInv, NothingForgotten, HoldsMemory, ResetEnds
<1>20. CASE Tick
  BY <1>20 DEF FileInv, NothingForgotten, HoldsMemory, Tick
<1>21. CASE Button
  BY <1>21 DEF FileInv, NothingForgotten, HoldsMemory, Button
<1>22. CASE Restart
  BY <1>22 DEF FileInv, NothingForgotten, HoldsMemory, Restart
<1>23. CASE UNCHANGED vars
  BY <1>23 DEF FileInv, NothingForgotten, HoldsMemory, vars
<1>24. QED
  BY <1>1, <1>2, <1>3, <1>4, <1>5, <1>6, <1>7, <1>8, <1>9, <1>10, <1>11, <1>12, <1>13,
     <1>14, <1>15, <1>16, <1>17, <1>18, <1>19, <1>20, <1>21, <1>22, <1>23, <1>f
  DEF Next, Setup, Saving, Reset, Post, World, Notify

\* Each step keeps what a reset has done and what it has to do.
LEMMA ResetStep ==
    ASSUME TypeOK, TaskInv, ResetInv, [Next]_vars
    PROVE  ResetInv'
<1> USE DEF Task, memVars, notifyVars, buttonVars, worldVars
<1>0. /\ todo \in [Task -> Seq(Param)] /\ step \in [Task -> {"set", "merged", "notify", "apply"}]
      /\ mem \in [Param -> Setting]
      /\ \A t \in Task : todo[t] = <<>> => step[t] = "set"
      /\ Restored \subseteq Param
  BY DEF TypeOK, Restored, Param
<1> DEFINE ahead(q) == \E i \in DOMAIN todo["loop"] :
                          todo["loop"][i] = q /\ (i = 1 => step["loop"] = "set")
<1>1. CASE Load
  BY <1>1 DEF TaskInv, ResetInv, Load
<1>2. CASE SetupReadsIP
  BY <1>2 DEF ResetInv, SetupReadsIP
<1>3. CASE SetupAppliesIP
  BY <1>3 DEF ResetInv, SetupAppliesIP
<1>4. CASE RegisterListener
  BY <1>4 DEF ResetInv, RegisterListener
<1>5. CASE EthStart
  BY <1>5 DEF ResetInv, EthStart
<1>6. CASE PostBegin
  BY <1>0, <1>6 DEF ResetInv, PostBegin
<1>7. CASE PostReadsIP
  BY <1>0, <1>7 DEF ResetInv, PostReadsIP
<1>8. CASE PostSets
  <2>1. /\ \A q \in Restored : q # Head(todo["web"]) => mem'[q] = mem[q]
        /\ posted' = posted \cup {Head(todo["web"])}
        /\ step'["loop"] = step["loop"]
        /\ UNCHANGED <<todo, cfgReset>>
    BY <1>0, <1>8 DEF PostSets, Change
  <2>2. QED
    BY <2>1 DEF ResetInv
<1>9. ASSUME NEW t \in Task, step[t] \in {"notify", "apply"}, Done(t),
             UNCHANGED <<mem, cfgReset, posted>>
      PROVE  ResetInv'
  <2>1. CASE t = "loop"
    <3>1. todo["loop"] # <<>> /\ todo["loop"] \in Seq(Param)
      BY <1>0, <1>9, <2>1
    <3>2. todo'["loop"] = Tail(todo["loop"]) /\ step'["loop"] = "set"
      BY <1>0, <1>9, <2>1 DEF Done
    <3>3. ASSUME NEW q \in Restored, ahead(q)
          PROVE  \E j \in DOMAIN todo'["loop"] : todo'["loop"][j] = q
      <4>1. PICK i \in DOMAIN todo["loop"] : todo["loop"][i] = q /\ i # 1
        BY <1>9, <2>1, <3>3
      <4>2. i - 1 \in DOMAIN Tail(todo["loop"]) /\ Tail(todo["loop"])[i - 1] = q
        BY <3>1, <4>1, Tails
      <4>3. QED
        BY <3>2, <4>2
    <3>4. QED
      BY <1>9, <3>2, <3>3 DEF ResetInv
  <2>2. CASE t # "loop"
    <3>1. todo'["loop"] = todo["loop"] /\ step'["loop"] = step["loop"]
      BY <1>0, <1>9, <2>2 DEF Done
    <3>2. QED
      BY <1>9, <3>1 DEF ResetInv
  <2>3. QED
    BY <2>1, <2>2
<1>10. ASSUME NEW t \in Task, NotifyNone(t)
      PROVE  ResetInv'
  BY <1>9, <1>10 DEF NotifyNone
<1>11. ASSUME NEW t \in Task, NotifyReads(t)
      PROVE  ResetInv'
  <2>1. /\ step'["loop"] = step["loop"] \/ step["loop"] = "notify"
        /\ UNCHANGED <<mem, todo, cfgReset, posted>>
    BY <1>0, <1>11 DEF NotifyReads
  <2>2. QED
    BY <2>1 DEF ResetInv
<1>12. ASSUME NEW t \in Task, NotifyApplies(t)
      PROVE  ResetInv'
  BY <1>9, <1>12 DEF NotifyApplies
<1>13. CASE LoopTop
  BY <1>13 DEF ResetInv, LoopTop
<1>14. CASE LoopCheck
  BY <1>14 DEF ResetInv, LoopCheck
<1>15. CASE LoopBusy
  BY <1>15 DEF ResetInv, LoopBusy
<1>16. CASE WriteImage
  BY <1>16 DEF ResetInv, WriteImage
<1>17. CASE WriteClose
  BY <1>17 DEF ResetInv, WriteClose
<1>f. CASE WriteFails
  BY <1>f DEF ResetInv, WriteFails
<1>18. CASE LoopButton
  <2>1. CASE cfgReset' = TRUE /\ todo' = [todo EXCEPT !["loop"] = ResetOrder] /\ todo["loop"] = <<>>
    <3>1. todo'["loop"] = ResetOrder /\ step'["loop"] = "set"
      BY <1>0, <1>18, <2>1 DEF LoopButton
    <3>2. \A q \in Restored : \E i \in DOMAIN ResetOrder : ResetOrder[i] = q
      <4>1. /\ DOMAIN ResetOrder = 1..5
            /\ ResetOrder[1] = "name" /\ ResetOrder[2] = "address" /\ ResetOrder[3] = "user"
            /\ ResetOrder[4] = "pass" /\ ResetOrder[5] = "temp"
        BY DEF ResetOrder
      <4> HIDE DEF ResetOrder
      <4>2. \A i \in 1..5 : i \in DOMAIN ResetOrder
        BY <4>1
      <4> QED BY <4>1, <4>2 DEF Restored
    <3>3. QED
      BY <3>1, <3>2 DEF ResetInv
  <2>2. CASE cfgReset' \in {FALSE, cfgReset} /\ UNCHANGED <<todo, posted>>
    <3>1. UNCHANGED <<mem, step>>
      BY <1>18 DEF LoopButton, memVars
    <3>2. cfgReset' => cfgReset
      BY <2>2, <1>0
    <3>3. CASE cfgReset
      BY <2>2, <3>1, <3>3 DEF ResetInv
    <3>4. CASE ~cfgReset
      <4>1. ~cfgReset'
        BY <3>2, <3>4
      <4>2. QED
        BY <4>1 DEF ResetInv
    <3>5. QED
      BY <3>3, <3>4
  <2>3. todo["loop"] = <<>>
    BY <1>18 DEF LoopButton, TaskInv
  <2>4. QED
    BY <1>18, <2>1, <2>2, <2>3 DEF LoopButton
<1>19. CASE ResetSets
  <2>1. /\ todo["loop"] # <<>> /\ todo["loop"] \in Seq(Param) /\ Head(todo["loop"]) = todo["loop"][1]
        /\ mem' = [mem EXCEPT ![Head(todo["loop"])] = Defaults[Head(todo["loop"])]]
        /\ UNCHANGED <<todo, cfgReset, posted>>
    BY <1>0, <1>19, Tails DEF ResetSets, Change
  <2>2. \A q \in Restored : mem'[q] = IF q = todo["loop"][1] THEN Defaults[q] ELSE mem[q]
    BY <1>0, <2>1
  <2>3. QED
    BY <2>1, <2>2 DEF ResetInv
<1>20. CASE ResetEnds
  BY <1>20 DEF ResetInv, ResetEnds
<1>21. CASE Tick
  BY <1>21 DEF ResetInv, Tick
<1>22. CASE Button
  BY <1>22 DEF ResetInv, Button
<1>23. CASE Restart
  BY <1>23 DEF ResetInv, Restart
<1>24. CASE UNCHANGED vars
  BY <1>24 DEF ResetInv, vars
<1>25. QED
  BY <1>1, <1>2, <1>3, <1>4, <1>5, <1>6, <1>7, <1>8, <1>9, <1>10, <1>11, <1>12, <1>13,
     <1>14, <1>15, <1>16, <1>17, <1>18, <1>19, <1>20, <1>21, <1>22, <1>23, <1>24, <1>f
  DEF Next, Setup, Saving, Reset, Post, World, Notify

\* Each step keeps the interface current, or someone about to make it so.
LEMMA NotifyStep ==
    ASSUME TypeOK, TaskInv, NotifyInv, [Next]_vars
    PROVE  NotifyInv'
<1> USE DEF Task, Nobody, Heeded, memVars, notifyVars, buttonVars, worldVars, Booting, Looping
<1>0. /\ todo \in [Task -> Seq(Param)] /\ step \in [Task -> {"set", "merged", "notify", "apply"}]
      /\ mem \in [Param -> Setting] /\ applied \in [Heeded -> Setting] /\ heard \in [Task -> Setting]
      /\ holder \in Task \cup {Nobody} /\ pc \in Booting \cup Looping
      /\ \A t \in Task : todo[t] = <<>> => step[t] = "set"
      /\ Heeded \subseteq Param
  BY DEF TypeOK, Param
<1>1. ASSUME UNCHANGED <<mem, applied, todo, step, heard, ethUp, missed>>,
             pc' = "config" => pc = "config",
             pc' \in {"register"} \cup Looping => pc \in {"register"} \cup Looping
      PROVE  NotifyInv'
  BY <1>1 DEF NotifyInv, Excused, Pending
<1>2. ASSUME NEW t \in Task, NEW q \in Param, NEW v, Change(t, q, v),
             todo[t] # <<>>, Head(todo[t]) = q, step[t] \in {"set", "merged"},
             \A u \in Task \ {t} : heard'[u] = heard[u],
             pc = "config" => heard'["loop"] = heard["loop"],
             UNCHANGED <<applied, todo, ethUp, missed, pc>>
      PROVE  NotifyInv'
  <2>1. /\ \A p \in Param : p # q => mem'[p] = mem[p]
        /\ step'[t] = "notify" /\ \A u \in Task \ {t} : step'[u] = step[u]
    BY <1>0, <1>2 DEF Change
  <2>2. Pending(q)'
    BY <1>2, <2>1 DEF Pending
  <2>3. \A p \in Heeded : Excused(p) => Excused(p)'
    BY <1>2, <2>1 DEF Excused, Pending
  <2>4. ASSUME NEW u \in Task, step'[u] = "apply"
        PROVE  \/ heard'[u] = mem'[Head(todo'[u])]
               \/ \E w \in Task : step'[w] = "notify" /\ Head(todo'[w]) = Head(todo'[u])
    <3>1. u # t /\ step[u] = "apply" /\ Head(todo[u]) \in Param
      BY <1>0, <2>1, <2>4 DEF TaskInv
    <3>2. CASE Head(todo[u]) = q
      BY <1>2, <2>1, <3>2
    <3>3. CASE Head(todo[u]) # q
      BY <1>2, <2>1, <3>1, <3>3 DEF NotifyInv
    <3>4. QED
      BY <3>2, <3>3
  <2>5. QED
    BY <1>0, <1>2, <2>1, <2>2, <2>3, <2>4 DEF NotifyInv, Excused
<1>3. CASE Load
  <2>1. ~ethUp' /\ pc' = "loaded" /\ \A t \in Task : step'[t] = "set"
    BY <1>0, <1>3 DEF Load, TaskInv
  <2>2. QED
    BY <2>1 DEF NotifyInv
<1>4. CASE SetupReadsIP
  <2>1. step["loop"] = "set" /\ \A u \in Task \ {"loop"} : heard'[u] = heard[u]
    BY <1>0, <1>4 DEF SetupReadsIP, TaskInv
  <2>2. heard'["loop"] = mem["address"] /\ pc' = "config"
    BY <1>0, <1>4 DEF SetupReadsIP
  <2>3. UNCHANGED <<mem, applied, todo, step, ethUp, missed>>
    BY <1>4 DEF SetupReadsIP
  <2>4. QED
    BY <2>1, <2>2, <2>3 DEF NotifyInv, Excused, Pending
<1>5. CASE SetupAppliesIP
  <2>1. step["loop"] = "set" /\ \A u \in Task \ {"loop"} : heard'[u] = heard[u]
    BY <1>0, <1>5 DEF SetupAppliesIP, TaskInv, Unheard
  <2>2. /\ pc = "config" /\ pc' = "register"
        /\ applied'["address"] = heard["loop"] /\ applied'["name"] = applied["name"]
    BY <1>0, <1>5 DEF SetupAppliesIP
  <2>3. UNCHANGED <<mem, todo, step, ethUp, missed>>
    BY <1>5 DEF SetupAppliesIP
  <2>4. QED
    BY <2>1, <2>2, <2>3 DEF NotifyInv, Excused, Pending
<1>6. CASE RegisterListener
  BY <1>1, <1>6 DEF RegisterListener
<1>7. CASE EthStart
  <2>1. applied'["name"] = mem["name"] /\ applied'["address"] = applied["address"]
    BY <1>0, <1>7 DEF EthStart
  <2>2. UNCHANGED <<mem, todo, step, heard, pc, missed>>
    BY <1>7 DEF EthStart
  <2>3. QED
    BY <2>1, <2>2 DEF NotifyInv, Excused, Pending
<1>8. CASE PostBegin
  <2>1. step["web"] = "set" /\ todo'["loop"] = todo["loop"]
    BY <1>0, <1>8 DEF PostBegin
  <2>2. UNCHANGED <<mem, applied, step, heard, ethUp, missed, pc>>
    BY <1>8 DEF PostBegin
  <2>3. QED
    BY <2>1, <2>2 DEF NotifyInv, Excused, Pending
<1>9. CASE PostReadsIP
  <2>1. /\ step["web"] = "set" /\ step'["web"] = "merged"
        /\ step'["loop"] = step["loop"] /\ heard'["loop"] = heard["loop"]
    BY <1>0, <1>9 DEF PostReadsIP
  <2>2. UNCHANGED <<mem, applied, todo, ethUp, missed, pc>>
    BY <1>9 DEF PostReadsIP
  <2>3. QED
    BY <2>1, <2>2 DEF NotifyInv, Excused, Pending
<1>10. CASE PostSets
  <2>1. todo["web"] # <<>> /\ Head(todo["web"]) \in Param /\ step["web"] \in {"set", "merged"}
    BY <1>10, AtHand DEF PostSets
  <2>2. heard'["loop"] = heard["loop"]
    BY <1>0, <1>10 DEF PostSets, Unheard
  <2>3. QED
    BY <1>2, <1>10, <2>1, <2>2 DEF PostSets
<1>11. ASSUME NEW t \in Task, NotifyNone(t)
      PROVE  NotifyInv'
  <2>1. \A u \in Task : step[u] # "apply"
    BY <1>11 DEF NotifyNone, ListenersFree, TaskInv
  <2>2. /\ step'[t] = "set"
        /\ \A u \in Task \ {t} : step'[u] = step[u] /\ todo'[u] = todo[u]
    BY <1>0, <1>11 DEF NotifyNone, Done
  <2>3. UNCHANGED <<mem, applied, heard, ethUp, pc, registered>>
    BY <1>11 DEF NotifyNone
  <2>4. ASSUME NEW q \in Heeded, Excused(q), ~(q = "address" /\ pc = "loaded")
        PROVE  Excused(q)'
    <3>1. missed \subseteq missed'
      BY <1>11 DEF NotifyNone
    <3>2. Head(todo[t]) = q => q \in missed'
      BY <1>11, <2>4 DEF NotifyNone
    <3>3. QED
      BY <2>2, <2>4, <3>1, <3>2 DEF Excused, Pending
  <2>5. \A u \in Task : step'[u] # "apply"
    BY <2>1, <2>2
  <2>6. QED
    BY <2>3, <2>4, <2>5 DEF NotifyInv
<1>12. ASSUME NEW t \in Task, NotifyReads(t)
      PROVE  NotifyInv'
  <2>1. \A u \in Task : step[u] # "apply"
    BY <1>12 DEF NotifyReads, ListenersFree, TaskInv
  <2>2. /\ step[t] = "notify" /\ step'[t] = "apply" /\ heard'[t] = mem[Head(todo[t])]
        /\ \A u \in Task \ {t} : step'[u] = step[u]
    BY <1>0, <1>12 DEF NotifyReads
  <2>3. UNCHANGED <<mem, applied, todo, ethUp, missed, pc>>
    BY <1>12 DEF NotifyReads
  <2>4. pc # "config"
    BY <1>12 DEF NotifyReads, TaskInv
  <2>5. \A q \in Heeded : Excused(q) => Excused(q)'
    BY <2>2, <2>3 DEF Excused, Pending
  <2>6. QED
    BY <2>1, <2>2, <2>3, <2>4, <2>5 DEF NotifyInv
<1>13. ASSUME NEW t \in Task, NotifyApplies(t)
      PROVE  NotifyInv'
  <2>0. PICK q \in Heeded : q = Head(todo[t])
    BY <1>13 DEF NotifyApplies, TaskInv
  <2>1. /\ step[t] = "apply" /\ holder = t /\ pc \in Looping
        /\ \A u \in Task \ {t} : step[u] # "apply"
    BY <1>13 DEF NotifyApplies, TaskInv
  <2>2. /\ step'[t] = "set"
        /\ \A u \in Task \ {t} : step'[u] = step[u] /\ todo'[u] = todo[u]
    BY <1>0, <1>13 DEF NotifyApplies, Done
  <2>3. /\ applied'[q] = heard[t]
        /\ \A p \in Heeded \ {q} : applied'[p] = applied[p] /\ (p \in missed => p \in missed')
    BY <1>0, <1>13, <2>0 DEF NotifyApplies
  <2>4. UNCHANGED <<mem, ethUp, pc>>
    BY <1>13 DEF NotifyApplies
  <2>5. Pending(q)' \/ applied'[q] = mem'[q]
    <3>1. CASE heard[t] = mem[q]
      BY <2>3, <2>4, <3>1
    <3>2. CASE \E u \in Task : step[u] = "notify" /\ Head(todo[u]) = q
      <4>1. PICK u \in Task : step[u] = "notify" /\ Head(todo[u]) = q
        BY <3>2
      <4>2. u # t /\ todo[u] # <<>>
        BY <1>0, <2>1, <4>1
      <4>3. QED
        BY <2>2, <4>1, <4>2 DEF Pending
    <3>3. QED
      BY <2>0, <2>1, <3>1, <3>2 DEF NotifyInv
  <2>6. ASSUME NEW p \in Heeded \ {q}, Excused(p)
        PROVE  Excused(p)'
    BY <2>0, <2>2, <2>3, <2>6 DEF Excused, Pending
  <2>7. \A p \in Heeded : (Excused(p) \/ applied[p] = mem[p]) => (Excused(p)' \/ applied'[p] = mem'[p])
    BY <2>3, <2>4, <2>5, <2>6 DEF Excused
  <2>8. \A u \in Task : step'[u] # "apply"
    BY <2>1, <2>2
  <2>9. QED
    BY <2>1, <2>4, <2>7, <2>8 DEF NotifyInv
<1>14. CASE LoopTop
  BY <1>1, <1>14 DEF LoopTop
<1>15. CASE LoopCheck
  BY <1>1, <1>15 DEF LoopCheck
<1>16. CASE LoopBusy
  BY <1>1, <1>16 DEF LoopBusy
<1>17. CASE WriteImage
  BY <1>1, <1>17 DEF WriteImage
<1>18. CASE WriteClose
  BY <1>1, <1>18 DEF WriteClose
<1>f. CASE WriteFails
  BY <1>1, <1>f DEF WriteFails
<1>19. CASE LoopButton
  <2>1. /\ pc = "button" /\ pc' \in {"reset", "top"} /\ step["loop"] = "set"
        /\ todo'["web"] = todo["web"]
    BY <1>0, <1>19 DEF LoopButton, TaskInv
  <2>2. UNCHANGED <<mem, applied, step, heard, ethUp, missed>>
    BY <1>19 DEF LoopButton
  <2>3. QED
    BY <2>1, <2>2 DEF NotifyInv, Excused, Pending
<1>20. CASE ResetSets
  <2>1. Head(todo["loop"]) \in Param
    BY <1>20, AtHand DEF ResetSets
  <2>2. QED
    BY <1>2, <1>20, <2>1 DEF ResetSets
<1>21. CASE ResetEnds
  BY <1>1, <1>21 DEF ResetEnds
<1>22. CASE Tick
  BY <1>1, <1>22 DEF Tick
<1>23. CASE Button
  BY <1>1, <1>23 DEF Button
<1>24. CASE Restart
  <2>1. ~ethUp' /\ pc' = "off" /\ \A t \in Task : step'[t] = "set"
    BY <1>24 DEF Restart
  <2>2. QED
    BY <2>1 DEF NotifyInv
<1>25. CASE UNCHANGED vars
  BY <1>1, <1>25 DEF vars
<1>26. QED
  BY <1>3, <1>4, <1>5, <1>6, <1>7, <1>8, <1>9, <1>10, <1>11, <1>12, <1>13, <1>14, <1>15,
     <1>16, <1>17, <1>18, <1>19, <1>20, <1>21, <1>22, <1>23, <1>24, <1>25, <1>f
  DEF Next, Setup, Saving, Reset, Post, World, Notify

LEMMA Initial == Init => IInv
<1> SUFFICES ASSUME Init PROVE IInv
  OBVIOUS
<1> USE DEF Init, Task, Nobody, Param, Saved, Heeded
<1>1. TypeOK
  <2>1. /\ mem \in [Param -> Setting] /\ flash \in [Saved -> Setting] /\ image \in [Saved -> Setting]
        /\ applied \in [Heeded -> Setting]
    <3>1. Image(Defaults) \in [Saved -> Setting] /\ Image(Defaults)["address"] \in Address
      BY SettingFacts, ImageFacts
    <3> QED BY <3>1, SettingFacts
  <2>2. /\ todo \in [Task -> Seq(Param)] /\ heard \in [Task -> Setting]
        /\ step \in [Task -> {"set", "merged", "notify", "apply"}]
        /\ \A t \in Task : todo[t] = <<>> => step[t] = "set"
        /\ mem["address"] \in Address /\ flash["address"] \in Address /\ image["address"] \in Address
    BY SettingFacts, ImageFacts
  <2>3. 0 \in 0..MaxTime /\ clock \in 1..MaxTime /\ 0 \in 0..MaxPosts /\ 0 \in 0..MaxBoots
    BY TimeAssumption, BoundAssumption
  <2>4. QED
    BY <2>1, <2>2, <2>3 DEF TypeOK, Booting
<1>2. TaskInv
  <2>1. todo["web"] = <<>> /\ todo["loop"] = <<>> /\ \A t \in Task : step[t] = "set"
    OBVIOUS
  <2>2. DOMAIN << >> = {}
    OBVIOUS
  <2>3. QED
    BY <2>1, <2>2 DEF TaskInv, Looping
<1>3. FileInv /\ NotifyInv /\ ResetInv
  BY DEF FileInv, NothingForgotten, NotifyInv, ResetInv, Looping
<1>4. QED
  BY <1>1, <1>2, <1>3 DEF IInv

LEMMA Inductive == IInv /\ [Next]_vars => IInv'
  BY TypeStep, TaskStep, FileStep, NotifyStep, ResetStep DEF IInv

\* The parts of the invariant hold in every reachable state.
THEOREM Invariance == Spec => []IInv
  BY Initial, Inductive, PTL DEF Spec

\* Every variable keeps its type, at any number of restarts.
THEOREM TypeCorrect == Spec => []TypeOK
<1>1. IInv => TypeOK
  BY DEF IInv
<1>2. QED
  BY <1>1, Invariance, PTL

\* loop forgets no change: whatever is set while it serialises and closes the
\* file, the file has what is in memory (but for the trap address, and for a
\* gateway beside a subnet left to DHCP, which toJSON leaves out), the delay runs
\* again, or the file could not be written.
THEOREM NoneForgotten == Spec => []NothingForgotten
<1>1. IInv => NothingForgotten
  BY DEF IInv, FileInv
<1>2. QED
  BY <1>1, Invariance, PTL

\* Two tasks that set and notify at the same time leave the Ethernet interface
\* with the latest value, because configChanged reads it under mutexListeners_.
THEOREM InterfaceCurrent == Spec => []InterfaceIsCurrent
<1>1. IInv => InterfaceIsCurrent
  <2> SUFFICES ASSUME IInv, registered, ethUp, NEW q \in Heeded \ missed, ~Pending(q)
               PROVE  applied[q] = mem[q]
    BY DEF InterfaceIsCurrent, Pending
  <2>1. q \in {"name", "address"} /\ ~Excused(q)
    BY DEF Heeded, Excused
  <2>2. pc \in Looping
    BY DEF IInv, TaskInv
  <2>3. QED
    BY <2>1, <2>2 DEF IInv, NotifyInv
<1>2. QED
  BY <1>1, Invariance, PTL

\* After resetToDefault what it resets, the address included, is the default,
\* but for what a POST has set since it began.
THEOREM ResetLasts == Spec => []ResetHolds
<1>1. IInv => ResetHolds
  <2>1. DOMAIN << >> = {}
    OBVIOUS
  <2>2. QED
    BY <2>1 DEF IInv, ResetInv, ResetHolds, ResetIsOver, Restored
<1>2. QED
  BY <1>1, Invariance, PTL
=============================================================================
