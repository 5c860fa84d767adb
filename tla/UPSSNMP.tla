------------------------------ MODULE UPSSNMP ------------------------------
(***************************************************************************)
(* UPSSNMPAgent over UPSHIDDevice: the Arduino loop task polls the UPS,    *)
(* adds and removes the OIDs of its data and sends a trap when it goes;    *)
(* the network event task starts and stops the agent; a web request reads  *)
(* the status of the UPS field by field.                                   *)
(***************************************************************************)
EXTENDS UPSHIDDevice

CONSTANTS Published,    \* the data initializeOID publishes, in its order
          TrapSet       \* an SNMP trap address is configured

ASSUME PublishedAssumption ==
    /\ Published \in Seq(Data)
    /\ \A i, j \in DOMAIN Published : Published[i] = Published[j] => i = j
ASSUME TrapSetAssumption == TrapSet \in BOOLEAN

VARIABLES
    started,        \* UPSSNMPAgent::started_
    wasConnected,   \* UPSSNMPAgent::wasConnected_
    callbacks,      \* UPSSNMPAgent::callbacks_: how many it lists for each datum
    handlers,       \* how many handlers the SNMP library holds for each datum
    oid,            \* where initializeOID is in Published, 0 outside of it
    traps,          \* traps sent
    losses,         \* times connected_ was cleared
    status          \* the web request: what statusToJSON has read so far

agentVars == <<started, wasConnected, callbacks, handlers, oid, traps>>
vars == <<deviceVars, agentVars, losses, status>>

Status == [at : 0..NumData, checked : BOOLEAN, of : 0..MaxDev, fields : SUBSET Data]
NoStatus == [at |-> 0, checked |-> FALSE, of |-> 0, fields |-> {}]

TypeOK ==
    /\ DeviceTypeOK
    /\ started \in BOOLEAN
    /\ wasConnected \in BOOLEAN
    /\ callbacks \in [Data -> Nat]
    /\ handlers \in [Data -> Nat]
    /\ oid \in 0..Len(Published)
    /\ traps \in Nat
    /\ losses \in Nat
    /\ status \in Status

Init ==
    /\ DeviceInit
    /\ started = FALSE
    /\ wasConnected = FALSE
    /\ callbacks = [d \in Data |-> 0]
    /\ handlers = [d \in Data |-> 0]
    /\ oid = 0
    /\ traps = 0
    /\ losses = 0
    /\ status = NoStatus

-----------------------------------------------------------------------------

ClassDriver ==
    /\ DeviceNext
    /\ losses' = IF connected /\ ~connected' THEN losses + 1 ELSE losses
    /\ UNCHANGED <<agentVars, status>>

\* ARDUINO_EVENT_ETH_GOT_IP and ARDUINO_EVENT_ETH_DISCONNECTED.
Start ==
    /\ ~started
    /\ started' = TRUE
    /\ UNCHANGED <<deviceVars, wasConnected, callbacks, handlers, oid, traps, losses, status>>

Stop ==
    /\ started
    /\ started' = FALSE
    /\ UNCHANGED <<deviceVars, wasConnected, callbacks, handlers, oid, traps, losses, status>>

\* loop: the UPS has come; initializeOID begins.
PollConnected ==
    /\ started
    /\ oid = 0
    /\ connected
    /\ ~wasConnected
    /\ IF Published = <<>>
       THEN wasConnected' = TRUE /\ UNCHANGED oid
       ELSE oid' = 1 /\ UNCHANGED wasConnected
    /\ UNCHANGED <<deviceVars, started, callbacks, handlers, traps, losses, status>>

AddHandler_Unlisted(d) ==
    /\ handlers' = [handlers EXCEPT ![d] = @ + 1]
    /\ UNCHANGED callbacks
AddHandler(d) ==
    /\ handlers' = [handlers EXCEPT ![d] = @ + 1]
    /\ callbacks' = [callbacks EXCEPT ![d] = @ + 1]

\* initializeOID: one datum, and at the end what loop read of connected_.
InitializeOID ==
    /\ oid > 0
    /\ IF used[Published[oid]]
       THEN AddHandler(Published[oid])
       ELSE UNCHANGED <<callbacks, handlers>>
    /\ IF oid < Len(Published)
       THEN oid' = oid + 1 /\ UNCHANGED wasConnected
       ELSE oid' = 0 /\ wasConnected' = TRUE
    /\ UNCHANGED <<deviceVars, started, traps, losses, status>>

\* destroyOID: what callbacks_ lists leaves the library, and callbacks_.
DestroyOID_ClearsFirst == callbacks' = [d \in Data |-> 0] /\ UNCHANGED handlers
DestroyOID_KeepsList ==
    /\ handlers' = [d \in Data |-> handlers[d] - callbacks[d]]
    /\ UNCHANGED callbacks
DestroyOID ==
    /\ handlers' = [d \in Data |-> handlers[d] - callbacks[d]]
    /\ callbacks' = [d \in Data |-> 0]

SendTrap == traps' = IF TrapSet THEN traps + 1 ELSE traps

\* loop: the UPS has gone.
NoteGone_Never == UNCHANGED wasConnected
NoteGone == wasConnected' = FALSE

PollDisconnected ==
    /\ started
    /\ oid = 0
    /\ ~connected
    /\ wasConnected
    /\ DestroyOID
    /\ SendTrap
    /\ NoteGone
    /\ UNCHANGED <<deviceVars, started, oid, losses, status>>

-----------------------------------------------------------------------------
(* GET /status: statusToJSON in the web server's task.                     *)

StatusBegin ==
    /\ status.at = 0
    /\ connected
    /\ status' = [at |-> 1, checked |-> FALSE, of |-> dev, fields |-> {}]
    /\ UNCHANGED <<deviceVars, agentVars, losses>>

StatusNext(fields) ==
    status' = IF status.at < NumData
              THEN [status EXCEPT !.at = @ + 1, !.checked = FALSE, !.fields = fields]
              ELSE NoStatus

\* addToJSON: isUsed, then getValue.
IsUsed_Ignored(d) == TRUE
IsUsed(d) == used[d]

StatusCheck ==
    /\ status.at > 0
    /\ ~status.checked
    /\ IF IsUsed(status.at)
       THEN status' = [status EXCEPT !.checked = TRUE]
       ELSE StatusNext(status.fields)
    /\ UNCHANGED <<deviceVars, agentVars, losses>>

StatusAdd ==
    /\ status.checked
    /\ StatusNext(status.fields \cup {status.at})
    /\ UNCHANGED <<deviceVars, agentVars, losses>>

\* The board restarts: an upload, a failed ESP_ERROR_CHECK, power.
Restart ==
    /\ DeviceRestart
    /\ started' = FALSE
    /\ wasConnected' = FALSE
    /\ callbacks' = [d \in Data |-> 0]
    /\ handlers' = [d \in Data |-> 0]
    /\ oid' = 0
    /\ traps' = 0
    /\ losses' = 0
    /\ status' = NoStatus

Loop == PollConnected \/ InitializeOID \/ PollDisconnected
Web  == StatusBegin \/ StatusCheck \/ StatusAdd

Next == ClassDriver \/ Start \/ Stop \/ Loop \/ Web \/ Restart

Spec == Init /\ [][Next]_vars

\* A callback that has begun ends, and the loop task keeps polling.
Fairness ==
    /\ WF_vars(CallbackStep /\ ClassDriver)
    /\ WF_vars(Loop)

FairSpec == Spec /\ Fairness

-----------------------------------------------------------------------------
(* Safety.                                                                 *)

\* The SNMP library never holds two handlers of one OID, however the polls
\* fall between connections, stops and starts: initializeOID runs only after
\* destroyOID has removed whatever the last one added.
NoDuplicateOid == \A d \in Data : handlers[d] <= 1

\* At most one trap for each time connected_ was cleared.
TrapsNeverExceedLosses == traps <= losses

\* A status that has seen no disconnection lists only data the connected UPS
\* describes.
StatusIsOfDevice ==
    status.at > 0 /\ connected /\ status.of = dev =>
        status.fields \subseteq {Fields[model][i].data : i \in DOMAIN Fields[model]}

(* Liveness, under FairSpec.                                               *)

\* If the UPS stays away and the agent stays up, the OIDs of its data go.
OidsWithdrawn ==
    <>[](~connected /\ started) => <>[](\A d \in Data : handlers[d] = 0)

(* What the repository says of itself and the code does not keep.          *)

IsPublished(d) == \E i \in DOMAIN Published : Published[i] = d

\* SNMP_OID.md lists an OID for each published datum: once the agent has seen
\* the UPS and its descriptor is parsed, every datum of it has its OID.
OidsMatchUps ==
    wasConnected /\ connected /\ job = "idle" =>
        \A d \in Data : IsPublished(d) /\ used[d] => handlers[d] > 0

\* deviceRemoved resets the existing reports: what is read afterwards is of
\* the connected UPS, or of no report.
ValueIsOfDevice == connected => \A d \in Data : GetValue(d).report \in {0, dev}
=============================================================================
