----------------------------- MODULE Webserver -----------------------------
(***************************************************************************)
(* The web server and the network events of main.cpp: the event task       *)
(* starts and stops the web server and the SNMP agent as the link comes    *)
(* and goes, the server's task handles one request at a time, of which     *)
(* POST /ota writes a partition chunk by chunk, and power may fail.        *)
(*                                                                         *)
(* The HTTP server and the OTA library are external: httpd_req_recv waits  *)
(* a few seconds for data, httpd_stop waits for the handler that runs, and *)
(* esp_ota_end and esp_ota_set_boot_partition refuse an invalid image.     *)
(***************************************************************************)
EXTENDS Naturals, Sequences

CONSTANTS
    Slot,           \* the application partitions
    Update,         \* Update[s]: the partition to write while s runs
    MaxLen,         \* bound: chunks of a body
    MaxEvents       \* bound: network events not yet handled

ASSUME UpdateAssumption == Update \in [Slot -> Slot] /\ \A s \in Slot : Update[s] # s
ASSUME BoundAssumption == MaxLen \in Nat /\ MaxEvents \in Nat

VARIABLES
    link,           \* the last event posted: TRUE for GOT_IP
    events,         \* the events the event task has yet to handle
    evt,            \* where WiFiEvent is
    server,         \* Webserver::server_ # nullptr
    agent,          \* UPSSNMPAgent::started_
    req,            \* where the handler that runs is
    remaining,      \* ota_post_handler's, in chunks
    valid,          \* what is sent is a valid image
    recv,           \* what httpd_req_recv has returned
    handle,         \* the library holds an update for update_handle
    running, boot,  \* the partition that runs, and that would after a restart
    image           \* what each partition holds

netVars   == <<link, events, evt, server, agent>>
otaVars   == <<remaining, valid, recv, handle>>
flashVars == <<running, boot, image>>
vars == <<netVars, req, otaVars, flashVars>>

TypeOK ==
    /\ link \in BOOLEAN
    /\ events \in Seq(BOOLEAN) /\ Len(events) <= MaxEvents
    /\ evt \in {"idle", "startWeb", "startAgent", "stopWeb", "stopAgent"}
    /\ server \in BOOLEAN /\ agent \in BOOLEAN
    /\ req \in {"none", "answer", "receive", "received", "ended", "reboot", "failed"}
    /\ remaining \in 0..MaxLen
    /\ valid \in BOOLEAN
    /\ recv \in {"nothing", "data", "closed", "timeout", "error"}
    /\ handle \in BOOLEAN
    /\ running \in Slot /\ boot \in Slot
    /\ image \in [Slot -> {"whole", "partial"}]

Init ==
    /\ link = FALSE /\ events = <<>> /\ evt = "idle"
    /\ server = FALSE /\ agent = FALSE
    /\ req = "none" /\ remaining = 0 /\ valid = FALSE
    /\ recv = "nothing" /\ handle = FALSE
    /\ running \in Slot
    /\ boot = running
    /\ image \in [Slot -> {"whole", "partial"}]
    /\ image[running] = "whole"

-----------------------------------------------------------------------------
(* The network: an address is got, or got again; the link is lost, whether *)
(* or not there was an address.                                            *)

Post(up) ==
    /\ Len(events) < MaxEvents
    /\ link' = up
    /\ events' = Append(events, up)
    /\ UNCHANGED <<evt, server, agent, req, otaVars, flashVars>>

(* WiFiEvent, in the event task.                                           *)

TakeEvent ==
    /\ evt = "idle"
    /\ events # <<>>
    /\ evt' = IF Head(events) THEN "startWeb" ELSE "stopWeb"
    /\ events' = Tail(events)
    /\ UNCHANGED <<link, server, agent, req, otaVars, flashVars>>

\* Webserver::start; httpd_start may fail.
StartWeb ==
    /\ evt = "startWeb"
    /\ server' = TRUE \/ UNCHANGED server
    /\ evt' = "startAgent"
    /\ UNCHANGED <<link, events, agent, req, otaVars, flashVars>>

StartAgent ==
    /\ evt = "startAgent"
    /\ agent' = TRUE
    /\ evt' = "idle"
    /\ UNCHANGED <<link, events, server, req, otaVars, flashVars>>

\* Webserver::stop: httpd_stop returns once no handler runs.
StopWeb_ReturnsEarly ==
    /\ evt = "stopWeb"
    /\ req = "none"
    /\ server' = FALSE
    /\ evt' = IF server THEN "stopAgent" ELSE "idle"
    /\ UNCHANGED <<link, events, agent, req, otaVars, flashVars>>
StopWeb ==
    /\ evt = "stopWeb"
    /\ req = "none"
    /\ server' = FALSE
    /\ evt' = "stopAgent"
    /\ UNCHANGED <<link, events, agent, req, otaVars, flashVars>>

StopAgent ==
    /\ evt = "stopAgent"
    /\ agent' = FALSE
    /\ evt' = "idle"
    /\ UNCHANGED <<link, events, server, req, otaVars, flashVars>>

-----------------------------------------------------------------------------
(* The server's task.                                                      *)

CanBegin == server /\ req = "none"

\* GET /config, /status and /ota, and POST /config, which receives once,
\* whatever comes: what it sets is Configuration's.
Ask ==
    /\ CanBegin
    /\ req' = "answer"
    /\ UNCHANGED <<netVars, otaVars, flashVars>>

Answer ==
    /\ req = "answer"
    /\ req' = "none"
    /\ UNCHANGED <<netVars, otaVars, flashVars>>

UpdateSlot == Update[running]

\* ota_post_handler: no partition to write, or esp_ota_begin fails...
UploadRefused ==
    /\ CanBegin
    /\ req' = "failed"
    /\ UNCHANGED <<netVars, otaVars, flashVars>>

\* ...or the library holds an update.  An empty body is no valid image.
UploadBegins ==
    /\ CanBegin
    /\ req' = "receive"
    /\ remaining' \in 0..MaxLen
    /\ valid' \in BOOLEAN
    /\ valid' => remaining' > 0
    /\ handle' = TRUE
    /\ UNCHANGED <<netVars, recv, flashVars>>

Receive_OnceMore ==
    /\ req = "receive"
    /\ recv' \in {"data", "closed", "timeout", "error"}
    /\ req' = "received"
    /\ UNCHANGED <<netVars, remaining, valid, handle, flashVars>>
Receive ==
    /\ req = "receive"
    /\ remaining > 0
    /\ recv' \in {"data", "closed", "timeout", "error"}
    /\ req' = "received"
    /\ UNCHANGED <<netVars, remaining, valid, handle, flashVars>>

\* The result is a size_t: of what is no data only 0, that the peer has closed,
\* is seen to be so.  A time-out or an error is taken for a length no partition
\* has, which esp_ota_write refuses or faults on (Restart); it may refuse data
\* too, and it erases what it is about to write.
Erased == image' \in {image, [image EXCEPT ![UpdateSlot] = "partial"]}
Break_RetriesTimeout ==
    /\ req = "received"
    /\ req' = IF recv = "timeout" THEN "receive" ELSE "failed"
    /\ recv' = "nothing"
    /\ IF recv = "closed" THEN UNCHANGED image ELSE Erased
    /\ UNCHANGED <<netVars, remaining, valid, handle, running, boot>>
Break ==
    /\ req = "received"
    /\ req' = "failed"
    /\ recv' = "nothing"
    /\ IF recv = "closed" THEN UNCHANGED image ELSE Erased
    /\ UNCHANGED <<netVars, remaining, valid, handle, running, boot>>

\* esp_ota_write.
Write ==
    /\ req = "received"
    /\ recv = "data"
    /\ remaining' = remaining - 1
    /\ image' = [image EXCEPT ![UpdateSlot] =
                    IF valid /\ remaining = 1 THEN "whole" ELSE "partial"]
    /\ req' = "receive"
    /\ recv' = "nothing"
    /\ UNCHANGED <<netVars, valid, handle, running, boot>>

\* esp_ota_end verifies the image and frees the update...
End ==
    /\ req = "receive"
    /\ remaining = 0
    /\ valid
    /\ req' = "ended"
    /\ handle' = FALSE
    /\ UNCHANGED <<netVars, remaining, valid, recv, flashVars>>

\* ...or fails, for an update that it may have freed.
EndFails ==
    /\ req = "receive"
    /\ remaining = 0
    /\ req' = "failed"
    /\ handle' \in BOOLEAN
    /\ UNCHANGED <<netVars, remaining, valid, recv, flashVars>>

SetBoot ==
    /\ req = "ended"
    /\ boot' = UpdateSlot
    /\ req' = "reboot"
    /\ UNCHANGED <<netVars, otaVars, running, image>>

SetBootFails ==
    /\ req = "ended"
    /\ req' = "failed"
    /\ UNCHANGED <<netVars, otaVars, flashVars>>

\* return_failure: esp_ota_abort, and the answer.
Fail_NoAbort ==
    /\ req = "failed"
    /\ req' = "none"
    /\ remaining' = 0
    /\ valid' = FALSE
    /\ UNCHANGED <<netVars, recv, handle, flashVars>>
Fail ==
    /\ req = "failed"
    /\ req' = "none"
    /\ remaining' = 0
    /\ valid' = FALSE
    /\ handle' = FALSE
    /\ UNCHANGED <<netVars, recv, flashVars>>

\* The board restarts: power fails, or a task faults or aborts.
Restart ==
    /\ link' = FALSE /\ events' = <<>> /\ evt' = "idle"
    /\ server' = FALSE /\ agent' = FALSE
    /\ req' = "none" /\ remaining' = 0 /\ valid' = FALSE
    /\ recv' = "nothing" /\ handle' = FALSE
    /\ running' = boot
    /\ UNCHANGED <<boot, image>>

\* The upload has succeeded: two seconds later, esp_restart.
Reboot_Later ==
    /\ req = "reboot"
    /\ req' = "none"
    /\ UNCHANGED <<netVars, otaVars, flashVars>>
Reboot == req = "reboot" /\ Restart

-----------------------------------------------------------------------------

Network   == Post(TRUE) \/ Post(FALSE)
EventTask == TakeEvent \/ StartWeb \/ StartAgent \/ StopWeb \/ StopAgent
Client    == Ask \/ UploadRefused \/ UploadBegins
Server    == Answer \/ Receive \/ Break \/ Write \/ End \/ EndFails \/ SetBoot
                \/ SetBootFails \/ Fail \/ Reboot

Next == Network \/ EventTask \/ Client \/ Server \/ Restart

Spec == Init /\ [][Next]_vars

\* Both tasks are scheduled, and httpd_req_recv returns, if only by its
\* time-out.  httpd_stop is strong: the server looks for the order to stop
\* between two rounds of the few connections it has.  Nobody need send, and the
\* link need not change.
Fairness == SF_vars(EventTask) /\ WF_vars(Server)

FairSpec == Spec /\ Fairness

-----------------------------------------------------------------------------
(* Safety.                                                                 *)

\* Whatever is uploaded, and wherever the upload breaks off or power fails,
\* the board starts a whole image: the handler restarts the board before
\* another upload could write the partition it has chosen to be started.
Firmware == INSTANCE FirmwareUpdate WITH
    Slot <- Slot, running <- running, boot <- boot, image <- image
FirmwareProtocol == Firmware!Spec

\* Only the upload that runs holds an update in the library, whichever way an
\* earlier one ended.
HandleReleased == handle => req \in {"receive", "received", "failed"}

\* Once the event task has caught up, the agent runs if and only if there is a
\* link, and the web server only then, whatever the handlers and httpd_start
\* did in between.
ServicesFollowLink ==
    events = <<>> /\ evt = "idle" => agent = link /\ (server => link)

(* Liveness, under FairSpec.                                               *)

\* The event task, which waits for the handler that runs when it stops the web
\* server, always comes back for the next event: no handler waits for a peer
\* that the lost link keeps silent.
EventTaskReturns == []<>(evt = "idle")

(* What the repository says of itself and the code does not keep.          *)

\* ota_post_handler retries receiving if a time-out has occurred.
TimeoutIsRetried ==
    [][req = "received" /\ recv = "timeout" /\ req' # req => req' \in {"receive", "none"}]_vars
=============================================================================
