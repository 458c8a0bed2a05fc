---------------------------- MODULE FirmwareUpdate ----------------------------
(***************************************************************************)
(* Firmware and web interface updates (main/http_server/http_server.c,     *)
(* ota_guard.c, system.c, filesystem.c): the uploads the HTTP server's one *)
(* task receives, the choice of the slot to boot, and which interface a    *)
(* boot serves.                                                            *)
(*                                                                         *)
(* An upload is a number of cells received some at a time; the header      *)
(* that ota_guard looks at is the first of them.  The settings it changes  *)
(* go to flash later, in order, and a restart loses those still queued.    *)
(* The flag useCustomWWW records who set it: an upload or a user.          *)
(***************************************************************************)
EXTENDS Integers, Sequences

CONSTANTS OTA_GUARD_HEADER_LEN,               \* cells of the header, at most Size
          OTA_GUARD_MAX_CONSECUTIVE_TIMEOUTS,
          Size,                               \* cells of an upload
          MaxUploads, MaxRestarts, MaxWishes  \* bounds; wishes are changes of the flag by a user

FirmwareAssumption == /\ OTA_GUARD_HEADER_LEN \in Nat \ {0} /\ Size \in Nat /\ OTA_GUARD_HEADER_LEN <= Size
                      /\ OTA_GUARD_MAX_CONSECUTIVE_TIMEOUTS \in Nat \ {0}
                      /\ MaxUploads \in Nat /\ MaxRestarts \in Nat /\ MaxWishes \in Nat

AppSlots == {"factory", "ota_0", "ota_1"}
\* What is uploaded: this firmware, another project's, this one damaged past its header.
Images == {"ours", "foreign", "damaged"}
Nothing == [build |-> 0, image |-> "damaged"] \* erased, or part of an image

VARIABLES slot,     \* flash: [build, image] of each application slot
          boot,     \* otadata: the slot to boot
          running,  \* the slot that runs
          www,      \* flash: [whole, build]: the web interface, and the build it was uploaded to
          flag,     \* cache of useCustomWWW: "off", "upload" or "user"
          print,    \* cache of lastFwFingerprint: a build, 0 for none
          pending,  \* updates on their way to flash
          stored,   \* flash: the two settings
          serving,  \* the handler of "/*": "embedded", or the flag it was chosen with
          httpd,    \* [pc, image, left, got, timeouts]
          is_firmware_update,
          uploads, restarts, wishes,
          overtaken \* a restart came before the clearing of such a flag was stored (LosesFlag)
vars == <<slot, boot, running, www, flag, print, pending, stored, serving, httpd,
          is_firmware_update, uploads, restarts, wishes, overtaken>>

IdleHttpd == [pc |-> "idle", image |-> "ours", left |-> 0, got |-> 0, timeouts |-> 0]

Init == /\ slot = [s \in AppSlots |-> IF s = "factory" THEN [build |-> 1, image |-> "ours"] ELSE Nothing]
        /\ boot = "factory" /\ running = "factory"
        /\ www = [whole |-> FALSE, build |-> 0]
        /\ flag = "off" /\ print = 0 /\ pending = <<>>
        /\ stored = [flag |-> "off", print |-> 0]
        /\ serving = "embedded" /\ httpd = [IdleHttpd EXCEPT !.pc = "down"]
        /\ is_firmware_update = FALSE
        /\ uploads = 0 /\ restarts = 0 /\ wishes = 0 /\ overtaken = FALSE
-----------------------------------------------------------------------------
(* Settings. *)

IsOn(f) == f # "off"

\* nvs_config_set_bool and nvs_config_set_string: a value that the cache has
\* already is not queued.
FlagQueued(q, f) == IF IsOn(f) = IsOn(flag) THEN q ELSE Append(q, <<"flag", f>>)
FlagCached(f) == IF IsOn(f) = IsOn(flag) THEN flag ELSE f
PrintQueued(q, b) == IF b = print THEN q ELSE Append(q, <<"print", b>>)

SetFlag(f) == flag' = FlagCached(f) /\ pending' = FlagQueued(pending, f)

NvsTask ==
  /\ pending # <<>> /\ pending' = Tail(pending)
  /\ stored' = [stored EXCEPT ![Head(pending)[1]] = Head(pending)[2]]
  /\ UNCHANGED <<slot, boot, running, www, flag, print, serving, httpd, is_firmware_update,
                 uploads, restarts, wishes, overtaken>>
-----------------------------------------------------------------------------
(* Boot. *)

bounds == <<uploads, restarts, wishes>>
BuildOf(s) == slot[s].build

\* SYSTEM_check_firmware_migration: a firmware the settings do not know begins
\* with its own interface.
IsNewBuild == stored.print # BuildOf(boot)

\* filesystem_init: a whole web partition mounts, half of one may.
Mounts == IF www.whole THEN {TRUE} ELSE BOOLEAN

\* The load, the check, and the choice of start_rest_server, made once a boot.
Start ==
  /\ httpd.pc = "down" /\ httpd' = IdleHttpd /\ running' = boot
  /\ flag' = IF IsNewBuild THEN "off" ELSE stored.flag
  /\ print' = BuildOf(boot)
  /\ pending' = (IF IsNewBuild /\ IsOn(stored.flag) THEN << <<"flag", "off">> >> ELSE <<>>)
                  \o (IF IsNewBuild THEN << <<"print", print'>> >> ELSE <<>>)
  /\ \E mounted \in Mounts : serving' = IF mounted /\ IsOn(flag') THEN flag' ELSE "embedded"
  /\ UNCHANGED <<slot, boot, www, stored, is_firmware_update, bounds, overtaken>>

\* A flag that was cleared and that the restart brings back, for half an interface or
\* for one that was not uploaded to the build the settings know.
LosesFlag == /\ IsOn(stored.flag) /\ (www.whole => www.build # stored.print)
             /\ \E i \in DOMAIN pending : pending[i] = <<"flag", "off">>

Down ==
  /\ httpd' = [IdleHttpd EXCEPT !.pc = "down"] /\ pending' = <<>>
  /\ serving' = "embedded" /\ is_firmware_update' = FALSE
  /\ overtaken' = (overtaken \/ LosesFlag)
  /\ UNCHANGED <<slot, boot, running, www, flag, print, stored, uploads, wishes>>

\* A restart nobody asked for, and the one at the end of an update, which waits
\* a second and for nobody.
Crash == httpd.pc # "down" /\ restarts < MaxRestarts /\ restarts' = restarts + 1 /\ Down
EspRestart == httpd.pc = "restart" /\ UNCHANGED restarts /\ Down
-----------------------------------------------------------------------------
(* The handlers.  They run one at a time. *)

flash == <<boot, running, stored, serving, restarts, overtaken>>
settings == <<flag, print, pending>>

Ends == httpd' = IdleHttpd /\ is_firmware_update' = FALSE

\* esp_ota_get_next_update_partition
NextSlot == IF running = "ota_0" THEN "ota_1" ELSE "ota_0"

Begins(pc, image) ==
  /\ httpd.pc = "idle" /\ ~is_firmware_update /\ uploads < MaxUploads
  /\ uploads' = uploads + 1
  /\ httpd' = [pc |-> pc, image |-> image, left |-> Size, got |-> 0, timeouts |-> 0]
  /\ is_firmware_update' = TRUE

\* esp_ota_begin erases the slot or fails.
OtaBegins(image) ==
  /\ Begins("ota", image)
  /\ slot' = [slot EXCEPT ![NextSlot] = Nothing]
  /\ UNCHANGED <<www, settings, flash, wishes>>
OtaDoesNotBegin ==
  /\ httpd.pc = "idle" /\ ~is_firmware_update /\ uploads < MaxUploads
  /\ uploads' = uploads + 1
  /\ UNCHANGED <<slot, www, settings, httpd, is_firmware_update, flash, wishes>>

\* A mutant: a timeout is always tried again.
TimesOut_Forever ==
  /\ httpd' = [httpd EXCEPT !.timeouts = (@ + 1) % OTA_GUARD_MAX_CONSECUTIVE_TIMEOUTS]
  /\ UNCHANGED is_firmware_update
\* A timeout is tried again, up to a number of them in a row.
TimesOut == IF httpd.timeouts + 1 < OTA_GUARD_MAX_CONSECUTIVE_TIMEOUTS
               THEN httpd' = [httpd EXCEPT !.timeouts = @ + 1] /\ UNCHANGED is_firmware_update
               ELSE Ends

\* A mutant: only an image that comes in one piece is looked at.
HeaderRefused_FirstPiece(n) == httpd.got = 0 /\ n >= OTA_GUARD_HEADER_LEN /\ httpd.image = "foreign"

\* ota_guard_check_header, once enough of the image is there.
HeaderRefused(n) ==
  /\ httpd.got < OTA_GUARD_HEADER_LEN /\ httpd.got + n >= OTA_GUARD_HEADER_LEN
  /\ httpd.image = "foreign"

\* n more cells arrived and were written.
Received(n, next) ==
  /\ httpd' = [httpd EXCEPT !.left = @ - n, !.got = @ + n, !.timeouts = 0,
                            !.pc = IF n = httpd.left THEN next ELSE @]
  /\ UNCHANGED is_firmware_update

\* Other errors: of the connection, of a write.  esp_ota_abort leaves the slot as it is.
OtaReceives ==
  /\ httpd.pc = "ota"
  /\ \/ TimesOut
     \/ Ends
     \/ \E n \in 1 .. httpd.left : IF HeaderRefused(n) THEN Ends ELSE Received(n, "ota end")
  /\ UNCHANGED <<slot, www, settings, flash, uploads, wishes>>

\* esp_ota_end and esp_ota_set_boot_partition both check the whole image.
OtaEnds ==
  /\ httpd.pc = "ota end"
  /\ \/ /\ httpd.image # "damaged"
        /\ slot' = [slot EXCEPT ![NextSlot] = [build |-> uploads + 1, image |-> httpd.image]]
        /\ boot' = NextSlot
        /\ httpd' = [httpd EXCEPT !.pc = "reset flag"] /\ UNCHANGED is_firmware_update
     \/ Ends /\ UNCHANGED <<slot, boot>>
  /\ UNCHANGED <<www, settings, running, stored, serving, restarts, overtaken, uploads, wishes>>

\* POST_system_boot: a slot with an image, the running one too.
SystemBoot(s) ==
  /\ httpd.pc = "idle" /\ slot[s] # Nothing /\ uploads < MaxUploads
  /\ uploads' = uploads + 1 /\ boot' = s
  /\ httpd' = [httpd EXCEPT !.pc = "reset flag"]
  /\ UNCHANGED <<slot, www, settings, is_firmware_update, running, stored, serving,
                 restarts, overtaken, wishes>>

\* SYSTEM_reset_custom_www: two settings one after the other.
ResetFlag ==
  /\ httpd.pc = "reset flag" /\ httpd' = [httpd EXCEPT !.pc = "reset print"]
  /\ SetFlag("off")
  /\ UNCHANGED <<slot, www, print, is_firmware_update, flash, uploads, wishes>>
ResetPrint ==
  /\ httpd.pc = "reset print" /\ httpd' = [httpd EXCEPT !.pc = "restart"]
  /\ pending' = PrintQueued(pending, 0) /\ print' = 0
  /\ UNCHANGED <<slot, www, flag, is_firmware_update, flash, uploads, wishes>>

\* A mutant: the flag is left to be set at the end.
WwwBegins_KeepsFlag ==
  /\ Begins("erase", "ours") /\ UNCHANGED <<slot, www, settings, flash, wishes>>

\* POST_WWW_update clears the flag before it touches the partition.
WwwBegins ==
  /\ Begins("erase", "ours") /\ SetFlag("off")
  /\ UNCHANGED <<slot, www, print, flash, wishes>>

\* From the first erase on, the partition is of no use.
WwwErases ==
  /\ httpd.pc = "erase" /\ www' = [whole |-> FALSE, build |-> 0]
  /\ \/ httpd' = [httpd EXCEPT !.pc = "www"] /\ UNCHANGED is_firmware_update
     \/ Ends
  /\ UNCHANGED <<slot, settings, flash, uploads, wishes>>

WwwReceives ==
  /\ httpd.pc = "www"
  /\ \/ (TimesOut \/ Ends) /\ UNCHANGED www
     \/ \E n \in 1 .. httpd.left :
          /\ Received(n, "www end")
          /\ www' = IF n = httpd.left THEN [whole |-> TRUE, build |-> BuildOf(running)] ELSE www
  /\ UNCHANGED <<slot, settings, flash, uploads, wishes>>

WwwEnds ==
  /\ httpd.pc = "www end" /\ SetFlag("upload")
  /\ httpd' = [httpd EXCEPT !.pc = "restart"] /\ is_firmware_update' = FALSE
  /\ UNCHANGED <<slot, www, print, flash, uploads, wishes>>

\* PATCH useCustomWWW: the partition is not looked at.
UserWish ==
  /\ httpd.pc = "idle" /\ wishes < MaxWishes /\ wishes' = wishes + 1
  /\ \E f \in {"off", "user"} : SetFlag(f)
  /\ UNCHANGED <<slot, www, print, httpd, is_firmware_update, flash, uploads>>

Upload == OtaReceives \/ OtaEnds \/ ResetFlag \/ ResetPrint \/ WwwErases \/ WwwReceives \/ WwwEnds
Next == \/ NvsTask \/ Start \/ Crash \/ EspRestart \/ Upload \/ UserWish
        \/ (\E image \in Images : OtaBegins(image)) \/ OtaDoesNotBegin \/ WwwBegins
        \/ \E s \in AppSlots : SystemBoot(s)

\* The server's task goes on with what it began, and a device that is down starts.
Fairness == WF_vars(Upload) /\ WF_vars(EspRestart) /\ WF_vars(Start)
Spec == Init /\ [][Next]_vars /\ Fairness
-----------------------------------------------------------------------------
Builds == 0 .. MaxUploads + 1

\* Every variable has its type.
TypeOK ==
  /\ slot \in [AppSlots -> [build : Builds, image : Images]] /\ {boot, running} \subseteq AppSlots
  /\ www \in [whole : BOOLEAN, build : Builds]
  /\ flag \in {"off", "upload", "user"} /\ serving \in {"embedded", "upload", "user"}
  /\ print \in Builds /\ stored \in [flag : {"off", "upload", "user"}, print : Builds]
  /\ pending \in Seq(({"flag"} \X {"off", "upload", "user"}) \cup ({"print"} \X Builds))
  /\ httpd \in [pc : {"down", "idle", "ota", "ota end", "reset flag", "reset print", "erase", "www",
                      "www end", "restart"},
                image : Images, left : 0 .. Size, got : 0 .. Size,
                timeouts : 0 .. OTA_GUARD_MAX_CONSECUTIVE_TIMEOUTS - 1]
  /\ is_firmware_update \in BOOLEAN /\ overtaken \in BOOLEAN
  /\ uploads \in 0 .. MaxUploads /\ restarts \in 0 .. MaxRestarts /\ wishes \in 0 .. MaxWishes

\* http_server.c:1841 and ota_guard.h: whatever is uploaded, in whatever pieces,
\* and whenever the power goes, the slot that boots holds a whole image of this firmware.
BootsOurFirmware == slot[boot].image = "ours" /\ slot[boot].build > 0

\* http_server.c:1899: a custom interface is served by the firmware it was uploaded
\* to and by no other, unless a user asks for it or a restart overtook the clearing of
\* the flag until another interface was there.
WebMatchesFirmware == serving = "upload" /\ www.whole => www.build = BuildOf(running) \/ overtaken

\* http_server.c:1699: the stored flag of an upload is never that of half an
\* interface, but while its clearing is on the way or after a restart overtook it.
FlagIsTrue ==
  stored.flag = "upload" /\ ~www.whole => LosesFlag \/ overtaken

UpdatesAreSafe == BootsOurFirmware /\ WebMatchesFirmware /\ FlagIsTrue

Updating == is_firmware_update

\* http_server.c:1829: an upload ends whatever the client does, and another can begin.
UploadEnds == Updating ~> ~Updating

\* http_server.c:1699: "Serve the embedded one until this upload completes, so a
\* failure below leaves a working interface".  The handler is chosen at boot, so
\* the code does not keep this (README).
FailedUploadServesEmbedded ==
  httpd.pc = "idle" /\ serving = "upload" => www.whole
=============================================================================
