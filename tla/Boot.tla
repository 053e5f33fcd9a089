-------------------------------- MODULE Boot --------------------------------
(***************************************************************************)
(* app_main, which the chip runs on core 0 whenever it starts, the two     *)
(* partitions of the flash that it prepares, and the screens (Navigation)  *)
(* that the operator finds when it is done.                                *)
(*                                                                         *)
(* The flash is all that survives a restart.  The power may fail between   *)
(* any two steps, with an erasure half done too; ESP_ERROR_CHECK restarts  *)
(* the chip.  A partition on worn flash answers with an error at will.     *)
(*                                                                         *)
(* A definition marked "Slip" is a plausible mistake in the definition     *)
(* after it. Nothing uses it: it is there to see that a run would notice.  *)
(***************************************************************************)
EXTENDS Navigation

CONSTANT MaxPowerCuts  \* bound: how often the power fails

ASSUME BootAssumption == MaxPowerCuts \in Nat

VARIABLES
  pc,        \* the step of app_main; "running" when it has returned
  nvs,       \* what nvs_flash_init answers when the flash works, or
             \* "HALF_ERASED"
  spiffs,    \* the database partition: "mountable" or "unformatted"
  kept,      \* the partitions that hold what they held at the first start
  worn,      \* the partitions on worn flash
  cuts       \* power failures so far

flash == <<nvs, spiffs, kept, worn>>
bootVars == <<pc, flash, cuts>>
allVars == <<bootVars, vars>>

Partition == {"nvs", "database"}

BootInit ==
  /\ Init
  /\ pc = "nvs_init"
  /\ nvs \in {"OK", "NO_FREE_PAGES", "NEW_VERSION_FOUND"}
  /\ spiffs \in {"mountable", "unformatted"}
  /\ kept = Partition
  /\ worn \in SUBSET Partition
  /\ cuts = 0

\* Everything in RAM is gone, and app_main is called again. What else it makes
\* in RAM is in Roaster.
Restart ==
  /\ pc' = "nvs_init"
  /\ navigation' = <<"MENU", "MENU">>
  /\ current_screen' = "MENU"
  /\ visits' = 0
  /\ current_content_type' = "CHART"
  /\ content_btn_label' = "CONTROLES"

GoTo(step) == pc' = step /\ UNCHANGED vars

-----------------------------------------------------------------------------
(* The two partitions.                                                     *)

\* Slip: whatever is wrong with the partition, it is erased.
EraseHelpsAlways(ret) == ret # "OK"

EraseHelps(ret) == ret \in {"NO_FREE_PAGES", "NEW_VERSION_FOUND"}

\* What nvs_flash_init may return. Sectors are erased in turn, and an erased one
\* is a free page: what is left of the others decides.
Answers ==
  (IF nvs = "HALF_ERASED" THEN {"OK", "NO_FREE_PAGES", "NEW_VERSION_FOUND"} ELSE {nvs})
    \cup (IF "nvs" \in worn THEN {"FAIL"} ELSE {})

NvsInit ==
  /\ pc = "nvs_init"
  /\ \E ret \in Answers :
       \/ EraseHelps(ret) /\ GoTo("nvs_erase")
       \/ ~EraseHelps(ret) /\ ret = "OK" /\ GoTo("db_init")
       \/ ~EraseHelps(ret) /\ ret # "OK" /\ Restart
  /\ UNCHANGED <<flash, cuts>>

\* ESP_ERROR_CHECK(nvs_flash_erase()).
NvsErase ==
  /\ \/ pc = "nvs_erase" /\ nvs' = "HALF_ERASED" /\ GoTo("nvs_erasing")
     \/ pc = "nvs_erasing" /\ nvs' = "OK" /\ GoTo("nvs_again")
  /\ kept' = kept \ {"nvs"}
  /\ UNCHANGED <<spiffs, worn, cuts>>

NvsEraseFails ==
  /\ pc \in {"nvs_erase", "nvs_erasing"}
  /\ "nvs" \in worn
  /\ Restart
  /\ UNCHANGED <<flash, cuts>>

\* The second nvs_flash_init; this time every error is checked.
NvsInitAgain ==
  /\ pc = "nvs_again"
  /\ \E ret \in Answers :
       \/ ret = "OK" /\ GoTo("db_init")
       \/ ret # "OK" /\ Restart
  /\ UNCHANGED <<flash, cuts>>

\* Unlike the NVS, the database is erased whatever the reason is.
MountMayFail == spiffs = "unformatted" \/ "database" \in worn

\* esp_vfs_spiffs_register, with format_if_mount_failed. While formatting is
\* under way there is nothing to mount.
DbMount ==
  /\ \/ /\ pc = "db_init"
        /\ spiffs = "mountable"
        /\ GoTo("create")
        /\ UNCHANGED <<spiffs, kept>>
     \/ /\ pc = "db_init"
        /\ MountMayFail
        /\ kept' = kept \ {"database"}
        /\ spiffs' = "unformatted"
        /\ GoTo("db_format")
     \/ /\ pc = "db_format"
        /\ spiffs' = "mountable"
        /\ GoTo("create")
        /\ UNCHANGED kept
  /\ UNCHANGED <<nvs, worn, cuts>>

\* Slip: the error is checked like those of the NVS.
DbFailureChecked == Restart

\* db_init returns NULL, and nobody looks at it.
DbFailureIgnored == GoTo("create")

DbFails ==
  /\ pc \in {"db_init", "db_format"}
  /\ "database" \in worn
  /\ DbFailureIgnored
  /\ UNCHANGED <<flash, cuts>>

-----------------------------------------------------------------------------
\* The queues, controller_init, lcd_gui_init with its screens, and the two
\* tasks: the drivers' errors are checked too, but with the constants they get
\* there are none.
CreateTasks ==
  /\ pc = "create"
  /\ GoTo("running")
  /\ UNCHANGED <<flash, cuts>>

-----------------------------------------------------------------------------
PowerCut ==
  /\ cuts < MaxPowerCuts
  /\ cuts' = cuts + 1
  /\ Restart
  /\ UNCHANGED flash

AppMain ==
  \/ NvsInit \/ NvsErase \/ NvsEraseFails \/ NvsInitAgain
  \/ DbMount \/ DbFails
  \/ CreateTasks

\* The operator moves between the screens.
Navigate == pc = "running" /\ Next /\ UNCHANGED bootVars

BootNext == AppMain \/ Navigate \/ PowerCut

BootSpec == BootInit /\ [][BootNext]_allVars

\* app_main has core 0 to itself.
FairBootSpec == BootSpec /\ WF_allVars(AppMain)

-----------------------------------------------------------------------------
Loses(p) == p \in kept /\ p \notin kept'

\* What was in the NVS at the first start is erased only when it cannot be read
\* as it is, wherever the power fails and whatever worn flash answers. A boot
\* may go on with an NVS that is half erased, as nothing tells it from one that
\* is whole, but only after the power has failed or an erasure on worn flash has
\* (main.c:24-29).
ErasedOnlyIfUnreadable ==
  [][/\ Loses("nvs") => nvs \in {"NO_FREE_PAGES", "NEW_VERSION_FOUND"}
     /\ (pc # "create" /\ pc' = "create" /\ nvs # "OK") =>
          "nvs" \notin kept /\ (cuts > 0 \/ "nvs" \in worn)]_allVars

\* If the NVS works, the firmware comes up: an erasure that was interrupted, and
\* is taken up again or not, does not stop it, and neither does a database that
\* is beyond help (main.c:24-29, database.c:33-41).
ComesUp == "nvs" \notin worn ~> pc = "running"
=============================================================================
