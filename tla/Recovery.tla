------------------------------ MODULE Recovery ------------------------------
(***************************************************************************)
(* The recovery program (bootable/recovery/recovery.c) together with the   *)
(* persistent state it shares with the bootloader and the main system: the *)
(* bootloader control block (BCB) on the MISC partition, the command and   *)
(* intent files on /cache, and the DATA, CACHE and SYSTEM partitions.      *)
(*                                                                         *)
(* The device may lose power between any two steps.  A rewrite of the BCB  *)
(* is two steps, because mtdutils erases the flash block before it writes  *)
(* it: losing power in between leaves a BCB that asks for nothing.         *)
(***************************************************************************)
EXTENDS Naturals

CONSTANTS
    CmdLine,      \* options on the "service recovery" line of init.rc
    Commands,     \* the option sets the main system writes to the command file
    MaxCrashes,   \* bound on power losses
    MaxFaults,    \* bound on I/O errors of the flash and of /cache
    TornWrites    \* may power be lost between the erase and the write of the BCB?

Options ==
    {"send_intent", "update_package", "wipe_data", "wipe_cache", "socket_server"}

ASSUME RecoveryAssumption ==
    /\ CmdLine \subseteq Options
    /\ Commands \subseteq SUBSET Options
    /\ MaxCrashes \in Nat
    /\ MaxFaults \in Nat
    /\ TornWrites \in BOOLEAN

VARIABLES
    pc,         \* where the device is: off, in the main system, or in main()
    argv,       \* the options main() runs with
    status,     \* main()'s status
    visible,    \* show_text of ui.c, toggled by the input thread
    victim,     \* the root erase_root() is formatting
    opRet,      \* where erase_root() / install_package() returns to
    finRet,     \* where finish_recovery() returns to
    miscRet,    \* where set_bootloader_message() returns to
    promptRet,  \* where prompt_and_wait() returns to
    server,     \* the thread of socket_server.c
    bcb,        \* the bootloader message on MISC
    cmdFile,    \* options in /cache/recovery/command, {} when there is none
    package,    \* is the OTA package still on /cache?
    intent,     \* has /cache/recovery/intent been written?
    image,      \* what each partition holds
    owner,      \* history: on whose behalf a partition was last changed
    wipeOwed,   \* history: a factory reset was requested and not yet done
    crashes, faults, torn

volatile == <<argv, status, visible, victim, opRet, finRet, miscRet, promptRet, server>>
callFrames == <<victim, opRet, finRet, miscRet, promptRet>>
cacheFiles == <<cmdFile, package, intent>>
partitions == <<image, owner, wipeOwed>>
mishaps == <<crashes, faults, torn>>
vars == <<pc, volatile, bcb, cacheFiles, partitions, mishaps>>

Volumes == {"data", "cache", "system"}

\* A zeroed or an erased (all 0xFF) message: the bootloader starts the main system.
Blank == [boot |-> FALSE, args |-> {}]

\* The message that makes the bootloader start recovery with these arguments.
BootRecovery(args) == [boot |-> TRUE, args |-> args]

\* Labels of main() and of the functions it calls.
Labels ==
    {"get_args", "misc_erase", "misc_write", "dispatch", "erase", "erasing",
     "install", "installing", "finish_socket", "init_server", "check_status",
     "prompt", "menu", "menu_wipe", "confirm", "menu_done", "finish_intent",
     "finish_unlink", "exit", "reboot"}

InRecovery == pc \in Labels

-----------------------------------------------------------------------------
(* Who runs: the bootloader, the main system, power losses and I/O errors. *)

Init ==
    /\ pc = "system"
    /\ argv = {} /\ status = "success" /\ visible = TRUE /\ server = "none"
    /\ victim = "data" /\ opRet = "check_status" /\ finRet = "reboot"
    /\ miscRet = "dispatch" /\ promptRet = "exit"
    /\ bcb = Blank /\ cmdFile = {} /\ package = FALSE /\ intent = FALSE
    /\ image = [v \in Volumes |-> "whole"]
    /\ owner = [v \in Volumes |-> "none"]
    /\ wipeOwed = FALSE
    /\ crashes = 0 /\ faults = 0 /\ torn = FALSE

\* A process that starts has none of the variables of the previous one.
FreshProcess ==
    /\ argv' = {} /\ status' = "success" /\ visible' = TRUE /\ server' = "none"
    /\ victim' = "data" /\ opRet' = "check_status" /\ finRet' = "reboot"
    /\ miscRet' = "dispatch" /\ promptRet' = "exit"

PowerOff == pc' = "off" /\ FreshProcess

\* A call fails, or works.
Fault == faults < MaxFaults /\ faults' = faults + 1 /\ UNCHANGED crashes /\ UNCHANGED torn
NoFault == UNCHANGED faults /\ UNCHANGED crashes /\ UNCHANGED torn

\* The main system downloads a package if the command needs one and writes the command.
WriteCommand(c) ==
    /\ pc = "system"
    /\ cmdFile' = c
    /\ package' = (package \/ "update_package" \in c)
    /\ wipeOwed' = ("wipe_data" \in c)
    /\ UNCHANGED <<pc, volatile, bcb, intent, image, owner, mishaps>>

\* The main system reboots, into recovery or not.
SystemReboot ==
    /\ pc = "system"
    /\ PowerOff
    /\ UNCHANGED <<bcb, cacheFiles, partitions, mishaps>>

\* The bootloader starts recovery because the BCB says so, because the main system
\* rebooted into it, or because the user holds the key for it.
BootsRecovery ==
    /\ pc = "off"
    /\ pc' = "get_args"
    /\ UNCHANGED <<volatile, bcb, cacheFiles, partitions, mishaps>>

\* Without a boot command the main system starts, and recreates what was erased.
BootsSystem ==
    /\ pc = "off"
    /\ ~bcb.boot
    /\ pc' = "system"
    /\ image' = [v \in Volumes |-> IF image[v] = "empty" THEN "whole" ELSE image[v]]
    /\ UNCHANGED <<volatile, bcb, cacheFiles, owner, wipeOwed, mishaps>>

\* The battery is pulled, anywhere.
PowerLoss ==
    /\ pc # "off"
    /\ crashes < MaxCrashes
    /\ pc = "misc_write" => TornWrites
    /\ crashes' = crashes + 1
    /\ torn' = (torn \/ pc = "misc_write")
    /\ PowerOff
    /\ UNCHANGED <<bcb, cacheFiles, partitions, faults>>

-----------------------------------------------------------------------------
(* bootloader.c and get_args(). *)

\* Mutant: finish_recovery() writes the arguments back instead of clearing them.
Message_NeverCleared == BootRecovery(argv)

\* set_bootloader_message(): the call each caller makes.
Message ==
    CASE miscRet = "dispatch"      -> BootRecovery(argv)
      [] miscRet = "install"       -> BootRecovery({})
      [] miscRet = "finish_unlink" -> Blank

\* The block is read, changed in memory, and erased.  The call may fail before the
\* erase; no caller looks at its result.
MiscErase ==
    /\ pc = "misc_erase"
    /\ \/ bcb' = Blank /\ pc' = "misc_write" /\ NoFault
       \/ bcb' = bcb /\ pc' = miscRet /\ Fault
    /\ UNCHANGED <<volatile, cacheFiles, partitions>>

\* The block is written and verified, or given up after two tries and left erased.
MiscWrite ==
    /\ pc = "misc_write"
    /\ pc' = miscRet
    /\ \/ bcb' = Message /\ NoFault
       \/ bcb' = bcb /\ Fault
    /\ UNCHANGED <<volatile, cacheFiles, partitions>>

\* The precedence of the three places arguments come from.
Arguments(message, file) ==
    IF CmdLine # {} THEN CmdLine
    ELSE IF message.args # {} THEN message.args
    ELSE file

\* Mutant: the arguments are not written back to the BCB.
GetArgs_NoWriteBack ==
    /\ pc = "get_args"
    /\ argv' = Arguments(bcb, cmdFile)
    /\ pc' = "dispatch"
    /\ UNCHANGED <<status, visible, callFrames, server, bcb, cacheFiles, partitions,
                   mishaps>>

\* get_args(): find the arguments, then write them back to the BCB.  Reading the BCB or
\* mounting /cache for the command file may fail.
GetArgs ==
    /\ pc = "get_args"
    /\ \/ argv' = Arguments(bcb, cmdFile) /\ NoFault
       \/ argv' \in {Arguments(Blank, cmdFile), Arguments(bcb, {})} /\ Fault
    /\ pc' = "misc_erase" /\ miscRet' = "dispatch"
    /\ UNCHANGED <<status, visible, victim, opRet, finRet, promptRet, server,
                   bcb, cacheFiles, partitions>>

-----------------------------------------------------------------------------
(* main(): which operation the arguments ask for. *)

\* getopt: --wipe_data also sets wipe_cache.
WipesCache(args) == args \cap {"wipe_data", "wipe_cache"} # {}

EraseRoot(v, ret) == victim' = v /\ opRet' = ret /\ pc' = "erase"

Dispatch ==
    /\ pc = "dispatch"
    /\ \/ /\ "socket_server" \in argv
          /\ EraseRoot("cache", "finish_socket")
          /\ UNCHANGED status
       \/ /\ "socket_server" \notin argv /\ "update_package" \in argv
          /\ pc' = "install" /\ opRet' = "check_status"
          /\ UNCHANGED <<victim, status>>
       \/ /\ argv \cap {"socket_server", "update_package"} = {}
          /\ "wipe_data" \in argv
          /\ EraseRoot("data", "check_status")
          /\ UNCHANGED status
       \/ /\ argv \cap {"socket_server", "update_package", "wipe_data"} = {}
          /\ WipesCache(argv)
          /\ EraseRoot("cache", "check_status")
          /\ UNCHANGED status
       \/ /\ argv \subseteq {"send_intent"}
          /\ status' = "error"
          /\ pc' = "check_status"
          /\ UNCHANGED <<victim, opRet>>
    /\ UNCHANGED <<argv, visible, finRet, miscRet, promptRet, server,
                   bcb, cacheFiles, partitions, mishaps>>

-----------------------------------------------------------------------------
(* erase_root() / format_root_device(), and install_package(). *)

\* On whose behalf the operation that is starting runs.
Caller == IF opRet = "menu_done" THEN "menu" ELSE "command"

\* Mutant: --wipe_data does not imply --wipe_cache.
AfterErase_DataOnly == victim' = victim /\ pc' = opRet

\* wipe_data() and main() erase DATA:, then CACHE:.
AfterErase ==
    IF victim = "data" THEN victim' = "cache" /\ pc' = "erase"
                       ELSE victim' = victim /\ pc' = opRet

\* mtd_erase_blocks() is under way; erased blocks of /cache may hold its files.
EraseBegin ==
    /\ pc = "erase"
    /\ pc' = "erasing"
    /\ image' = [image EXCEPT ![victim] = "partial"]
    /\ owner' = [owner EXCEPT ![victim] = Caller]
    /\ IF victim = "cache"
         THEN /\ cmdFile' \in {cmdFile, {}}
              /\ package' \in {package, FALSE}
              /\ intent' \in {intent, FALSE}
         ELSE UNCHANGED cmdFile /\ UNCHANGED package /\ UNCHANGED intent
    /\ UNCHANGED <<volatile, bcb, wipeOwed, mishaps>>

EraseEnd ==
    /\ pc = "erasing"
    /\ AfterErase
    /\ image' = [image EXCEPT ![victim] = "empty"]
    /\ wipeOwed' = (wipeOwed /\ victim # "data")
    /\ IF victim = "cache"
         THEN cmdFile' = {} /\ package' = FALSE /\ intent' = FALSE
         ELSE UNCHANGED cmdFile /\ UNCHANGED package /\ UNCHANGED intent
    /\ UNCHANGED <<argv, status, visible, opRet, finRet, miscRet, promptRet, server,
                   bcb, owner, mishaps>>

\* The root cannot be unmounted or opened: nothing is erased.  Only the branches of
\* main() that run a command look at the result.
EraseRefused ==
    /\ pc = "erase"
    /\ Fault
    /\ AfterErase
    /\ status' = IF opRet = "check_status" THEN "error" ELSE status
    /\ UNCHANGED <<argv, visible, opRet, finRet, miscRet, promptRet, server,
                   bcb, cacheFiles, partitions>>

\* A block that cannot be erased is only logged: format_root_device() succeeds.
EraseIncomplete ==
    /\ pc = "erasing"
    /\ Fault
    /\ AfterErase
    /\ UNCHANGED <<argv, status, visible, opRet, finRet, miscRet, promptRet, server,
                   bcb, cacheFiles, partitions>>

\* Where install_package() returns, by its result.
AfterInstall(ok) ==
    IF opRet = "check_status"
      THEN pc' = "check_status" /\ status' = IF ok THEN status ELSE "error"
      ELSE pc' = (IF ok THEN "menu_done" ELSE "prompt") /\ UNCHANGED status

\* An install that fails is reported, and the command is over.
GivenUp(v) ==
    [owner EXCEPT ![v] = IF image[v] = "partial" /\ @ # "both" THEN "failed" ELSE @]

\* The package is missing or cannot be opened, or holds no update binary.
InstallRejected ==
    /\ pc = "install"
    /\ AfterInstall(FALSE)
    /\ owner' = GivenUp("system")
    /\ UNCHANGED <<argv, visible, callFrames, server, bcb, cacheFiles, image, wipeOwed,
                   mishaps>>

\* Two update binaries at once may leave a whole system or not.
Installed == IF owner["system"] = "both" THEN {"whole", "partial"} ELSE {"whole"}

\* The update binary is running.  The commanded package is on /cache, the menu's on
\* the SD card.
InstallBegin ==
    /\ pc = "install"
    /\ opRet = "check_status" => package
    /\ pc' = "installing"
    /\ image' = [image EXCEPT !["system"] = "partial"]
    /\ owner' = [owner EXCEPT !["system"] =
                    IF server = "installing" THEN "both" ELSE Caller]
    /\ UNCHANGED <<volatile, bcb, cacheFiles, wipeOwed, mishaps>>

\* It exits.
InstallEnd ==
    /\ pc = "installing"
    /\ \/ /\ AfterInstall(TRUE)
          /\ \E s \in Installed : image' = [image EXCEPT !["system"] = s]
          /\ UNCHANGED owner
       \/ /\ AfterInstall(FALSE)
          /\ owner' = GivenUp("system")
          /\ UNCHANGED image
    /\ UNCHANGED <<argv, visible, callFrames, server, bcb, cacheFiles, wipeOwed, mishaps>>

-----------------------------------------------------------------------------
(* finish_recovery(): intent, log, BCB, command file. *)

\* Mutant: control comes back to the call, not to what follows it.
FinishRecovery_Repeats(ret) ==
    /\ finRet' = pc
    /\ miscRet' = "finish_unlink"
    /\ pc' = "misc_erase"

\* Mutant: the last call does not pass the intent either.
FinishRecovery_NoIntent(ret) ==
    /\ finRet' = ret
    /\ miscRet' = "finish_unlink"
    /\ pc' = "misc_erase"

\* prompt_and_wait() passes no intent.
FinishRecovery(ret) ==
    /\ finRet' = ret
    /\ miscRet' = "finish_unlink"
    /\ pc' = IF ret # "menu" /\ "send_intent" \in argv
               THEN "finish_intent" ELSE "misc_erase"

FinishIntent ==
    /\ pc = "finish_intent"
    /\ pc' = "misc_erase"
    /\ \/ intent' = TRUE /\ NoFault
       \/ intent' = intent /\ Fault
    /\ UNCHANGED <<volatile, bcb, cmdFile, package, partitions>>

\* Mutant: the command file is left behind.
FinishUnlink_Keeps ==
    /\ pc = "finish_unlink"
    /\ pc' = finRet
    /\ UNCHANGED <<volatile, bcb, cacheFiles, partitions, mishaps>>

FinishUnlink ==
    /\ pc = "finish_unlink"
    /\ pc' = finRet
    /\ \/ cmdFile' = {} /\ NoFault
       \/ cmdFile' = cmdFile /\ Fault
    /\ UNCHANGED <<volatile, bcb, package, intent, partitions>>

\* The three calls: after the socket branch's erase, in every round of the menu, and
\* before the final reboot.
CallsFinish ==
    /\ \/ pc = "finish_socket" /\ FinishRecovery("init_server")
       \/ pc = "prompt" /\ FinishRecovery("menu")
       \/ pc = "exit" /\ FinishRecovery("reboot")
    /\ UNCHANGED <<argv, status, visible, victim, opRet, promptRet, server,
                   bcb, cacheFiles, partitions, mishaps>>

-----------------------------------------------------------------------------
(* The end of main(), and prompt_and_wait(). *)

Prompt(ret) == promptRet' = ret /\ pc' = "prompt"

CheckStatus ==
    /\ pc = "check_status"
    /\ IF status # "success" \/ visible
         THEN Prompt("exit")
         ELSE pc' = "exit" /\ UNCHANGED promptRet
    /\ UNCHANGED <<argv, status, visible, victim, opRet, finRet, miscRet, server,
                   bcb, cacheFiles, partitions, mishaps>>

\* reboot(RB_AUTOBOOT)
Reboot ==
    /\ pc = "reboot"
    /\ PowerOff
    /\ UNCHANGED <<bcb, cacheFiles, partitions, mishaps>>

\* The key that selects an item counts only while the text is shown.  Item 3 of
\* MENU_ITEMS is ITEM_WIPE_CACHE; no item has the number of ITEM_UPDATE_SYSTEM.
MenuReboot ==
    /\ pc = "menu" /\ visible
    /\ pc' = promptRet
    /\ UNCHANGED <<volatile, bcb, cacheFiles, partitions, mishaps>>

MenuSdcard ==
    /\ pc = "menu" /\ visible
    /\ pc' = "misc_erase" /\ miscRet' = "install" /\ opRet' = "menu_done"
    /\ UNCHANGED <<argv, status, visible, victim, finRet, promptRet, server,
                   bcb, cacheFiles, partitions, mishaps>>

MenuWipeData ==
    /\ pc = "menu" /\ visible
    /\ pc' = "menu_wipe"
    /\ UNCHANGED <<volatile, bcb, cacheFiles, partitions, mishaps>>

MenuWipeCache ==
    /\ pc = "menu" /\ visible
    /\ EraseRoot("cache", "menu_done")
    /\ UNCHANGED <<argv, status, visible, finRet, miscRet, promptRet, server,
                   bcb, cacheFiles, partitions, mishaps>>

\* wipe_data(ui_text_visible()): the text may have been hidden since the key was read.
WipeData ==
    /\ \/ pc = "menu_wipe" /\ visible /\ pc' = "confirm" /\ UNCHANGED <<victim, opRet>>
       \/ pc = "menu_wipe" /\ ~visible /\ EraseRoot("data", "menu_done")
       \/ pc = "confirm" /\ visible /\ EraseRoot("data", "menu_done")
       \/ pc = "confirm" /\ visible /\ pc' = "menu_done" /\ UNCHANGED <<victim, opRet>>
    /\ UNCHANGED <<argv, status, visible, finRet, miscRet, promptRet, server,
                   bcb, cacheFiles, partitions, mishaps>>

\* if (!ui_text_visible()) return;
MenuDone ==
    /\ pc = "menu_done"
    /\ pc' = IF visible THEN "prompt" ELSE promptRet
    /\ UNCHANGED <<volatile, bcb, cacheFiles, partitions, mishaps>>

\* The input thread sees KEY_HOME.
ToggleText ==
    /\ InRecovery
    /\ visible' = ~visible
    /\ UNCHANGED <<pc, argv, status, callFrames, server, bcb, cacheFiles, partitions,
                   mishaps>>

-----------------------------------------------------------------------------
(* The thread of socket_server.c, started by the --socket_server branch. *)

InitServer ==
    /\ pc = "init_server"
    /\ Prompt("check_status")
    /\ \/ server' = "starting" /\ UNCHANGED status /\ NoFault
       \/ server' = "none" /\ status' = "error" /\ Fault
    /\ UNCHANGED <<argv, visible, victim, opRet, finRet, miscRet, bcb, cacheFiles,
                   partitions>>

\* main() is not affected.
SameProcess ==
    /\ UNCHANGED pc /\ UNCHANGED argv /\ UNCHANGED status /\ UNCHANGED visible
    /\ UNCHANGED victim /\ UNCHANGED opRet /\ UNCHANGED finRet /\ UNCHANGED miscRet
    /\ UNCHANGED promptRet

\* bind and listen.  When bind fails the process exits, and init starts it again.
ServerListens ==
    /\ server = "starting"
    /\ \/ server' = "listening" /\ SameProcess /\ NoFault
       \/ server' = "none" /\ SameProcess /\ Fault
       \/ pc' = "get_args" /\ FreshProcess /\ Fault
    /\ UNCHANGED <<bcb, cacheFiles, partitions>>

\* INSTALL: install_package() in this thread, whatever main() is doing.
SocketInstallBegin ==
    /\ server = "listening"
    /\ server' = "installing"
    /\ image' = [image EXCEPT !["system"] = "partial"]
    /\ owner' = [owner EXCEPT !["system"] =
                    IF pc = "installing" THEN "both" ELSE "socket"]
    /\ UNCHANGED <<pc, argv, status, visible, callFrames, bcb, cacheFiles, wipeOwed, mishaps>>

SocketInstallEnd ==
    /\ server = "installing"
    /\ server' = "listening"
    /\ \/ /\ \E s \in Installed : image' = [image EXCEPT !["system"] = s]
          /\ UNCHANGED owner
       \/ owner' = GivenUp("system") /\ UNCHANGED image
    /\ UNCHANGED <<pc, argv, status, visible, callFrames, bcb, cacheFiles, wipeOwed, mishaps>>

\* REBOOT: no finish_recovery().
SocketReboot ==
    /\ server = "listening"
    /\ pc = "misc_write" => TornWrites
    /\ torn' = (torn \/ pc = "misc_write")
    /\ PowerOff
    /\ UNCHANGED <<bcb, cacheFiles, partitions, crashes, faults>>

-----------------------------------------------------------------------------
(* The specification. *)

\* The steps main() takes by itself.
MainStep ==
    \/ GetArgs \/ MiscErase \/ MiscWrite \/ Dispatch
    \/ EraseBegin \/ EraseEnd \/ EraseRefused \/ EraseIncomplete
    \/ InstallRejected \/ InstallBegin \/ InstallEnd
    \/ FinishIntent \/ FinishUnlink \/ CallsFinish
    \/ CheckStatus \/ MenuDone \/ InitServer \/ Reboot

MenuStep == MenuReboot \/ MenuSdcard \/ MenuWipeData \/ MenuWipeCache \/ WipeData

ServerStep == ServerListens \/ SocketInstallBegin \/ SocketInstallEnd \/ SocketReboot

Environment ==
    \/ \E c \in Commands : WriteCommand(c)
    \/ SystemReboot \/ BootsRecovery \/ BootsSystem \/ PowerLoss \/ ToggleText

Next == MainStep \/ MenuStep \/ ServerStep \/ Environment

Spec == Init /\ [][Next]_vars

\* The processor runs; the bootloader boots; a user at the menu ends up looking at it
\* and choosing to reboot, and does not hold the recovery key at every boot.
Fairness ==
    /\ WF_vars(MainStep)
    /\ WF_vars(BootsRecovery \/ BootsSystem)
    /\ SF_vars(BootsSystem)
    /\ WF_vars(ToggleText /\ ~visible)
    /\ SF_vars(MenuReboot)
    /\ SF_vars(WipeData)

FairSpec == Spec /\ Fairness

-----------------------------------------------------------------------------
(* Properties. *)

ProcessTypeOK ==
    /\ pc \in Labels \cup {"off", "system"}
    /\ argv \subseteq Options
    /\ status \in {"success", "error"}
    /\ visible \in BOOLEAN
    /\ victim \in {"data", "cache"}
    /\ opRet \in {"check_status", "finish_socket", "menu_done"}
    /\ finRet \in {"init_server", "menu", "reboot"}
    /\ miscRet \in {"dispatch", "install", "finish_unlink"}
    /\ promptRet \in {"check_status", "exit"}
    /\ server \in {"none", "starting", "listening", "installing"}

MiscTypeOK == bcb \in [boot : BOOLEAN, args : SUBSET Options]

CacheTypeOK == cmdFile \subseteq Options /\ package \in BOOLEAN /\ intent \in BOOLEAN

PartitionTypeOK ==
    /\ image \in [Volumes -> {"whole", "partial", "empty"}]
    /\ owner \in [Volumes -> {"none", "command", "menu", "socket", "both", "failed"}]
    /\ wipeOwed \in BOOLEAN

MishapTypeOK ==
    crashes \in 0..MaxCrashes /\ faults \in 0..MaxFaults /\ torn \in BOOLEAN

\* The types of the variables of main(), of the BCB, of the files and of the partitions.
TypeOK == ProcessTypeOK /\ MiscTypeOK /\ CacheTypeOK /\ PartitionTypeOK /\ MishapTypeOK

\* The flash and /cache have worked so far, and no rewrite of the BCB was cut short.
Clean == faults = 0 /\ ~torn

\* Would a run of main() with these arguments do the work on v again?
Redoes(args, v) ==
    CASE v = "cache"  -> \/ "socket_server" \in args
                         \/ "update_package" \notin args /\ WipesCache(args)
      [] v = "data"   -> /\ args \cap {"socket_server", "update_package"} = {}
                         /\ "wipe_data" \in args
      [] v = "system" -> /\ "socket_server" \notin args /\ "update_package" \in args
                         /\ package

\* "After this, rebooting will restart the erase" (and the install): as long as a
\* commanded erase or install has left a partition half done, power may be lost at
\* every point and the next boot enters recovery, with arguments that do it again.
RestartsWork ==
    \A v \in Volumes :
        /\ Clean /\ pc # "misc_write"
        /\ image[v] = "partial" /\ owner[v] = "command"
        => bcb.boot /\ Redoes(Arguments(bcb, cmdFile), v)

\* Whenever finish_recovery() has returned (at the menu, where the user may pull the
\* battery, and before the reboot), a restart goes to the main system and no command
\* is left for the next recovery run.
FinishedIsClear ==
    Clean /\ pc \in {"init_server", "menu", "menu_wipe", "confirm", "reboot"}
        => bcb = Blank /\ cmdFile = {}

\* No factory reset that was already carried out is waiting, as a stale command file,
\* for the next time the device enters recovery from the main system.
NoUnaskedWipe ==
    Clean /\ pc = "system" /\ "wipe_data" \in cmdFile => wipeOwed

\* The intent the main system asked to get back is on /cache when recovery reboots,
\* whatever was wiped from the menu in between.
IntentReported ==
    Clean /\ pc = "reboot" /\ "send_intent" \in argv => intent

\* Recovery does not cycle: whatever the command, and after every power loss, the
\* device gets back to the main system.
RecoveryEnds == InRecovery ~> pc = "system"

\* A commanded erase or install that has begun is finished, or reported as failed,
\* across power losses.
WorkIsFinished ==
    \A v \in Volumes :
        image[v] = "partial" /\ owner[v] = "command"
            ~> image[v] # "partial" \/ owner[v] = "failed"

\* The header of recovery.c without its silent premise that the BCB is rewritten
\* atomically: once an erase of user data was commanded and has begun, the main system
\* never runs on what it left half done.
EraseAlwaysRestarts ==
    pc = "system" /\ owner["data"] = "command" => image["data"] # "partial"
=============================================================================
