--------------------------- MODULE RecoveryProofs ---------------------------
(***************************************************************************)
(* For every set of commands, every command line in init.rc and any number *)
(* of power losses: the variables keep their types, a commanded erase or   *)
(* install that was interrupted is restarted by the next boot, and         *)
(* finish_recovery() leaves nothing to repeat, no stale factory reset, and *)
(* the intent.                                                             *)
(***************************************************************************)
EXTENDS Recovery, TLAPS

-----------------------------------------------------------------------------
(* The inductive invariant. *)

\* Where main() can be while a commanded erase or install is half done.
Working ==
    {"off", "get_args", "misc_erase", "misc_write", "dispatch",
     "erase", "erasing", "install", "installing"}

Unfinished(v) == image[v] = "partial" /\ owner[v] = "command"

\* The arguments on the command line win.
ArgsInv == InRecovery /\ pc # "get_args" /\ CmdLine # {} => argv = CmdLine

\* Once get_args() is done, the BCB repeats what main() is doing.
BcbInv ==
    Clean => /\ pc = "dispatch" => bcb = BootRecovery(argv)
             /\ pc \in {"erase", "erasing"} /\ opRet # "menu_done"
                  => bcb = BootRecovery(argv) /\ Redoes(argv, victim)
             /\ pc \in {"install", "installing"} /\ opRet # "menu_done"
                  => /\ bcb = BootRecovery(argv)
                     /\ "socket_server" \notin argv /\ "update_package" \in argv
             /\ pc = "installing" /\ opRet # "menu_done" => package

\* The SD card install is the menu's; finish_recovery() writes the intent and the BCB.
MenuInv ==
    /\ pc \in {"misc_erase", "misc_write"} /\ miscRet = "install" => opRet = "menu_done"
    /\ pc \in {"install", "installing"} => opRet # "finish_socket"
    /\ pc = "finish_intent" => miscRet = "finish_unlink"

\* DATA: is done before CACHE: is begun.
OrderInv ==
    Clean /\ pc \in {"erase", "erasing"} /\ victim = "cache" /\ opRet # "menu_done"
        => ~Unfinished("data")

\* Work that is unfinished is being restarted, and main() has the arguments for it.
Work(v) ==
    Clean /\ Unfinished(v)
    => /\ pc \in Working
       /\ pc # "misc_write" => bcb.boot /\ Redoes(Arguments(bcb, cmdFile), v)
       /\ pc \in {"misc_erase", "misc_write"} => miscRet = "dispatch"
       /\ pc \notin {"off", "get_args"} => Redoes(argv, v)
       /\ pc \in {"erase", "erasing", "install", "installing"} => opRet # "menu_done"

WorkInv == \A v \in Volumes : Work(v)

IInv == TypeOK /\ ArgsInv /\ BcbInv /\ MenuInv /\ OrderInv /\ WorkInv

-----------------------------------------------------------------------------
(* Type correctness. *)

\* Whatever source the options come from, they are options.
LEMMA ArgumentsType ==
    ASSUME NEW m, m.args \subseteq Options, NEW f, f \subseteq Options
    PROVE  Arguments(m, f) \subseteq Options
  BY RecoveryAssumption DEF Arguments

\* get_args() finds nothing but options.
LEMMA GetArgsType == ASSUME TypeOK, GetArgs PROVE argv' \subseteq Options
<1>1. bcb.args \subseteq Options /\ cmdFile \subseteq Options
  BY DEF TypeOK, MiscTypeOK, CacheTypeOK
<1>2. Blank.args \subseteq Options
  BY DEF Blank
<1>3. argv' \in {Arguments(bcb, cmdFile), Arguments(Blank, cmdFile), Arguments(bcb, {})}
  BY DEF GetArgs
<1> QED
  BY <1>1, <1>2, <1>3, ArgumentsType

\* Every step of the program, of its threads and of its environment keeps the types.
LEMMA TypeStep == TypeOK /\ [Next]_vars => TypeOK'
<1> SUFFICES ASSUME TypeOK, [Next]_vars PROVE TypeOK'
  OBVIOUS
<1> USE RecoveryAssumption DEF TypeOK, ProcessTypeOK, MiscTypeOK, CacheTypeOK,
        PartitionTypeOK, MishapTypeOK, Labels, Volumes, Options, volatile, callFrames,
        cacheFiles, partitions, mishaps
<1>1. CASE GetArgs
  <2>1. ProcessTypeOK'
    BY <1>1, GetArgsType DEF GetArgs
  <2>2. MiscTypeOK'
    BY <1>1 DEF GetArgs
  <2>3. CacheTypeOK'
    BY <1>1 DEF GetArgs
  <2>4. PartitionTypeOK'
    BY <1>1 DEF GetArgs
  <2>5. MishapTypeOK'
    BY <1>1 DEF GetArgs, Fault, NoFault
  <2> QED
    BY <2>1, <2>2, <2>3, <2>4, <2>5
<1>2. CASE MiscErase
  <2>1. ProcessTypeOK'
    BY <1>2 DEF MiscErase, Blank, Fault, NoFault
  <2>a. Blank \in [boot : BOOLEAN, args : SUBSET Options]
    BY DEF Blank
  <2>2. MiscTypeOK'
    BY <1>2, <2>a DEF MiscErase
  <2>3. CacheTypeOK'
    BY <1>2 DEF MiscErase, Blank, Fault, NoFault
  <2>4. PartitionTypeOK'
    BY <1>2 DEF MiscErase, Blank, Fault, NoFault
  <2>5. MishapTypeOK'
    BY <1>2 DEF MiscErase, Blank, Fault, NoFault
  <2> QED
    BY <2>1, <2>2, <2>3, <2>4, <2>5
<1>3. CASE MiscWrite
  <2>1. ProcessTypeOK'
    BY <1>3 DEF MiscWrite, Message, BootRecovery, Blank, Fault, NoFault
  <2>a. Message \in [boot : BOOLEAN, args : SUBSET Options]
    BY DEF Message, BootRecovery, Blank
  <2>2. MiscTypeOK'
    BY <1>3, <2>a DEF MiscWrite
  <2>3. CacheTypeOK'
    BY <1>3 DEF MiscWrite, Message, BootRecovery, Blank, Fault, NoFault
  <2>4. PartitionTypeOK'
    BY <1>3 DEF MiscWrite, Message, BootRecovery, Blank, Fault, NoFault
  <2>5. MishapTypeOK'
    BY <1>3 DEF MiscWrite, Message, BootRecovery, Blank, Fault, NoFault
  <2> QED
    BY <2>1, <2>2, <2>3, <2>4, <2>5
<1>4. CASE Dispatch
  BY <1>4 DEF Dispatch, EraseRoot
<1>5. CASE EraseBegin
  <2>1. ProcessTypeOK'
    BY <1>5 DEF EraseBegin, Caller
  <2>2. MiscTypeOK'
    BY <1>5 DEF EraseBegin, Caller
  <2>3. CacheTypeOK'
    BY <1>5, Zenon DEF EraseBegin, Caller
  <2>4. PartitionTypeOK'
    BY <1>5 DEF EraseBegin, Caller
  <2>5. MishapTypeOK'
    BY <1>5 DEF EraseBegin, Caller
  <2> QED
    BY <2>1, <2>2, <2>3, <2>4, <2>5
<1>6. CASE EraseEnd
  <2>1. ProcessTypeOK'
    BY <1>6 DEF EraseEnd, AfterErase
  <2>2. MiscTypeOK'
    BY <1>6 DEF EraseEnd, AfterErase
  <2>3. CacheTypeOK'
    BY <1>6, Zenon DEF EraseEnd, AfterErase
  <2>4. PartitionTypeOK'
    BY <1>6 DEF EraseEnd, AfterErase
  <2>5. MishapTypeOK'
    BY <1>6 DEF EraseEnd, AfterErase
  <2> QED
    BY <2>1, <2>2, <2>3, <2>4, <2>5
<1>7. CASE EraseRefused
  BY <1>7 DEF EraseRefused, AfterErase, Fault, NoFault
<1>8. CASE EraseIncomplete
  BY <1>8 DEF EraseIncomplete, AfterErase, Fault, NoFault
<1>9. CASE InstallRejected
  BY <1>9 DEF InstallRejected, AfterInstall, GivenUp
<1>10. CASE InstallBegin
  BY <1>10 DEF InstallBegin, Caller
<1>11. CASE InstallEnd
  BY <1>11 DEF InstallEnd, AfterInstall, GivenUp, Installed
<1>12. CASE FinishIntent
  <2>1. ProcessTypeOK'
    BY <1>12 DEF FinishIntent, Fault, NoFault
  <2>2. MiscTypeOK'
    BY <1>12 DEF FinishIntent, Fault, NoFault
  <2>3. CacheTypeOK'
    BY <1>12, Zenon DEF FinishIntent, Fault, NoFault
  <2>4. PartitionTypeOK'
    BY <1>12 DEF FinishIntent, Fault, NoFault
  <2>5. MishapTypeOK'
    BY <1>12 DEF FinishIntent, Fault, NoFault
  <2> QED
    BY <2>1, <2>2, <2>3, <2>4, <2>5
<1>13. CASE FinishUnlink
  <2>1. ProcessTypeOK'
    BY <1>13 DEF FinishUnlink, Fault, NoFault
  <2>2. MiscTypeOK'
    BY <1>13 DEF FinishUnlink, Fault, NoFault
  <2>3. CacheTypeOK'
    BY <1>13, Zenon DEF FinishUnlink, Fault, NoFault
  <2>4. PartitionTypeOK'
    BY <1>13 DEF FinishUnlink, Fault, NoFault
  <2>5. MishapTypeOK'
    BY <1>13 DEF FinishUnlink, Fault, NoFault
  <2> QED
    BY <2>1, <2>2, <2>3, <2>4, <2>5
<1>14. CASE CallsFinish
  BY <1>14 DEF CallsFinish, FinishRecovery
<1>15. CASE CheckStatus
  BY <1>15 DEF CheckStatus, Prompt
<1>16. CASE MenuDone
  BY <1>16 DEF MenuDone
<1>17. CASE InitServer
  BY <1>17 DEF InitServer, Prompt, Fault, NoFault
<1>18. CASE Reboot
  BY <1>18 DEF Reboot, PowerOff, FreshProcess
<1>19. CASE MenuReboot
  BY <1>19 DEF MenuReboot
<1>20. CASE MenuSdcard
  BY <1>20 DEF MenuSdcard
<1>21. CASE MenuWipeData
  BY <1>21 DEF MenuWipeData
<1>22. CASE MenuWipeCache
  BY <1>22 DEF MenuWipeCache, EraseRoot
<1>23. CASE WipeData
  BY <1>23 DEF WipeData, EraseRoot
<1>24. CASE ServerListens
  <2>a. SameProcess /\ server' \in {"listening", "none"} => ProcessTypeOK'
    BY DEF SameProcess
  <2>b. FreshProcess /\ pc' = "get_args" => ProcessTypeOK'
    BY DEF FreshProcess
  <2>1. ProcessTypeOK'
    BY <1>24, <2>a, <2>b DEF ServerListens
  <2>2. MiscTypeOK'
    BY <1>24 DEF ServerListens, SameProcess, FreshProcess, Fault, NoFault
  <2>3. CacheTypeOK'
    BY <1>24 DEF ServerListens, SameProcess, FreshProcess, Fault, NoFault
  <2>4. PartitionTypeOK'
    BY <1>24 DEF ServerListens, SameProcess, FreshProcess, Fault, NoFault
  <2>5. MishapTypeOK'
    BY <1>24 DEF ServerListens, SameProcess, FreshProcess, Fault, NoFault
  <2> QED
    BY <2>1, <2>2, <2>3, <2>4, <2>5
<1>25. CASE SocketInstallBegin
  BY <1>25 DEF SocketInstallBegin
<1>26. CASE SocketInstallEnd
  BY <1>26 DEF SocketInstallEnd, GivenUp, Installed
<1>27. CASE SocketReboot
  BY <1>27 DEF SocketReboot, PowerOff, FreshProcess
<1>28. CASE SystemReboot
  BY <1>28 DEF SystemReboot, PowerOff, FreshProcess
<1>29. CASE BootsRecovery
  BY <1>29 DEF BootsRecovery
<1>30. CASE BootsSystem
  BY <1>30 DEF BootsSystem
<1>31. CASE PowerLoss
  BY <1>31 DEF PowerLoss, PowerOff, FreshProcess
<1>32. CASE ToggleText
  BY <1>32 DEF ToggleText, InRecovery
<1>33. ASSUME NEW c \in Commands, WriteCommand(c) PROVE TypeOK'
  BY <1>33 DEF WriteCommand
<1>34. CASE UNCHANGED vars
  BY <1>34 DEF vars
<1> QED
  BY <1>1, <1>2, <1>3, <1>4, <1>5, <1>6, <1>7, <1>8, <1>9, <1>10, <1>11, <1>12,
     <1>13, <1>14, <1>15, <1>16, <1>17, <1>18, <1>19, <1>20, <1>21, <1>22,
     <1>23, <1>24, <1>25, <1>26, <1>27, <1>28, <1>29, <1>30, <1>31, <1>32,
     <1>33, <1>34, Zenon DEF Next, MainStep, MenuStep, ServerStep, Environment

-----------------------------------------------------------------------------
(* Restarting unfinished work. *)

\* An I/O error ends the claim.
LEMMA FaultIsUnclean == TypeOK /\ Fault => ~Clean'
  BY RecoveryAssumption DEF TypeOK, MishapTypeOK, Fault, Clean

\* Only get_args() sets argv.
LEMMA ArgsStep == IInv /\ [Next]_vars => ArgsInv'
<1> SUFFICES ASSUME IInv, [Next]_vars PROVE ArgsInv'
  OBVIOUS
<1> USE DEF IInv, ArgsInv, InRecovery, Labels, volatile, callFrames, cacheFiles, partitions,
        mishaps
<1>1. CASE GetArgs
  BY <1>1 DEF GetArgs, Arguments, NoFault
<1>2. CASE MiscErase
  BY <1>2 DEF MiscErase, Blank, NoFault
<1>3. CASE MiscWrite
  BY <1>3 DEF MiscWrite, Message, BootRecovery, Blank, NoFault
<1>4. CASE Dispatch
  BY <1>4 DEF Dispatch, EraseRoot
<1>5. CASE EraseBegin
  BY <1>5 DEF EraseBegin, Caller
<1>6. CASE EraseEnd
  BY <1>6 DEF EraseEnd, AfterErase
<1>7. CASE EraseRefused
  BY <1>7 DEF EraseRefused, AfterErase
<1>8. CASE EraseIncomplete
  BY <1>8 DEF EraseIncomplete, AfterErase
<1>9. CASE InstallRejected
  BY <1>9 DEF InstallRejected, AfterInstall, GivenUp
<1>10. CASE InstallBegin
  BY <1>10 DEF InstallBegin, Caller
<1>11. CASE InstallEnd
  BY <1>11 DEF InstallEnd, AfterInstall, GivenUp, Installed
<1>12. CASE FinishIntent
  BY <1>12 DEF FinishIntent, NoFault
<1>13. CASE FinishUnlink
  BY <1>13 DEF FinishUnlink, NoFault
<1>14. CASE CallsFinish
  BY <1>14 DEF CallsFinish, FinishRecovery
<1>15. CASE CheckStatus
  BY <1>15 DEF CheckStatus, Prompt
<1>16. CASE MenuDone
  BY <1>16 DEF MenuDone
<1>17. CASE InitServer
  BY <1>17 DEF InitServer, Prompt, NoFault
<1>18. CASE Reboot
  BY <1>18 DEF Reboot, PowerOff, FreshProcess
<1>19. CASE MenuReboot
  BY <1>19 DEF MenuReboot
<1>20. CASE MenuSdcard
  BY <1>20 DEF MenuSdcard
<1>21. CASE MenuWipeData
  BY <1>21 DEF MenuWipeData
<1>22. CASE MenuWipeCache
  BY <1>22 DEF MenuWipeCache, EraseRoot
<1>23. CASE WipeData
  BY <1>23 DEF WipeData, EraseRoot
<1>24. CASE ServerListens
  BY <1>24 DEF ServerListens, SameProcess, NoFault
<1>25. CASE SocketInstallBegin
  BY <1>25 DEF SocketInstallBegin
<1>26. CASE SocketInstallEnd
  BY <1>26 DEF SocketInstallEnd, GivenUp, Installed
<1>27. CASE SocketReboot
  BY <1>27 DEF SocketReboot, PowerOff, FreshProcess
<1>28. CASE SystemReboot
  BY <1>28 DEF SystemReboot, PowerOff, FreshProcess
<1>29. CASE BootsRecovery
  BY <1>29 DEF BootsRecovery
<1>30. CASE BootsSystem
  BY <1>30 DEF BootsSystem
<1>31. CASE PowerLoss
  BY <1>31 DEF PowerLoss, PowerOff, FreshProcess
<1>32. CASE ToggleText
  BY <1>32 DEF ToggleText, InRecovery
<1>33. ASSUME NEW c \in Commands, WriteCommand(c) PROVE ArgsInv'
  BY <1>33 DEF WriteCommand
<1>34. CASE UNCHANGED vars
  BY <1>34 DEF vars
<1> QED
  BY <1>1, <1>2, <1>3, <1>4, <1>5, <1>6, <1>7, <1>8, <1>9, <1>10, <1>11, <1>12,
     <1>13, <1>14, <1>15, <1>16, <1>17, <1>18, <1>19, <1>20, <1>21, <1>22,
     <1>23, <1>24, <1>25, <1>26, <1>27, <1>28, <1>29, <1>30, <1>31, <1>32,
     <1>33, <1>34 DEF Next, MainStep, MenuStep, ServerStep, Environment

\* install_package() is called by main() for a command and by the menu for the SD card.
LEMMA MenuInvStep == IInv /\ [Next]_vars => MenuInv'
<1> SUFFICES ASSUME IInv, [Next]_vars PROVE MenuInv'
  OBVIOUS
<1> USE DEF IInv, MenuInv, TypeOK, ProcessTypeOK, volatile, callFrames, cacheFiles, partitions,
        mishaps
<1>1. CASE GetArgs
  BY <1>1 DEF GetArgs, Arguments, NoFault
<1>2. CASE MiscErase
  BY <1>2 DEF MiscErase, Blank, NoFault
<1>3. CASE MiscWrite
  BY <1>3 DEF MiscWrite, Message, BootRecovery, Blank, NoFault
<1>4. CASE Dispatch
  BY <1>4 DEF Dispatch, EraseRoot
<1>5. CASE EraseBegin
  BY <1>5 DEF EraseBegin, Caller
<1>6. CASE EraseEnd
  BY <1>6 DEF EraseEnd, AfterErase
<1>7. CASE EraseRefused
  BY <1>7 DEF EraseRefused, AfterErase
<1>8. CASE EraseIncomplete
  BY <1>8 DEF EraseIncomplete, AfterErase
<1>9. CASE InstallRejected
  BY <1>9 DEF InstallRejected, AfterInstall, GivenUp
<1>10. CASE InstallBegin
  BY <1>10 DEF InstallBegin, Caller
<1>11. CASE InstallEnd
  BY <1>11 DEF InstallEnd, AfterInstall, GivenUp, Installed
<1>12. CASE FinishIntent
  BY <1>12 DEF FinishIntent, NoFault
<1>13. CASE FinishUnlink
  BY <1>13 DEF FinishUnlink, NoFault
<1>14. CASE CallsFinish
  BY <1>14 DEF CallsFinish, FinishRecovery
<1>15. CASE CheckStatus
  BY <1>15 DEF CheckStatus, Prompt
<1>16. CASE MenuDone
  BY <1>16 DEF MenuDone
<1>17. CASE InitServer
  BY <1>17 DEF InitServer, Prompt, NoFault
<1>18. CASE Reboot
  BY <1>18 DEF Reboot, PowerOff, FreshProcess
<1>19. CASE MenuReboot
  BY <1>19 DEF MenuReboot
<1>20. CASE MenuSdcard
  BY <1>20 DEF MenuSdcard
<1>21. CASE MenuWipeData
  BY <1>21 DEF MenuWipeData
<1>22. CASE MenuWipeCache
  BY <1>22 DEF MenuWipeCache, EraseRoot
<1>23. CASE WipeData
  BY <1>23 DEF WipeData, EraseRoot
<1>24. CASE ServerListens
  BY <1>24 DEF ServerListens, SameProcess, NoFault
<1>25. CASE SocketInstallBegin
  BY <1>25 DEF SocketInstallBegin
<1>26. CASE SocketInstallEnd
  BY <1>26 DEF SocketInstallEnd, GivenUp, Installed
<1>27. CASE SocketReboot
  BY <1>27 DEF SocketReboot, PowerOff, FreshProcess
<1>28. CASE SystemReboot
  BY <1>28 DEF SystemReboot, PowerOff, FreshProcess
<1>29. CASE BootsRecovery
  BY <1>29 DEF BootsRecovery
<1>30. CASE BootsSystem
  BY <1>30 DEF BootsSystem
<1>31. CASE PowerLoss
  BY <1>31 DEF PowerLoss, PowerOff, FreshProcess
<1>32. CASE ToggleText
  BY <1>32 DEF ToggleText, InRecovery
<1>33. ASSUME NEW c \in Commands, WriteCommand(c) PROVE MenuInv'
  BY <1>33 DEF WriteCommand
<1>34. CASE UNCHANGED vars
  BY <1>34 DEF vars
<1> QED
  BY <1>1, <1>2, <1>3, <1>4, <1>5, <1>6, <1>7, <1>8, <1>9, <1>10, <1>11, <1>12,
     <1>13, <1>14, <1>15, <1>16, <1>17, <1>18, <1>19, <1>20, <1>21, <1>22,
     <1>23, <1>24, <1>25, <1>26, <1>27, <1>28, <1>29, <1>30, <1>31, <1>32,
     <1>33, <1>34 DEF Next, MainStep, MenuStep, ServerStep, Environment

\* main() acts on the arguments it has put into the BCB.
LEMMA BcbStep == IInv /\ [Next]_vars => BcbInv'
<1> SUFFICES ASSUME IInv, [Next]_vars PROVE BcbInv'
  OBVIOUS
<1> USE FaultIsUnclean DEF IInv, BcbInv, MenuInv, Clean, TypeOK, ProcessTypeOK, BootRecovery,
        Redoes, WipesCache, volatile, callFrames, cacheFiles, partitions,
        mishaps
<1>1. CASE GetArgs
  BY <1>1 DEF GetArgs, Arguments, NoFault
<1>2. CASE MiscErase
  BY <1>2, Zenon DEF MiscErase, Blank, NoFault
<1>3. CASE MiscWrite
  BY <1>3, Zenon DEF MiscWrite, Message, BootRecovery, Blank, NoFault
<1>4. CASE Dispatch
  BY <1>4, Zenon DEF Dispatch, EraseRoot
<1>5. CASE EraseBegin
  BY <1>5, Zenon DEF EraseBegin, Caller
<1>6. CASE EraseEnd
  BY <1>6, Zenon DEF EraseEnd, AfterErase
<1>7. CASE EraseRefused
  BY <1>7 DEF EraseRefused, AfterErase
<1>8. CASE EraseIncomplete
  BY <1>8 DEF EraseIncomplete, AfterErase
<1>9. CASE InstallRejected
  BY <1>9, Zenon DEF InstallRejected, AfterInstall, GivenUp
<1>10. CASE InstallBegin
  BY <1>10 DEF InstallBegin, Caller
<1>11. CASE InstallEnd
  BY <1>11, Zenon DEF InstallEnd, AfterInstall, GivenUp, Installed
<1>12. CASE FinishIntent
  BY <1>12 DEF FinishIntent, NoFault
<1>13. CASE FinishUnlink
  BY <1>13, Zenon DEF FinishUnlink, NoFault
<1>14. CASE CallsFinish
  BY <1>14, Zenon DEF CallsFinish, FinishRecovery
<1>15. CASE CheckStatus
  BY <1>15, Zenon DEF CheckStatus, Prompt
<1>16. CASE MenuDone
  BY <1>16, Zenon DEF MenuDone
<1>17. CASE InitServer
  BY <1>17 DEF InitServer, Prompt, NoFault
<1>18. CASE Reboot
  BY <1>18 DEF Reboot, PowerOff, FreshProcess
<1>19. CASE MenuReboot
  BY <1>19, Zenon DEF MenuReboot
<1>20. CASE MenuSdcard
  BY <1>20 DEF MenuSdcard
<1>21. CASE MenuWipeData
  BY <1>21 DEF MenuWipeData
<1>22. CASE MenuWipeCache
  BY <1>22 DEF MenuWipeCache, EraseRoot
<1>23. CASE WipeData
  BY <1>23, Zenon DEF WipeData, EraseRoot
<1>24. CASE ServerListens
  BY <1>24, Zenon DEF ServerListens, SameProcess, NoFault
<1>25. CASE SocketInstallBegin
  BY <1>25, Zenon DEF SocketInstallBegin
<1>26. CASE SocketInstallEnd
  BY <1>26, Zenon DEF SocketInstallEnd, GivenUp, Installed
<1>27. CASE SocketReboot
  BY <1>27 DEF SocketReboot, PowerOff, FreshProcess
<1>28. CASE SystemReboot
  BY <1>28 DEF SystemReboot, PowerOff, FreshProcess
<1>29. CASE BootsRecovery
  BY <1>29 DEF BootsRecovery
<1>30. CASE BootsSystem
  BY <1>30 DEF BootsSystem
<1>31. CASE PowerLoss
  BY <1>31 DEF PowerLoss, PowerOff, FreshProcess
<1>32. CASE ToggleText
  BY <1>32, Zenon DEF ToggleText, InRecovery
<1>33. ASSUME NEW c \in Commands, WriteCommand(c) PROVE BcbInv'
  BY <1>33 DEF WriteCommand
<1>34. CASE UNCHANGED vars
  BY <1>34, Zenon DEF vars
<1> QED
  BY <1>1, <1>2, <1>3, <1>4, <1>5, <1>6, <1>7, <1>8, <1>9, <1>10, <1>11, <1>12,
     <1>13, <1>14, <1>15, <1>16, <1>17, <1>18, <1>19, <1>20, <1>21, <1>22,
     <1>23, <1>24, <1>25, <1>26, <1>27, <1>28, <1>29, <1>30, <1>31, <1>32,
     <1>33, <1>34, Zenon DEF Next, MainStep, MenuStep, ServerStep, Environment

\* DATA: is erased before CACHE:.
LEMMA OrderStep == IInv /\ [Next]_vars => OrderInv'
<1> SUFFICES ASSUME IInv, [Next]_vars PROVE OrderInv'
  OBVIOUS
<1> USE FaultIsUnclean DEF IInv, OrderInv, WorkInv, Work, BcbInv, Clean, TypeOK, ProcessTypeOK, PartitionTypeOK, Volumes,
        Unfinished, Redoes, WipesCache, volatile, callFrames, cacheFiles, partitions,
        mishaps
<1>1. CASE GetArgs
  BY <1>1 DEF GetArgs, Arguments, NoFault
<1>2. CASE MiscErase
  BY <1>2 DEF MiscErase, Blank, NoFault
<1>3. CASE MiscWrite
  BY <1>3 DEF MiscWrite, Message, BootRecovery, Blank, NoFault
<1>4. CASE Dispatch
  BY <1>4 DEF Dispatch, EraseRoot
<1>5. CASE EraseBegin
  BY <1>5 DEF EraseBegin, Caller
<1>6. CASE EraseEnd
  BY <1>6 DEF EraseEnd, AfterErase
<1>7. CASE EraseRefused
  BY <1>7 DEF EraseRefused, AfterErase
<1>8. CASE EraseIncomplete
  BY <1>8 DEF EraseIncomplete, AfterErase
<1>9. CASE InstallRejected
  BY <1>9 DEF InstallRejected, AfterInstall, GivenUp
<1>10. CASE InstallBegin
  BY <1>10 DEF InstallBegin, Caller
<1>11. CASE InstallEnd
  BY <1>11 DEF InstallEnd, AfterInstall, GivenUp, Installed
<1>12. CASE FinishIntent
  BY <1>12 DEF FinishIntent, NoFault
<1>13. CASE FinishUnlink
  BY <1>13 DEF FinishUnlink, NoFault
<1>14. CASE CallsFinish
  BY <1>14 DEF CallsFinish, FinishRecovery
<1>15. CASE CheckStatus
  BY <1>15 DEF CheckStatus, Prompt
<1>16. CASE MenuDone
  BY <1>16 DEF MenuDone
<1>17. CASE InitServer
  BY <1>17 DEF InitServer, Prompt, NoFault
<1>18. CASE Reboot
  BY <1>18 DEF Reboot, PowerOff, FreshProcess
<1>19. CASE MenuReboot
  BY <1>19 DEF MenuReboot
<1>20. CASE MenuSdcard
  BY <1>20 DEF MenuSdcard
<1>21. CASE MenuWipeData
  BY <1>21 DEF MenuWipeData
<1>22. CASE MenuWipeCache
  BY <1>22 DEF MenuWipeCache, EraseRoot
<1>23. CASE WipeData
  BY <1>23 DEF WipeData, EraseRoot
<1>24. CASE ServerListens
  BY <1>24 DEF ServerListens, SameProcess, NoFault
<1>25. CASE SocketInstallBegin
  BY <1>25 DEF SocketInstallBegin
<1>26. CASE SocketInstallEnd
  BY <1>26 DEF SocketInstallEnd, GivenUp, Installed
<1>27. CASE SocketReboot
  BY <1>27 DEF SocketReboot, PowerOff, FreshProcess
<1>28. CASE SystemReboot
  BY <1>28 DEF SystemReboot, PowerOff, FreshProcess
<1>29. CASE BootsRecovery
  BY <1>29 DEF BootsRecovery
<1>30. CASE BootsSystem
  BY <1>30 DEF BootsSystem
<1>31. CASE PowerLoss
  BY <1>31 DEF PowerLoss, PowerOff, FreshProcess
<1>32. CASE ToggleText
  BY <1>32 DEF ToggleText, InRecovery
<1>33. ASSUME NEW c \in Commands, WriteCommand(c) PROVE OrderInv'
  BY <1>33 DEF WriteCommand
<1>34. CASE UNCHANGED vars
  BY <1>34 DEF vars
<1> QED
  BY <1>1, <1>2, <1>3, <1>4, <1>5, <1>6, <1>7, <1>8, <1>9, <1>10, <1>11, <1>12,
     <1>13, <1>14, <1>15, <1>16, <1>17, <1>18, <1>19, <1>20, <1>21, <1>22,
     <1>23, <1>24, <1>25, <1>26, <1>27, <1>28, <1>29, <1>30, <1>31, <1>32,
     <1>33, <1>34 DEF Next, MainStep, MenuStep, ServerStep, Environment

\* No run does the work without arguments.
LEMMA RedoesHasArgs == ASSUME NEW a, NEW v \in Volumes, Redoes(a, v) PROVE a # {}
  BY Zenon DEF Redoes, Volumes, WipesCache

\* What get_args() wrote to the BCB is what the next get_args() reads.
LEMMA ArgsRoundTrip ==
  ASSUME NEW a, NEW f, a # {}, CmdLine # {} => a = CmdLine
  PROVE  Arguments(BootRecovery(a), f) = a
  BY DEF Arguments, BootRecovery

\* The start of a recovery run reads the arguments of the unfinished work...
LEMMA WorkGetArgs == ASSUME IInv, GetArgs, NEW v \in Volumes PROVE Work(v)'
<1>1. CASE Fault
  BY <1>1, FaultIsUnclean DEF IInv, Work
<1>2. CASE NoFault /\ argv' = Arguments(bcb, cmdFile)
  <2>1. Clean' <=> Clean
    BY <1>2 DEF NoFault, Clean
  <2>2. Unfinished(v)' <=> Unfinished(v)
    BY DEF GetArgs, partitions, Unfinished
  <2>3. Redoes(argv, v)' <=> Redoes(Arguments(bcb, cmdFile), v)
    BY <1>2 DEF Redoes, GetArgs, cacheFiles
  <2>4. Redoes(Arguments(bcb, cmdFile), v)' <=> Redoes(Arguments(bcb, cmdFile), v)
    BY DEF Redoes, Arguments, GetArgs, cacheFiles
  <2> QED
    BY <2>1, <2>2, <2>3, <2>4 DEF IInv, WorkInv, Work, Working, GetArgs
<1> QED
  BY <1>1, <1>2 DEF GetArgs

\* ... writes them back, in two steps ...
LEMMA WorkMisc ==
  ASSUME IInv, MiscErase \/ MiscWrite, NEW v \in Volumes PROVE Work(v)'
<1>1. CASE Fault
  BY <1>1, FaultIsUnclean DEF IInv, Work
<1>2. ASSUME NoFault PROVE Work(v)'
  <2>1. Clean' <=> Clean
    BY <1>2 DEF NoFault, Clean
  <2>2. Unfinished(v)' <=> Unfinished(v)
    BY DEF MiscErase, MiscWrite, partitions, Unfinished
  <2> SUFFICES ASSUME Clean, Unfinished(v) PROVE Work(v)'
    BY <2>1, <2>2 DEF Work
  <2>3. Redoes(argv, v) /\ miscRet = "dispatch"
    BY DEF IInv, WorkInv, Work, MiscErase, MiscWrite
  <2>a. argv' = argv /\ miscRet' = miscRet /\ package' = package
    BY DEF MiscErase, MiscWrite, volatile, cacheFiles
  <2>4. Redoes(argv, v)'
    BY <2>3, <2>a, Zenon DEF Redoes
  <2>5. CASE MiscErase /\ pc' = "misc_write"
    BY <2>3, <2>4, <2>5 DEF Work, Working, MiscErase, volatile
  <2>6. CASE MiscWrite /\ bcb' = Message
    <3>1. bcb' = BootRecovery(argv)
      BY <2>3, <2>6 DEF Message
    <3>2. CmdLine # {} => argv = CmdLine
      BY <2>6 DEF IInv, ArgsInv, InRecovery, Labels, MiscWrite
    <3>3. Arguments(bcb, cmdFile)' = argv
      BY <2>3, <3>1, <3>2, RedoesHasArgs, ArgsRoundTrip DEF Arguments, BootRecovery
    <3>4. Redoes(Arguments(bcb, cmdFile), v)'
      BY <2>4, <2>6, <3>3, Zenon DEF Redoes, MiscWrite, volatile
    <3>5. bcb'.boot /\ pc' = "dispatch"
      BY <2>3, <2>6, <3>1 DEF BootRecovery, MiscWrite
    <3> QED
      BY <2>4, <3>4, <3>5 DEF Work, Working
  <2>7. MiscErase => Fault \/ pc' = "misc_write"
    BY DEF MiscErase
  <2>8. MiscWrite => Fault \/ bcb' = Message
    BY DEF MiscWrite
  <2> QED
    BY <1>1, <2>5, <2>6, <2>7, <2>8
<1> QED
  BY <1>1, <1>2 DEF MiscErase, MiscWrite

\* ... and begins the erase ...
LEMMA WorkEraseBegin == ASSUME IInv, EraseBegin, NEW v \in Volumes PROVE Work(v)'
<1>1. Clean' <=> Clean
  BY DEF EraseBegin, mishaps, Clean
<1>2. bcb' = bcb /\ argv' = argv /\ opRet' = opRet /\ pc' = "erasing"
  BY DEF EraseBegin, volatile
<1>3. /\ v # victim => (Unfinished(v)' <=> Unfinished(v))
      /\ v = victim => owner'[v] = Caller
  BY DEF EraseBegin, IInv, TypeOK, PartitionTypeOK, Volumes, Unfinished
<1> SUFFICES ASSUME Clean, Unfinished(v)' PROVE Work(v)'
  BY <1>1 DEF Work
<1>4. opRet # "menu_done"
  <2>1. v = victim => Caller = "command"
    BY <1>3 DEF Unfinished
  <2> QED
    BY <1>3, <2>1 DEF Caller, IInv, WorkInv, Work, EraseBegin
<1>5. bcb = BootRecovery(argv) /\ Redoes(argv, victim)
  BY <1>4 DEF IInv, BcbInv, EraseBegin
<1>6. Redoes(argv, v)
  BY <1>3, <1>5 DEF IInv, WorkInv, Work, EraseBegin
<1>7. v # "system"
  BY <1>5, <1>6, Zenon DEF Redoes, WipesCache, IInv, TypeOK, ProcessTypeOK
<1>8. Redoes(argv, v)'
  BY <1>2, <1>6, <1>7, Zenon DEF Redoes, Volumes
<1>9. CmdLine # {} => argv = CmdLine
  BY DEF IInv, ArgsInv, InRecovery, Labels, EraseBegin
<1>10. Arguments(bcb, cmdFile)' = argv
  BY <1>2, <1>5, <1>6, <1>9, RedoesHasArgs, ArgsRoundTrip, Zenon DEF Arguments
<1>11. Redoes(Arguments(bcb, cmdFile), v)'
  BY <1>2, <1>8, <1>10, Zenon DEF Redoes
<1> QED
  BY <1>2, <1>4, <1>5, <1>8, <1>11 DEF Work, Working, BootRecovery

\* ... or the install again.
LEMMA WorkInstallBegin == ASSUME IInv, InstallBegin, NEW v \in Volumes PROVE Work(v)'
<1>1. Clean' <=> Clean
  BY DEF InstallBegin, mishaps, Clean
<1>2. /\ bcb' = bcb /\ argv' = argv /\ opRet' = opRet /\ pc' = "installing"
      /\ cmdFile' = cmdFile /\ package' = package
  BY DEF InstallBegin, volatile, cacheFiles
<1>3. /\ v # "system" => (Unfinished(v)' <=> Unfinished(v))
      /\ v = "system" => owner'[v] \in {Caller, "both"}
  BY DEF InstallBegin, IInv, TypeOK, PartitionTypeOK, Volumes, Unfinished
<1> SUFFICES ASSUME Clean, Unfinished(v)' PROVE Work(v)'
  BY <1>1 DEF Work
<1>4. opRet # "menu_done"
  <2>1. v = "system" => Caller = "command"
    BY <1>3 DEF Unfinished
  <2> QED
    BY <1>3, <2>1 DEF Caller, IInv, WorkInv, Work, InstallBegin
<1>5. /\ bcb = BootRecovery(argv)
      /\ "socket_server" \notin argv /\ "update_package" \in argv /\ package
  BY <1>4 DEF IInv, BcbInv, MenuInv, InstallBegin, TypeOK, ProcessTypeOK
<1>6. Redoes(argv, v)
  BY <1>3, <1>5, Zenon DEF IInv, WorkInv, Work, InstallBegin, Redoes
<1>7. Redoes(argv, v)'
  BY <1>2, <1>6, Zenon DEF Redoes
<1>8. CmdLine # {} => argv = CmdLine
  BY DEF IInv, ArgsInv, InRecovery, Labels, InstallBegin
<1>9. Arguments(bcb, cmdFile)' = argv
  BY <1>2, <1>5, <1>8, ArgsRoundTrip, Zenon DEF Arguments
<1>10. Redoes(Arguments(bcb, cmdFile), v)'
  BY <1>2, <1>7, <1>9, Zenon DEF Redoes
<1> QED
  BY <1>2, <1>4, <1>5, <1>7, <1>10 DEF Work, Working, BootRecovery

\* When bind() fails in the server thread, the new process starts over from the BCB.
LEMMA WorkServerListens == ASSUME IInv, ServerListens, NEW v \in Volumes PROVE Work(v)'
<1>1. CASE Fault
  BY <1>1, FaultIsUnclean DEF IInv, Work
<1>2. CASE SameProcess /\ NoFault
  <2>1. Clean' <=> Clean
    BY <1>2 DEF NoFault, Clean
  <2>2. /\ pc' = pc /\ argv' = argv /\ opRet' = opRet /\ miscRet' = miscRet
        /\ bcb' = bcb /\ cmdFile' = cmdFile /\ package' = package
    BY <1>2 DEF SameProcess, ServerListens, cacheFiles
  <2>3. Unfinished(v)' <=> Unfinished(v)
    BY DEF ServerListens, partitions, Unfinished
  <2> QED
    BY <2>1, <2>2, <2>3, Zenon DEF IInv, WorkInv, Work, Redoes, Arguments
<1> QED
  BY <1>1, <1>2 DEF ServerListens

\* Whatever happens, unfinished work stays in the hands of a restart.
LEMMA WorkStep == IInv /\ [Next]_vars => WorkInv'
<1> SUFFICES ASSUME IInv, [Next]_vars, NEW v \in Volumes PROVE Work(v)'
  BY DEF WorkInv
<1> USE FaultIsUnclean DEF IInv, WorkInv, Work, Working, ArgsInv, BcbInv, MenuInv, OrderInv, Clean,
        TypeOK, ProcessTypeOK, MiscTypeOK, PartitionTypeOK, Volumes, InRecovery, Labels, BootRecovery,
        Unfinished, Arguments, Redoes, WipesCache, volatile, callFrames, cacheFiles, partitions,
        mishaps
<1>1. CASE GetArgs
  BY <1>1, WorkGetArgs, Zenon
<1>2. CASE MiscErase
  BY <1>2, WorkMisc, Zenon
<1>3. CASE MiscWrite
  BY <1>3, WorkMisc, Zenon
<1>4. CASE Dispatch
  BY <1>4, ZenonT(30) DEF Dispatch, EraseRoot
<1>5. CASE EraseBegin
  BY <1>5, WorkEraseBegin, ZenonT(30)
<1>6. CASE EraseEnd
  BY <1>6, ZenonT(30) DEF EraseEnd, AfterErase
<1>7. CASE EraseRefused
  BY <1>7 DEF EraseRefused, AfterErase
<1>8. CASE EraseIncomplete
  BY <1>8 DEF EraseIncomplete, AfterErase
<1>9. CASE InstallRejected
  BY <1>9 DEF InstallRejected, AfterInstall, GivenUp
<1>10. CASE InstallBegin
  BY <1>10, WorkInstallBegin, Zenon
<1>11. CASE InstallEnd
  BY <1>11 DEF InstallEnd, AfterInstall, GivenUp, Installed
<1>12. CASE FinishIntent
  BY <1>12 DEF FinishIntent, NoFault
<1>13. CASE FinishUnlink
  BY <1>13 DEF FinishUnlink, NoFault
<1>14. CASE CallsFinish
  BY <1>14 DEF CallsFinish, FinishRecovery
<1>15. CASE CheckStatus
  BY <1>15 DEF CheckStatus, Prompt
<1>16. CASE MenuDone
  BY <1>16 DEF MenuDone
<1>17. CASE InitServer
  BY <1>17 DEF InitServer, Prompt, NoFault
<1>18. CASE Reboot
  BY <1>18 DEF Reboot, PowerOff, FreshProcess
<1>19. CASE MenuReboot
  BY <1>19 DEF MenuReboot
<1>20. CASE MenuSdcard
  BY <1>20 DEF MenuSdcard
<1>21. CASE MenuWipeData
  BY <1>21 DEF MenuWipeData
<1>22. CASE MenuWipeCache
  BY <1>22 DEF MenuWipeCache, EraseRoot
<1>23. CASE WipeData
  BY <1>23 DEF WipeData, EraseRoot
<1>24. CASE ServerListens
  BY <1>24, WorkServerListens, Zenon
<1>25. CASE SocketInstallBegin
  BY <1>25, Zenon DEF SocketInstallBegin
<1>26. CASE SocketInstallEnd
  BY <1>26, ZenonT(30) DEF SocketInstallEnd, GivenUp, Installed
<1>27. CASE SocketReboot
  BY <1>27, ZenonT(30) DEF SocketReboot, PowerOff, FreshProcess
<1>28. CASE SystemReboot
  BY <1>28 DEF SystemReboot, PowerOff, FreshProcess
<1>29. CASE BootsRecovery
  BY <1>29, Zenon DEF BootsRecovery
<1>30. CASE BootsSystem
  BY <1>30 DEF BootsSystem
<1>31. CASE PowerLoss
  BY <1>31, ZenonT(30) DEF PowerLoss, PowerOff, FreshProcess
<1>32. CASE ToggleText
  BY <1>32, Zenon DEF ToggleText, InRecovery
<1>33. ASSUME NEW c \in Commands, WriteCommand(c) PROVE Work(v)'
  BY <1>33 DEF WriteCommand
<1>34. CASE UNCHANGED vars
  BY <1>34, Zenon DEF vars
<1> QED
  BY <1>1, <1>2, <1>3, <1>4, <1>5, <1>6, <1>7, <1>8, <1>9, <1>10, <1>11, <1>12,
     <1>13, <1>14, <1>15, <1>16, <1>17, <1>18, <1>19, <1>20, <1>21, <1>22,
     <1>23, <1>24, <1>25, <1>26, <1>27, <1>28, <1>29, <1>30, <1>31, <1>32,
     <1>33, <1>34, Zenon DEF Next, MainStep, MenuStep, ServerStep, Environment

-----------------------------------------------------------------------------
(* The theorems. *)

\* The device starts in the main system with a blank BCB and whole partitions.
LEMMA InitIInv == Init => IInv
<1> SUFFICES ASSUME Init PROVE IInv
  OBVIOUS
<1>1. TypeOK
  <2>1. ProcessTypeOK
    BY RecoveryAssumption DEF Init, ProcessTypeOK, Labels, InRecovery, Options, Volumes
  <2>2. MiscTypeOK
    BY DEF Init, MiscTypeOK, Blank, Options
  <2>3. CacheTypeOK
    BY Zenon DEF Init, CacheTypeOK
  <2>4. PartitionTypeOK
    BY Zenon DEF Init, PartitionTypeOK, Volumes
  <2>5. MishapTypeOK
    <3>1. crashes = 0 /\ faults = 0 /\ torn \in BOOLEAN
      BY Zenon DEF Init
    <3> QED
      BY <3>1, RecoveryAssumption DEF MishapTypeOK
  <2> QED
    BY <2>1, <2>2, <2>3, <2>4, <2>5 DEF TypeOK
<1>2. ArgsInv /\ BcbInv /\ MenuInv /\ OrderInv /\ WorkInv
  BY DEF Init, ArgsInv, BcbInv, MenuInv, OrderInv, WorkInv, Work, Unfinished,
     InRecovery, Labels, Volumes
<1> QED
  BY <1>1, <1>2 DEF IInv

\* The variables of recovery, of the BCB, of the files and of the partitions keep their
\* types in every behaviour, for all commands and command lines.
THEOREM TypeCorrect == Spec => []TypeOK
<1>1. Init => TypeOK
  BY InitIInv DEF IInv
<1> QED
  BY <1>1, TypeStep, PTL DEF Spec

\* The inductive invariant holds in every behaviour.
LEMMA Inductive == Spec => []IInv
<1>1. IInv /\ [Next]_vars => IInv'
  <2>1. IInv => TypeOK
    BY DEF IInv
  <2> QED
    BY <2>1, TypeStep, ArgsStep, BcbStep, MenuInvStep, OrderStep, WorkStep DEF IInv
<1> QED
  BY <1>1, InitIInv, PTL DEF Spec

\* The header of recovery.c: from the moment a commanded erase or install has begun until
\* it is over, a power loss at any point leads to a boot that starts it again, unless the
\* flash or /cache failed or a rewrite of the BCB was cut short.
THEOREM Restartable == Spec => []RestartsWork
<1>1. IInv => RestartsWork
  BY DEF IInv, WorkInv, Work, Unfinished, RestartsWork
<1> QED
  BY <1>1, Inductive, PTL

\* The main system runs on a half-erased or half-installed partition only after an
\* operation chosen at the menu, sent over the socket, or reported as failed.
THEOREM MainSystemSafe ==
  Spec => [](Clean /\ pc = "system"
               => \A v \in Volumes : image[v] = "partial" => owner[v] # "command")
<1>1. IInv => (Clean /\ pc = "system"
               => \A v \in Volumes : image[v] = "partial" => owner[v] # "command")
  BY DEF IInv, WorkInv, Work, Working, Unfinished
<1> QED
  BY <1>1, Inductive, PTL

-----------------------------------------------------------------------------
(* What finish_recovery() leaves behind. *)

\* Where finish_recovery() has returned.
Finished == {"init_server", "menu", "menu_wipe", "confirm", "reboot"}

\* The BCB is cleared first, then the command file goes; the menu erases without one.
Cleared ==
    Clean => /\ pc \in {"misc_write", "finish_unlink"} => bcb = Blank
             /\ pc \in Finished => bcb = Blank /\ cmdFile = {}
             /\ pc \in {"erase", "erasing"} /\ opRet = "menu_done" => cmdFile = {}

\* The last finish_recovery() has written the intent before it comes to the BCB.
Reported ==
    /\ pc = "reboot" => finRet = "reboot"
    /\ Clean /\ "send_intent" \in argv /\ finRet = "reboot" =>
          /\ pc \in {"misc_erase", "misc_write"} /\ miscRet = "finish_unlink" => intent
          /\ pc \in {"finish_unlink", "reboot"} => intent

\* The command file still asks for a factory reset that was carried out.
Stale == "wipe_data" \in cmdFile /\ ~wipeOwed

\* Then the reset is on its way again, and the erase of CACHE: at its end removes the file.
Rewiped ==
    Clean /\ Stale =>
        /\ pc \in {"off", "get_args", "misc_erase", "misc_write", "dispatch", "erase", "erasing"}
        /\ pc # "misc_write" => bcb.boot /\ Redoes(Arguments(bcb, cmdFile), "data")
        /\ pc \in {"misc_erase", "misc_write"} => miscRet = "dispatch"
        /\ pc \notin {"off", "get_args"} => Redoes(argv, "data")
        /\ pc \in {"erase", "erasing"} => opRet # "menu_done"

-----------------------------------------------------------------------------

\* Only finish_recovery() leads to the menu and to the reboot.
LEMMA ClearedStep == IInv /\ Cleared /\ [Next]_vars => Cleared'
<1> SUFFICES ASSUME IInv, Cleared, [Next]_vars PROVE Cleared'
  BY Zenon
<1> USE FaultIsUnclean DEF IInv, Cleared, Finished, Clean, TypeOK, ProcessTypeOK, volatile, callFrames, cacheFiles, partitions, mishaps
<1>1. CASE GetArgs
  BY <1>1, Zenon DEF GetArgs, NoFault
<1>2. CASE MiscErase
  BY <1>2 DEF MiscErase, NoFault
<1>3. CASE MiscWrite
  BY <1>3 DEF MiscWrite, NoFault, Message
<1>4. CASE Dispatch
  BY <1>4 DEF Dispatch, EraseRoot
<1>5. CASE EraseBegin
  BY <1>5, Zenon DEF EraseBegin
<1>6. CASE EraseEnd
  BY <1>6 DEF EraseEnd, AfterErase
<1>7. CASE EraseRefused \/ EraseIncomplete
  BY <1>7, Zenon DEF EraseRefused, EraseIncomplete
<1>8. CASE InstallRejected \/ InstallBegin \/ InstallEnd
  BY <1>8, Zenon DEF InstallRejected, InstallBegin, InstallEnd, AfterInstall
<1>9. CASE FinishIntent
  BY <1>9 DEF FinishIntent, NoFault
<1>10. CASE FinishUnlink
  BY <1>10 DEF FinishUnlink, NoFault
<1>11. CASE CallsFinish
  BY <1>11 DEF CallsFinish, FinishRecovery
<1>12. CASE CheckStatus \/ MenuDone
  BY <1>12 DEF CheckStatus, Prompt, MenuDone
<1>13. CASE InitServer
  BY <1>13 DEF InitServer, Prompt, NoFault
<1>14. CASE MenuReboot \/ MenuSdcard \/ MenuWipeData
  BY <1>14 DEF MenuReboot, MenuSdcard, MenuWipeData
<1>15. CASE MenuWipeCache \/ WipeData
  BY <1>15 DEF MenuWipeCache, WipeData, EraseRoot
<1>16. CASE ServerListens
  BY <1>16 DEF ServerListens, SameProcess, NoFault
<1>17. CASE SocketInstallBegin \/ SocketInstallEnd
  BY <1>17, Zenon DEF SocketInstallBegin, SocketInstallEnd
<1>18. CASE Reboot \/ SystemReboot \/ SocketReboot \/ PowerLoss
  BY <1>18 DEF Reboot, SystemReboot, SocketReboot, PowerLoss, PowerOff, FreshProcess
<1>19. CASE BootsRecovery \/ BootsSystem
  BY <1>19 DEF BootsRecovery, BootsSystem
<1>20. CASE ToggleText
  BY <1>20 DEF ToggleText
<1>21. ASSUME NEW c \in Commands, WriteCommand(c) PROVE Cleared'
  BY <1>21 DEF WriteCommand
<1>22. CASE UNCHANGED vars
  BY <1>22 DEF vars
<1> QED
  BY <1>1, <1>2, <1>3, <1>4, <1>5, <1>6, <1>7, <1>8, <1>9, <1>10, <1>11, <1>12, <1>13, <1>14, <1>15, <1>16, <1>17, <1>18, <1>19, <1>20, <1>21, <1>22, Zenon
     DEF Next, MainStep, MenuStep, ServerStep, Environment

\* Nothing erases CACHE: between the intent and the reboot.
LEMMA ReportedStep == IInv /\ Reported /\ [Next]_vars => Reported'
<1> SUFFICES ASSUME IInv, Reported, [Next]_vars PROVE Reported'
  OBVIOUS
<1> USE FaultIsUnclean DEF IInv, Reported, MenuInv, Clean, TypeOK, ProcessTypeOK, volatile, callFrames, cacheFiles, partitions, mishaps
<1>1. CASE GetArgs
  BY <1>1 DEF GetArgs, NoFault
<1>2. CASE MiscErase
  BY <1>2 DEF MiscErase, NoFault
<1>3. CASE MiscWrite
  BY <1>3 DEF MiscWrite, NoFault
<1>4. CASE Dispatch
  BY <1>4 DEF Dispatch, EraseRoot
<1>5. CASE EraseBegin
  BY <1>5 DEF EraseBegin
<1>6. CASE EraseEnd
  BY <1>6 DEF EraseEnd, AfterErase
<1>7. CASE EraseRefused \/ EraseIncomplete
  BY <1>7, Zenon DEF EraseRefused, EraseIncomplete, AfterErase
<1>8. CASE InstallRejected \/ InstallBegin \/ InstallEnd
  BY <1>8 DEF InstallRejected, InstallBegin, InstallEnd, AfterInstall
<1>9. CASE FinishIntent
  BY <1>9 DEF FinishIntent, NoFault
<1>10. CASE FinishUnlink
  BY <1>10 DEF FinishUnlink, NoFault
<1>11. CASE CallsFinish
  BY <1>11 DEF CallsFinish, FinishRecovery
<1>12. CASE CheckStatus \/ MenuDone
  BY <1>12 DEF CheckStatus, Prompt, MenuDone
<1>13. CASE InitServer
  BY <1>13 DEF InitServer, Prompt, NoFault
<1>14. CASE MenuReboot \/ MenuSdcard \/ MenuWipeData
  BY <1>14 DEF MenuReboot, MenuSdcard, MenuWipeData
<1>15. CASE MenuWipeCache \/ WipeData
  BY <1>15 DEF MenuWipeCache, WipeData, EraseRoot
<1>16. CASE ServerListens
  BY <1>16 DEF ServerListens, SameProcess, NoFault
<1>17. CASE SocketInstallBegin \/ SocketInstallEnd
  BY <1>17, Zenon DEF SocketInstallBegin, SocketInstallEnd
<1>18. CASE Reboot \/ SystemReboot \/ SocketReboot \/ PowerLoss
  BY <1>18 DEF Reboot, SystemReboot, SocketReboot, PowerLoss, PowerOff, FreshProcess
<1>19. CASE BootsRecovery \/ BootsSystem
  BY <1>19 DEF BootsRecovery, BootsSystem
<1>20. CASE ToggleText
  BY <1>20 DEF ToggleText
<1>21. ASSUME NEW c \in Commands, WriteCommand(c) PROVE Reported'
  BY <1>21 DEF WriteCommand
<1>22. CASE UNCHANGED vars
  BY <1>22 DEF vars
<1> QED
  BY <1>1, <1>2, <1>3, <1>4, <1>5, <1>6, <1>7, <1>8, <1>9, <1>10, <1>11, <1>12, <1>13, <1>14, <1>15, <1>16, <1>17, <1>18, <1>19, <1>20, <1>21, <1>22, Zenon
     DEF Next, MainStep, MenuStep, ServerStep, Environment

\* A factory reset that was carried out keeps its place in the BCB until its file is gone.
LEMMA RewipedStep == IInv /\ Cleared /\ Rewiped /\ [Next]_vars => Rewiped'
<1> SUFFICES ASSUME IInv, Cleared, Rewiped, [Next]_vars PROVE Rewiped'
  OBVIOUS
<1> USE FaultIsUnclean DEF IInv, Rewiped, Stale, Cleared, Finished, BcbInv, ArgsInv, InRecovery, Labels, Clean, TypeOK, ProcessTypeOK,
        Redoes, Arguments, BootRecovery, volatile, callFrames, cacheFiles, partitions, mishaps
<1>1. CASE GetArgs
  BY <1>1 DEF GetArgs, NoFault
<1>2. CASE MiscErase
  BY <1>2 DEF MiscErase, NoFault
<1>3. CASE MiscWrite
  BY <1>3 DEF MiscWrite, NoFault, Message
<1>4. CASE Dispatch
  BY <1>4 DEF Dispatch, EraseRoot
<1>5. CASE EraseBegin
  BY <1>5, Zenon DEF EraseBegin
<1>6. CASE EraseEnd
  <2>1. CASE victim = "cache"
    BY <1>6, <2>1 DEF EraseEnd, AfterErase
  <2>2. CASE victim = "data" /\ opRet = "menu_done"
    BY <1>6, <2>2 DEF EraseEnd, AfterErase
  <2>3. CASE victim = "data" /\ opRet # "menu_done" /\ Clean
    <3>1. bcb = BootRecovery(argv) /\ Redoes(argv, "data") /\ (CmdLine # {} => argv = CmdLine)
      BY <1>6, <2>3 DEF EraseEnd
    <3>2. Redoes(Arguments(bcb, cmdFile), "data")
      BY <3>1
    <3> QED
      BY <1>6, <2>3, <3>1, <3>2 DEF EraseEnd, AfterErase
  <2>4. CASE ~Clean
    BY <1>6, <2>4 DEF EraseEnd
  <2> QED
    BY <2>1, <2>2, <2>3, <2>4
<1>7. CASE EraseRefused \/ EraseIncomplete
  BY <1>7 DEF EraseRefused, EraseIncomplete
<1>8. CASE InstallRejected \/ InstallBegin \/ InstallEnd
  BY <1>8 DEF InstallRejected, InstallBegin, InstallEnd, AfterInstall
<1>9. CASE FinishIntent
  BY <1>9 DEF FinishIntent, NoFault
<1>10. CASE FinishUnlink
  BY <1>10 DEF FinishUnlink, NoFault
<1>11. CASE CallsFinish
  BY <1>11 DEF CallsFinish, FinishRecovery
<1>12. CASE CheckStatus \/ MenuDone
  BY <1>12 DEF CheckStatus, Prompt, MenuDone
<1>13. CASE InitServer
  BY <1>13 DEF InitServer, Prompt, NoFault
<1>14. CASE MenuReboot \/ MenuSdcard \/ MenuWipeData
  BY <1>14 DEF MenuReboot, MenuSdcard, MenuWipeData
<1>15. CASE MenuWipeCache \/ WipeData
  BY <1>15 DEF MenuWipeCache, WipeData, EraseRoot
<1>16. CASE ServerListens
  BY <1>16 DEF ServerListens, SameProcess, NoFault
<1>17. CASE SocketInstallBegin \/ SocketInstallEnd
  BY <1>17 DEF SocketInstallBegin, SocketInstallEnd
<1>18. CASE Reboot \/ SystemReboot \/ SocketReboot \/ PowerLoss
  BY <1>18, Zenon DEF Reboot, SystemReboot, SocketReboot, PowerLoss, PowerOff, FreshProcess
<1>19. CASE BootsRecovery \/ BootsSystem
  BY <1>19 DEF BootsRecovery, BootsSystem
<1>20. CASE ToggleText
  BY <1>20 DEF ToggleText
<1>21. ASSUME NEW c \in Commands, WriteCommand(c) PROVE Rewiped'
  BY <1>21, Zenon DEF WriteCommand
<1>22. CASE UNCHANGED vars
  BY <1>22 DEF vars
<1> QED
  BY <1>1, <1>2, <1>3, <1>4, <1>5, <1>6, <1>7, <1>8, <1>9, <1>10, <1>11, <1>12, <1>13, <1>14, <1>15, <1>16, <1>17, <1>18, <1>19, <1>20, <1>21, <1>22, Zenon
     DEF Next, MainStep, MenuStep, ServerStep, Environment

-----------------------------------------------------------------------------

\* The three hold in every behaviour.
LEMMA FinishInductive == Spec => [](Cleared /\ Reported /\ Rewiped)
<1>1. Init => Cleared /\ Reported /\ Rewiped
  BY DEF Init, Cleared, Finished, Reported, Rewiped, Stale
<1>2. IInv /\ Cleared /\ Reported /\ Rewiped /\ [Next]_vars => (Cleared /\ Reported /\ Rewiped)'
  BY ClearedStep, ReportedStep, RewipedStep
<1> QED
  BY <1>1, <1>2, Inductive, PTL DEF Spec

\* Whenever finish_recovery() has returned, at the menu and before the reboot, the bootloader
\* starts the main system and no command waits for the next recovery run.
THEOREM Finishes == Spec => []FinishedIsClear
<1>1. Cleared => FinishedIsClear
  BY DEF Cleared, Finished, FinishedIsClear
<1> QED
  BY <1>1, FinishInductive, PTL

\* The main system never runs with a command file left over that would repeat a factory reset
\* already carried out: main() erases CACHE: after DATA:, and the BCB holds on until then.
THEOREM NoWipeLeft == Spec => []NoUnaskedWipe
<1>1. Rewiped => NoUnaskedWipe
  BY DEF Rewiped, Stale, NoUnaskedWipe
<1> QED
  BY <1>1, FinishInductive, PTL

\* The intent that was asked for is on /cache when main() reboots, whatever the menu erased
\* before: the last finish_recovery() writes it, and nothing erases CACHE: after that.
THEOREM IntentKept == Spec => []IntentReported
<1>1. Reported => IntentReported
  BY DEF Reported, IntentReported
<1> QED
  BY <1>1, FinishInductive, PTL
=============================================================================
