----------------------------- MODULE MCRecovery -----------------------------
(* Instances of Recovery for TLC. *)
EXTENDS Recovery

\* A factory reset and a development-image server that report back, and an OTA install.
MCCommands ==
    {{"wipe_data", "send_intent"}, {"update_package"}, {"socket_server", "send_intent"}}

\* The commands whose work has to survive power losses.
MCWork == {{"wipe_data"}, {"wipe_cache"}, {"update_package"}}

MCFactoryReset == {{"wipe_data"}}

MCNoCmdLine == {}
=============================================================================
