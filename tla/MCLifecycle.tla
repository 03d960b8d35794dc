---------------------------- MODULE MCLifecycle ----------------------------
(* Instance of Lifecycle for TLC.  The alphabets of faults and requests are *)
(* chosen by each configuration.                                            *)
EXTENDS Lifecycle

AllFaults == {"mv", "hypervisor", "vm", "timeout", "systemd", "refused",
              "beam", "host"}
AllOps == {"stop", "done", "wake", "retire", "revive", "forget", "reboot",
           "restore"}
=============================================================================
