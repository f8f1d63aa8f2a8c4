---------------------- MODULE MCCapabilityInstaller ----------------------
(* CapabilityInstaller for TLC: one candidate directory, which can hold two *)
(* versions of a handler.                                                   *)
EXTENDS CapabilityInstaller, TLC

CONSTANTS v1, v2

MCSources == {"notes"}
MCSlugs == {"fs_read"}
MCContents == {v1, v2}
MCHandlers == {"reader"}
MCSlugOf == [s \in MCSources |-> "fs_read"]
MCHandlerOf == [c \in MCContents |-> "reader"]

MCSymmetry == Permutations(MCContents)
=============================================================================
