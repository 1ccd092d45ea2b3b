---------------------------- MODULE MCModuleLoad ----------------------------
EXTENDS ModuleLoad

CONSTANTS u1, u2

MCUsers == {u1, u2}
MCMods == {"chardev", "kdemo", "md1", "md2", "md3", "dummy"}
=============================================================================
