------------------------- MODULE MC_AppOpsManager -------------------------
EXTENDS AppOpsManager
CONSTANTS t1, t2, o1
MCThreads == {t1, t2}
MCOpcodes == {o1}
=============================================================================
