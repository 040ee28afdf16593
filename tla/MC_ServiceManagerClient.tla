---------------------- MODULE MC_ServiceManagerClient ----------------------
EXTENDS ServiceManagerClient
CONSTANTS t1, t2, c1, c2
MCThreads == {t1, t2}
MCControllers == {c1, c2}
=============================================================================
