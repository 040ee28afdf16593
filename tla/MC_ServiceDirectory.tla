------------------------ MODULE MC_ServiceDirectory ------------------------
EXTENDS ServiceDirectory
CONSTANTS t1, t2, s1, s2
MCThreads == {t1, t2}
MCNames == {s1, s2}
=============================================================================
