------------------------------- MODULE MCVerify -------------------------------
EXTENDS Verify

CONSTANTS t1, t2

MCThreads == {t1, t2}
MCFiles == 1..3
MCSize == <<5, 0, 2>>
=============================================================================
