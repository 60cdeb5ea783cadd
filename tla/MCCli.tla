-------------------------------- MODULE MCCli --------------------------------
EXTENDS Cli

MCLetters == 1..2
=============================================================================
