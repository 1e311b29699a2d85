---------------------------- MODULE MCUartDriver ----------------------------
EXTENDS UartDriver

MCFrameLens == {2, 3}
=============================================================================
