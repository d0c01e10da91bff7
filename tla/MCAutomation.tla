---------------------------- MODULE MCAutomation ----------------------------
EXTENDS Automation

CONSTANTS d1, d2, b1, b2, e1

TwoDevices == {d1, d2}
TwoBodies == {b1, b2}
OneError == {e1}
=============================================================================
