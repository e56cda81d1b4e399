---------------------------- MODULE MCRotaryEncoder ----------------------------
EXTENDS RotaryEncoder

MCMinCounter == -1
==============================================================================
