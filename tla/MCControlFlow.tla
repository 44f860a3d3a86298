---------------------------- MODULE MCControlFlow ----------------------------
EXTENDS ControlFlow
=============================================================================
