------------------------------ MODULE MCTyping ------------------------------
EXTENDS Typing
=============================================================================
