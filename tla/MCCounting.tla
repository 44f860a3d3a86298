----------------------------- MODULE MCCounting ------------------------------
EXTENDS Counting
=============================================================================
