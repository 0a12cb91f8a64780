------------------------------ MODULE MCFraming ------------------------------
EXTENDS Framing
=============================================================================
