------------------------------ MODULE MCLanding ------------------------------
EXTENDS Landing
=============================================================================
