------------------------------ MODULE MCViewing ------------------------------
\* One channel, two publish paths, a viewer.
EXTENDS Viewing
=============================================================================
