------------------------------ MODULE MCWebAuth ------------------------------
\* Two tabs of one browser and two logins.
EXTENDS WebAuth
=============================================================================
