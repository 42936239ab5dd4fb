----------------------------- MODULE MCAccounts -----------------------------
EXTENDS Accounts
-----------------------------------------------------------------------------
\* What is known of a flow is dead once no cookie and no handler names it.  What was
\* typed is read only of the log-in that typed it, in the step that lets it in.
Live == <<rows, mail, cookie, entered, job, faults,
          [f \in Flows |-> IF Unused(f) THEN <<>> ELSE <<flow[f]>>]>>
=============================================================================
