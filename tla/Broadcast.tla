----------------------------- MODULE Broadcast -----------------------------
(***************************************************************************)
(* What a channel's chat promises a browser tab (apps/bff/src/ws/chat.ts:   *)
(* 67-69, 145-147): recency over completeness.  Messages get a place in one *)
(* order when they are published.  A reader may miss any of them, but what  *)
(* it is shown, it is shown in that order and never twice, across           *)
(* reconnections too.                                                       *)
(***************************************************************************)
EXTENDS Integers, Sequences, SequencesExt

CONSTANT Readers
VARIABLES said,    \* how many messages have been published
          heard    \* the places of the messages each reader was shown

bvars == <<said, heard>>

Increasing(q) == \A i, j \in DOMAIN q : i < j => q[i] < q[j]

BInit == said = 0 /\ heard = [r \in Readers |-> <<>>]

\* One message is published, or two copies of it.
Say == said' \in {said + 1, said + 2} /\ UNCHANGED heard

\* A reader is shown some later messages.
Hear(r) ==
  /\ \A x \in Readers \ {r} : heard'[x] = heard[x]
  /\ IsPrefix(heard[r], heard'[r])
  /\ Increasing(heard'[r])
  /\ \A i \in DOMAIN heard'[r] : heard'[r][i] \in 1..said
  /\ UNCHANGED said

BNext == Say \/ \E r \in Readers : Hear(r)

BSpec == BInit /\ [][BNext]_bvars
=============================================================================
