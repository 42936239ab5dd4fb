----------------------------- MODULE Semaphore -----------------------------
(***************************************************************************)
(* What a bounded-concurrency gate promises its callers, stated without    *)
(* promises, timers or counters: Permits permits, a first-come first-served *)
(* line, a permit that passes from its holder straight to the head of the  *)
(* line, and no caller overtaking the line.  ArgonGate implements it.      *)
(***************************************************************************)
EXTENDS Integers, Sequences, FiniteSets, SequencesExt

CONSTANTS Clients, Permits

VARIABLES holders,   \* the clients that hold a permit
          line       \* the clients that wait for one, oldest first

svars == <<holders, line>>

Out(c) == c \notin holders /\ c \notin ToSet(line)

SInit == holders = {} /\ line = <<>>

\* A free permit goes to a newcomer only when nobody waits for it.
Take(c) ==
  /\ Out(c) /\ line = <<>>
  /\ Cardinality(holders) < Permits
  /\ holders' = holders \union {c}
  /\ UNCHANGED line

\* A newcomer waits only when every permit is taken.
Join(c) ==
  /\ Out(c)
  /\ Cardinality(holders) = Permits
  /\ line' = Append(line, c)
  /\ UNCHANGED holders

Leave(c) ==
  /\ \E i \in 1..Len(line) : line[i] = c /\ line' = RemoveAt(line, i)
  /\ UNCHANGED holders

GiveBack(c) ==
  /\ c \in holders
  /\ \/ /\ line = <<>>
        /\ holders' = holders \ {c}
        /\ UNCHANGED line
     \/ /\ line # <<>>
        /\ holders' = (holders \ {c}) \union {Head(line)}
        /\ line' = Tail(line)

SNext == \E c \in Clients : Take(c) \/ Join(c) \/ Leave(c) \/ GiveBack(c)

SSpec == SInit /\ [][SNext]_svars
=============================================================================
