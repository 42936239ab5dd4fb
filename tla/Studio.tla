------------------------------- MODULE Studio -------------------------------
(***************************************************************************)
(* Channels and their keys: the studio page                                *)
(* (apps/web/app/studio/page.tsx), the BFF's proxy of it                   *)
(* (apps/bff/src/services/channel.proxy.ts) and svc-core's channel service *)
(* (apps/svc-core/src/channel/channel.service.ts).                         *)
(*                                                                         *)
(* A call is split where something can come between: at core, and where    *)
(* the tab hears its answer.  A channel is known by its slug, unique and   *)
(* never changed; a stream key by its place in the order of generation.    *)
(***************************************************************************)
EXTENDS Integers, Sequences, FiniteSets

CONSTANTS Users, Tabs, NoChannel, Slugs,
          MaxKeys,    \* bound on createChannel and rotateStreamKey
          MaxRare     \* bound on reloads, lost answers and ingest tokens

ASSUME NoChannelIsNone == NoChannel \notin Slugs \union [owner : Users, key : Nat]
ASSUME Bounds == MaxKeys \in Nat /\ MaxRare \in Nat

VARIABLES
  user,     \* who is signed in in each tab
  rows,     \* channels: the owner, and the key whose hash is stored
  tokens,   \* ingest:{token} in Redis: whom it was issued to, for which channel
  minter,   \* the tab each key was generated for, in order
  tab,      \* the page: what is on it, and the keys in its state
  fetch,    \* the answer to its getMyChannel query, on its way
  call,     \* its createChannel and its rotateStreamKey, one of each at a time (a
            \* bound: a form that was taken away and shown anew may be sent again)
  rare      \* how many of those there were

core == <<user, rows, tokens, minter>>
studioVars == <<core, tab, fetch, call, rare>>

Ops   == {"create", "rotate"}
Fresh == [on |-> "loading", channel |-> NoChannel, prefix |-> 0, created |-> 0, shown |-> 0]
NoAnswer == [at |-> "none", row |-> NoChannel, key |-> 0]
Rest  == [at |-> "idle", key |-> 0]

StudioTypeOK ==
  /\ user \in [Tabs -> Users]
  /\ rows \in [Slugs -> [owner : Users, key : 1..MaxKeys] \union {NoChannel}]
  /\ tokens \subseteq Users \X Slugs
  /\ minter \in Seq(Tabs) /\ Len(minter) <= MaxKeys
  /\ tab \in [Tabs -> [on : {"loading", "failed", "form", "panel"}, channel : Slugs \union {NoChannel},
                       prefix : 0..MaxKeys, created : 0..MaxKeys, shown : 0..MaxKeys]]
  /\ fetch \in [Tabs -> [at : {"none", "some"}, row : Slugs \union {NoChannel}, key : 0..MaxKeys]]
  /\ call \in [Tabs -> [Ops -> [at : {"idle", "sent", "unheard", "done"}, key : 0..MaxKeys]]]
  /\ rare \in 0..MaxRare

StudioInit ==
  /\ user \in [Tabs -> Users] /\ rows = [s \in Slugs |-> NoChannel] /\ tokens = {} /\ minter = <<>>
  /\ tab = [t \in Tabs |-> Fresh] /\ fetch = [t \in Tabs |-> NoAnswer]
  /\ call = [t \in Tabs |-> [op \in Ops |-> Rest]]
  /\ rare = 0

Rare == rare < MaxRare /\ rare' = rare + 1
Owned(u) == {s \in Slugs : rows[s] # NoChannel /\ rows[s].owner = u}
Latest == Len(minter)
-----------------------------------------------------------------------------
(* The query behind the page, polled every 5 s.                            *)

\* getMyChannel: any one of the user's channels, for its SELECT has no order.  A page
\* that has had no answer yet is loading again while it asks.
GetMyChannel(t) ==
  /\ fetch[t].at = "none"
  /\ tab' = [tab EXCEPT ![t].on = IF @ = "failed" THEN "loading" ELSE @]
  /\ IF Owned(user[t]) = {} THEN fetch' = [fetch EXCEPT ![t].at = "some"]
     ELSE \E s \in Owned(user[t]) :
            fetch' = [fetch EXCEPT ![t] = [at |-> "some", row |-> s, key |-> rows[s].key]]
  /\ UNCHANGED <<core, call, rare>>

\* Slip: the panel keeps the prefix it was mounted with.
FirstPrefix(t) == IF tab[t].on = "panel" THEN tab[t].prefix ELSE fetch[t].key
PrefixOf(t) == fetch[t].key

\* The query succeeded: the form, or the channel's panel.  Its keyPrefix follows the
\* query; its streamKey starts as the created key is when the panel is mounted.
Show(t) ==
  /\ fetch[t].at = "some"
  /\ fetch' = [fetch EXCEPT ![t] = NoAnswer]
  /\ tab' = [tab EXCEPT ![t] =
       IF fetch[t].row = NoChannel THEN [@ EXCEPT !.on = "form"]
       ELSE [@ EXCEPT !.on = "panel", !.channel = fetch[t].row, !.prefix = PrefixOf(t),
                      !.shown = IF tab[t].on = "panel" THEN tab[t].shown ELSE tab[t].created]]
  /\ UNCHANGED <<core, call, rare>>

\* The query fails, through its retries: what was there stays, and a page that was
\* loading shows the form, to the owner of a channel too.
QueryFails(t) ==
  /\ fetch[t].at = "some" /\ Rare
  /\ fetch' = [fetch EXCEPT ![t] = NoAnswer]
  /\ tab' = [tab EXCEPT ![t].on = IF @ = "loading" THEN "failed" ELSE @]
  /\ UNCHANGED <<core, call>>

\* invalidateQueries: an answer under way is given up for a new query.
Invalidate(t) == fetch' = [fetch EXCEPT ![t] = NoAnswer]
-----------------------------------------------------------------------------
(* createChannel and rotateStreamKey.                                      *)

Submit(t) ==
  /\ tab[t].on \in {"form", "failed"} /\ call[t]["create"].at = "idle"
  /\ call' = [call EXCEPT ![t]["create"].at = "sent"]
  /\ UNCHANGED <<core, tab, fetch, rare>>

\* Core answers t with a new key, if t is still there to hear it.
Return(t, op) ==
  /\ Latest < MaxKeys /\ minter' = Append(minter, t)
  /\ call' = [call EXCEPT ![t][op] = IF @.at = "unheard" THEN Rest
                                     ELSE [at |-> "done", key |-> Latest + 1]]

\* createChannel: the INSERT.
CreateChannel(t, s) ==
  /\ call[t]["create"].at \in {"sent", "unheard"} /\ rows[s] = NoChannel
  /\ rows' = [rows EXCEPT ![s] = [owner |-> user[t], key |-> Latest + 1]]
  /\ Return(t, "create")
  /\ UNCHANGED <<user, tokens, tab, fetch, rare>>

\* createChannel: the slug is taken, and onSubmit shows an error.
SlugTaken(t) ==
  /\ call[t]["create"].at \in {"sent", "unheard"} /\ \E s \in Slugs : rows[s] # NoChannel
  /\ call' = [call EXCEPT ![t]["create"] = Rest]
  /\ UNCHANGED <<core, tab, fetch, rare>>

\* rotateStreamKey: the UPDATE gives every channel of the owner the new key.
RotateStreamKey(t) ==
  /\ tab[t].on = "panel" /\ call[t]["rotate"].at = "idle"
  /\ rows' = [s \in Slugs |-> IF s \in Owned(user[t])
                              THEN [rows[s] EXCEPT !.key = Latest + 1] ELSE rows[s]]
  /\ Return(t, "rotate")
  /\ UNCHANGED <<user, tokens, tab, fetch, rare>>

\* Slip: rotate() leaves the key of the creation in the state.
OldKey(t) == IF tab[t].created # 0 THEN tab[t].created ELSE call[t]["rotate"].key
NewKey(t) == call[t]["rotate"].key

\* The answer arrives: onSubmit keeps the key for the panel to come, rotate()
\* shows it; the query is made again.
Heard(t, op) ==
  /\ call[t][op].at = "done"
  /\ tab' = [tab EXCEPT ![t] = IF op = "create"
                               THEN [@ EXCEPT !.created = call[t][op].key]
                               ELSE [@ EXCEPT !.shown = NewKey(t)]]
  /\ call' = [call EXCEPT ![t][op] = Rest]
  /\ Invalidate(t)
  /\ UNCHANGED <<core, rare>>

\* The answer is lost: an error is shown, and the user may try again.
AnswerLost(t, op) ==
  /\ call[t][op].at = "done" /\ Rare
  /\ call' = [call EXCEPT ![t][op] = Rest]
  /\ UNCHANGED <<core, tab, fetch>>

\* The page is loaded anew: its state is gone, a call of its goes on unheard.
Reload(t) ==
  /\ Rare
  /\ tab' = [tab EXCEPT ![t] = Fresh] /\ fetch' = [fetch EXCEPT ![t] = NoAnswer]
  /\ call' = [call EXCEPT ![t] = [op \in Ops |->
       IF @[op].at \in {"sent", "unheard"} THEN [@[op] EXCEPT !.at = "unheard"] ELSE Rest]]
  /\ UNCHANGED core

\* issueIngestToken, for one of the user's channels, and its expiry in 15 minutes.
IssueIngestToken(t) ==
  /\ tab[t].on = "panel" /\ Rare
  /\ \E s \in Owned(user[t]) : tokens' = tokens \union {<<user[t], s>>}
  /\ UNCHANGED <<user, rows, minter, tab, fetch, call>>

TokenExpires(k) ==
  /\ tokens' = tokens \ {k}
  /\ UNCHANGED <<user, rows, minter, tab, fetch, call, rare>>

\* resolveChannelId, of a stream key: its SELECT ... LIMIT 1 finds any of these.
Resolved(k) == {s \in Slugs : rows[s] # NoChannel /\ rows[s].key = k}
-----------------------------------------------------------------------------
Query(t) == GetMyChannel(t) \/ Show(t)

StudioNext ==
  \/ \E t \in Tabs :
       \/ Query(t) \/ QueryFails(t) \/ Reload(t)
       \/ Submit(t) \/ SlugTaken(t) \/ RotateStreamKey(t) \/ IssueIngestToken(t)
       \/ \E s \in Slugs : CreateChannel(t, s)
       \/ \E op \in Ops : Heard(t, op) \/ AnswerLost(t, op)
  \/ \E k \in tokens : TokenExpires(k)

StudioSpec == StudioInit /\ [][StudioNext]_studioVars

\* Queries are made and answered, and answers arrive or are lost.
Answered(t, op) == Heard(t, op) \/ AnswerLost(t, op)
StudioFairness ==
  \A t \in Tabs : WF_studioVars(Query(t)) /\ \A op \in Ops : WF_studioVars(Answered(t, op))

StudioFairSpec == StudioSpec /\ StudioFairness
-----------------------------------------------------------------------------
\* A key or a token resolves to a channel of the user it was issued to, or to none.
StayHome ==
  /\ \A j \in DOMAIN minter : Resolved(j) \subseteq Owned(user[minter[j]])
  /\ \A k \in tokens : k[2] \in Owned(k[1])

\* The key a tab shows reaches the channel it is shown with when the user's latest
\* key was generated for it, unless its answer was lost or still travels, or the
\* user has two channels.
ShownReaches ==
  \A t \in Tabs, j \in DOMAIN minter :
    /\ tab[t].shown # 0 /\ call[t]["rotate"].at = "idle" /\ rare = 0
    /\ minter[j] = t /\ \A i \in (j + 1)..Latest : user[minter[i]] # user[t]
    /\ Cardinality(Owned(user[t])) = 1
    => Resolved(tab[t].shown) = {tab[t].channel}

\* Whatever users create, rotate, reload and retry in several tabs, no credential
\* leads to somebody else's channel, and a studio shows a key that works with the
\* channel it stands beside (channel.service.ts:30-44, page.tsx:111-139).
KeysResolve == StayHome /\ ShownReaches

\* What the panel shows: the key in its state, for as long as it has one, and the
\* prefix the query says only then.
Displayed(t) == IF tab[t].shown # 0 THEN tab[t].shown ELSE tab[t].prefix

\* The panel holds a key and was never told of a later one: it was generated for
\* another tab, or its answer was lost.
Overtaken(t) ==
  /\ tab[t].shown # 0
  /\ \E j \in (tab[t].shown + 1)..Latest :
       user[minter[j]] = user[t] /\ (minter[j] # t \/ rare > 0)

\* Once keys are no longer generated every studio comes to show a key, or the prefix of
\* one, that leads to a channel of its user, however answers were lost or overtaken,
\* except where the panel holds a key that was overtaken: that one it shows until the
\* page is left (page.tsx:118, 179-204, 266-274).
PrefixConverges ==
  \A t \in Tabs :
    <>[](Owned(user[t]) # {} => \/ \E s \in Owned(user[t]) : Displayed(t) = rows[s].key
                               \/ Overtaken(t))
=============================================================================
