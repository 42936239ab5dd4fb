------------------------------ MODULE Landing ------------------------------
(***************************************************************************)
(* The curtain of the home page: a cloth that visitors tear off to get at   *)
(* the login form (apps/web/lib/tearable.ts, hooks/use-tearable.ts,         *)
(* components/landing, lib/landing-visibility.ts).                          *)
(*                                                                          *)
(* The hook's effect runs again whenever its parent is rendered anew, since *)
(* it gets a new onReveal each time; each run has its image, frame loop and *)
(* timers, which its cleanup stops, and all runs share the sheet.  Physics  *)
(* is arbitrary: links of a started sheet tear, and points that are not     *)
(* pinned leave the screen, one at a time.                                  *)
(***************************************************************************)
EXTENDS Integers, FiniteSets

CONSTANTS Cols, Rows,          \* the grid
          RatioNum, RatioDen,  \* revealRatio
          MaxRuns              \* bound on runs of the effect

ASSUME Grid  == Cols \in Nat \ {0} /\ Rows \in Nat \ {0}
ASSUME Ratio == RatioNum \in Nat /\ RatioDen \in Nat \ {0} /\ RatioNum < RatioDen
ASSUME SomeRuns == MaxRuns \in Nat \ {0}

VARIABLES
  until,    \* localStorage: the landing is hidden until the next midnight, or was
  gate,     \* LandingGate: where the page stands, visible and phase
  sheet,    \* clothRef.current
  run,      \* the runs of the effect
  last,     \* the number of runs so far; the last is the one not cleaned up
  ready,    \* the hook's `ready'
  revealed, \* revealedRef
  stray,    \* a timer that calls fireReveal and that no cleanup clears
  late      \* history: runs that started after their cleanup

curtainVars == <<until, gate, sheet, run, last, ready, revealed, stray, late>>

Runs   == 1..MaxRuns
Points == (0..Cols) \X (0..Rows)
Top    == {p \in Points : p[2] = 0}
\* A link joins a point with the one to its right or below it.
Links  == {l \in Points \X Points :
             \/ l[2] = <<l[1][1] + 1, l[1][2]>>
             \/ l[2] = <<l[1][1], l[1][2] + 1>>}

Sheet == [made : BOOLEAN, started : BOOLEAN, collapsing : BOOLEAN,
          torn : SUBSET Links, off : SUBSET Points]
Run   == [image : {"none", "loading", "here", "broken"}, clean : BOOLEAN,
          loop : BOOLEAN, auto : BOOLEAN, fall : BOOLEAN]
Gate  == [page : {"away", "here", "left"}, visible : BOOLEAN, phase : {"curtain", "revealed"}]

CurtainTypeOK ==
  /\ until \in {"none", "today", "past"} /\ gate \in Gate
  /\ sheet \in Sheet /\ run \in [Runs -> Run] /\ last \in 0..MaxRuns
  /\ ready \in BOOLEAN /\ revealed \in BOOLEAN /\ stray \in BOOLEAN /\ late \subseteq Runs

\* build: a pristine sheet, drawn as one image until it is touched.
Pristine == [made |-> TRUE, started |-> FALSE, collapsing |-> FALSE, torn |-> {}, off |-> {}]
NoRun    == [image |-> "none", clean |-> FALSE, loop |-> FALSE, auto |-> FALSE, fall |-> FALSE]

CurtainInit ==
  /\ until \in {"none", "today", "past"}
  /\ gate = [page |-> "away", visible |-> FALSE, phase |-> "curtain"]
  /\ sheet = [Pristine EXCEPT !.made = FALSE]
  /\ run = [e \in Runs |-> NoRun] /\ last = 0
  /\ ready = FALSE /\ revealed = FALSE /\ stray = FALSE /\ late = {}

Curtain == gate.visible /\ gate.phase = "curtain"
-----------------------------------------------------------------------------
(* tearable.ts.                                                             *)

Pinned == IF sheet.collapsing THEN {} ELSE Top
On     == Points \ sheet.off

\* attachedFraction's flood fill: the least set of points that holds the pinned ones
\* on screen and, with a point, those that an intact link ties to it.
Tied(p, q) == \E l \in Links \ sheet.torn : {l[1], l[2]} = {p, q}
Attached ==
  LET Closed(S) == /\ Pinned \intersect On \subseteq S
                   /\ \A p \in S, q \in On : Tied(p, q) => q \in S
  IN {p \in On : \A S \in SUBSET On : Closed(S) => p \in S}

\* More than revealRatio of what is on screen hangs free.
LooseEnough ==
  Cardinality(On \ Attached) * RatioDen > RatioNum * Cardinality(On)

AllGone == On = {}

\* collapse: unpin the top edge.
Falling(s) == [s EXCEPT !.collapsing = TRUE, !.started = TRUE]

\* slice: cut the middle column loose, and collapse.
Middle == {p \in Points : p[1] = (Cols + 1) \div 2}
Sliced(s) ==
  Falling([s EXCEPT !.torn = @ \union {l \in Links : {l[1], l[2]} \intersect Middle # {}}])

\* step: a point that is not pinned has fallen well past the bottom.
Drop(p) ==
  /\ sheet.made /\ sheet.started /\ \E e \in Runs : run[e].loop
  /\ p \in On \ Pinned
  /\ sheet' = [sheet EXCEPT !.off = @ \union {p}]
  /\ UNCHANGED <<until, gate, run, last, ready, revealed, stray, late>>

\* step: a link whose ends are on screen is stretched past its limit.
Tear(l) ==
  /\ sheet.made /\ sheet.started /\ \E e \in Runs : run[e].loop
  /\ l \in Links \ sheet.torn /\ {l[1], l[2]} \subseteq On
  /\ sheet' = [sheet EXCEPT !.torn = @ \union {l}]
  /\ UNCHANGED <<until, gate, run, last, ready, revealed, stray, late>>

\* pointerGrab: the sheet goes live, and a link under the cursor may be cut.
Grab ==
  /\ Curtain /\ sheet.made
  /\ \E cut \in SUBSET (Links \ sheet.torn) :
       /\ Cardinality(cut) <= 1
       /\ sheet' = [sheet EXCEPT !.started = TRUE, !.torn = @ \union cut]
  /\ UNCHANGED <<until, gate, run, last, ready, revealed, stray, late>>

\* The ResizeObserver: the sheet is built anew, unless it is falling.
Resize ==
  /\ Curtain /\ sheet.made /\ ~ sheet.collapsing
  /\ sheet' = Pristine
  /\ UNCHANGED <<until, gate, run, last, ready, revealed, stray, late>>
-----------------------------------------------------------------------------
(* use-tearable.ts.                                                         *)

\* Slip: the fallback timer is not cleared.
CleanedButFall(r) == [r EXCEPT !.clean = TRUE, !.loop = FALSE, !.auto = FALSE]
\* The cleanup of a run: the loop and both timers end; img.onload stays.
Cleaned(r) == [r EXCEPT !.clean = TRUE, !.loop = FALSE, !.auto = FALSE, !.fall = FALSE]

\* Slip: no safety net.
StartedBare(r) == [r EXCEPT !.image = "here", !.loop = TRUE]
\* start: a new sheet, the automatic collapse and the frame loop.
Started(r) == [r EXCEPT !.image = "here", !.loop = TRUE, !.auto = TRUE]

\* A run of the effect, on the runs given: its image is there at once, or loads.
Begins(runs, e) ==
  \/ /\ run' = [runs EXCEPT ![e] = Started(NoRun)]
     /\ sheet' = Pristine /\ ready' = TRUE
  \/ /\ run' = [runs EXCEPT ![e] = [NoRun EXCEPT !.image = "loading"]]
     /\ UNCHANGED <<sheet, ready>>

\* img.onload, also of a run that was cleaned up: then nothing stops what it starts.
ImageLoads(e) ==
  /\ run[e].image = "loading"
  /\ run' = [run EXCEPT ![e] = Started(@)]
  /\ sheet' = Pristine /\ ready' = TRUE
  /\ late' = IF run[e].clean THEN late \union {e} ELSE late
  /\ UNCHANGED <<until, gate, last, revealed, stray>>
ImageBreaks(e) ==
  /\ run[e].image = "loading"
  /\ run' = [run EXCEPT ![e].image = "broken"]
  /\ UNCHANGED <<until, gate, sheet, last, ready, revealed, stray, late>>

\* triggerCollapse, on the runs given: the sheet falls and the fallback timer is set;
\* a timer still set before it can no longer be cleared.
Collapse(runs, e) ==
  IF sheet.made /\ ~ sheet.collapsing
  THEN /\ sheet' = Falling(sheet)
       /\ run' = [runs EXCEPT ![e].fall = TRUE]
       /\ stray' = (stray \/ runs[e].fall)
  ELSE run' = runs /\ UNCHANGED <<sheet, stray>>

\* The loop, every eighth frame: enough has come loose.
LoosePart(e) ==
  /\ run[e].loop /\ sheet.made /\ ~ sheet.collapsing /\ LooseEnough
  /\ Collapse(run, e)
  /\ UNCHANGED <<until, gate, last, ready, revealed, late>>

AutoFires(e) ==
  /\ run[e].auto
  /\ Collapse([run EXCEPT ![e].auto = FALSE], e)
  /\ UNCHANGED <<until, gate, last, ready, revealed, late>>

\* fireReveal, once: the gate takes the curtain away, which cleans up the last run.
Reveal(runs) ==
  /\ revealed' = TRUE
  /\ IF revealed \/ ~ Curtain
     THEN run' = runs /\ UNCHANGED gate
     ELSE /\ gate' = [gate EXCEPT !.phase = "revealed"]
          /\ run' = [runs EXCEPT ![last] = Cleaned(@)]

FallFires(e) ==
  /\ run[e].fall
  /\ Reveal([run EXCEPT ![e].fall = FALSE])
  /\ UNCHANGED <<until, sheet, last, ready, stray, late>>
StrayFires ==
  /\ stray /\ stray' = FALSE
  /\ Reveal(run)
  /\ UNCHANGED <<until, sheet, last, ready, late>>

\* The loop: the falling sheet is off the screen.
SheetGone(e) ==
  /\ run[e].loop /\ sheet.collapsing /\ AllGone /\ ~ revealed
  /\ Reveal(run)
  /\ UNCHANGED <<until, sheet, last, ready, stray, late>>

\* The button, shown once ready; its timer is cleared by nobody.
Skip ==
  /\ Curtain /\ ready
  /\ sheet' = Sliced(sheet) /\ stray' = TRUE
  /\ UNCHANGED <<until, gate, run, last, ready, revealed, late>>
-----------------------------------------------------------------------------
(* The page.                                                                *)

\* landingHidden: a day that is over is forgotten.
HiddenNow == until = "today"

\* The home page is opened; unless hidden for today, the curtain is shown and the
\* effect runs.
Open ==
  /\ gate.page = "away"
  /\ until' = IF until = "past" THEN "none" ELSE until
  /\ gate' = [gate EXCEPT !.page = "here", !.visible = ~ HiddenNow]
  /\ IF HiddenNow
     THEN UNCHANGED <<sheet, run, last, ready>>
     ELSE last' = 1 /\ Begins(run, 1)
  /\ UNCHANGED <<revealed, stray, late>>

\* The live list has changed, HomePage is rendered, and LandingGate with it: the
\* effect is cleaned up and run again.
ListChanges ==
  /\ Curtain /\ last < MaxRuns
  /\ last' = last + 1
  /\ Begins([run EXCEPT ![last] = Cleaned(@)], last + 1)
  /\ UNCHANGED <<until, gate, revealed, stray, late>>

\* The gate or the whole page goes away; a curtain still up is cleaned up.
Goes(g) ==
  /\ gate' = g
  /\ run' = IF Curtain THEN [run EXCEPT ![last] = Cleaned(@)] ELSE run
  /\ UNCHANGED <<until, sheet, last, ready, revealed, stray, late>>

\* LandingLogin: logged in, or just looking around.  Keys reach the form behind the
\* curtain; only pointers do not.
LoginDone == gate.visible /\ Goes([gate EXCEPT !.visible = FALSE])
LeavePage == gate.page = "here" /\ Goes([gate EXCEPT !.page = "left", !.visible = FALSE])

\* The checkbox of the form.
ToggleDismiss ==
  /\ gate.visible
  /\ until' \in {"today", "none"}
  /\ UNCHANGED <<gate, sheet, run, last, ready, revealed, stray, late>>

Midnight ==
  /\ until = "today" /\ until' = "past"
  /\ UNCHANGED <<gate, sheet, run, last, ready, revealed, stray, late>>
-----------------------------------------------------------------------------
Loaded(e) == ImageLoads(e) \/ ImageBreaks(e)

CurtainNext ==
  \/ Open \/ ListChanges \/ LoginDone \/ LeavePage \/ ToggleDismiss \/ Midnight
  \/ Grab \/ Resize \/ Skip \/ StrayFires
  \/ \E p \in Points : Drop(p)
  \/ \E l \in Links : Tear(l)
  \/ \E e \in Runs : Loaded(e) \/ LoosePart(e) \/ AutoFires(e) \/ FallFires(e) \/ SheetGone(e)

CurtainSpec == CurtainInit /\ [][CurtainNext]_curtainVars

\* Images load or fail and timers fire; nobody has to touch anything.
CurtainFairness ==
  /\ WF_curtainVars(StrayFires)
  /\ \A e \in Runs : /\ WF_curtainVars(Loaded(e)) /\ WF_curtainVars(AutoFires(e))
                     /\ WF_curtainVars(FallFires(e))

CurtainFairSpec == CurtainSpec /\ CurtainFairness
-----------------------------------------------------------------------------
\* The form never shows up behind a sheet that hangs: the curtain is only taken away
\* when the sheet on screen is falling, through re-runs and resizes, unless Skip was
\* pressed on an earlier sheet or an image loaded after its run was cleaned up.
RevealEarned ==
  [][(~ revealed /\ revealed' /\ Curtain /\ late = {}) => (sheet.collapsing \/ stray)]_curtainVars

\* A visitor who does nothing still gets to the form: the curtain opens by itself,
\* once the live list stops changing, whatever was torn, resized or re-run before,
\* if the image could be loaded.
CurtainOpens == Curtain ~> (~ Curtain \/ run[last].image = "broken")
=============================================================================
