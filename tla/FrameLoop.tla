------------------------------ MODULE FrameLoop ------------------------------
(***************************************************************************)
(* The drawing of the landing page (web/src/components/landing-network.tsx)*)
(* that follows the window: one effect measures the page in an animation   *)
(* frame, one computes a scene for the measured layout, and one draws it,  *)
(* in a loop of frames while motion is on and on demand while it is not.   *)
(*                                                                         *)
(* What is drawn is abstracted to what it was drawn from: the layout, the  *)
(* text it must not cover, the scene and the scroll position.  A browser   *)
(* runs no animation frames in a hidden document.                          *)
(***************************************************************************)
EXTENDS Integers

CONSTANTS
    Layouts,     \* sizes of the page
    Texts,       \* contents of the page
    Scrolls,     \* scroll positions
    MaxChanges   \* bound on what the visitor does, for TLC

VARIABLES
    page,        \* the window: its layout, text and scroll position
    hidden,      \* document.hidden
    still,       \* prefers-reduced-motion
    changes,     \* number of things the visitor did, for MaxChanges
    mounted,
    measuring,   \* a measuring frame is requested
    state,       \* React state as committed: layout, text and scene
    wanted,      \* React state as set
    frame,       \* the handle of the drawing frame is set
    queued,      \* drawing frames the browser will run
    dirty,       \* scrollDirty
    scroll,      \* the position the drawing knows
    drawn

vars == <<page, hidden, still, changes, mounted, measuring, state, wanted, frame, queued, dirty, scroll, drawn>>

FrameAssumption == Layouts # {} /\ Texts # {} /\ Scrolls # {} /\ MaxChanges \in Nat

None == -1

Blank == [layout |-> None, text |-> None, scene |-> None, scroll |-> None]

NoState == [layout |-> None, text |-> None, scene |-> None]

\* One type invariant for the effects.
TypeOK ==
    /\ page \in [layout : Layouts, text : Texts, scroll : Scrolls]
    /\ {hidden, still, mounted, measuring, frame, dirty} \subseteq BOOLEAN
    /\ changes \in 0 .. MaxChanges
    /\ \A s \in {state, wanted} :
          s \in [layout : Layouts \cup {None}, text : Texts \cup {None}, scene : Layouts \cup {None}]
    /\ queued \in Nat /\ scroll \in Scrolls \cup {None}
    /\ drawn \in [layout : Layouts \cup {None}, text : Texts \cup {None},
                  scene : Layouts \cup {None}, scroll : Scrolls \cup {None}]

\* The first page view: the first effect measures at once.
Init ==
    /\ page = CHOOSE p \in [layout : Layouts, text : Texts, scroll : Scrolls] : TRUE
    /\ hidden = FALSE /\ still = FALSE /\ changes = 0
    /\ mounted = TRUE /\ measuring = FALSE
    /\ state = NoState
    /\ wanted = [layout |-> page.layout, text |-> page.text, scene |-> None]
    /\ frame = FALSE /\ queued = 0 /\ dirty = FALSE /\ scroll = None
    /\ drawn = Blank

Animated == ~still /\ ~hidden

\* setViewport and render: without a new position the viewport stays.
Render(s, y, moved) ==
    drawn' = [layout |-> s.layout, text |-> s.text, scene |-> s.scene,
              scroll |-> IF moved THEN y ELSE drawn.scroll]

Cancelled == IF frame THEN queued - 1 ELSE queued

\* Mutant: the old frame is not cancelled.
SyncUncancelled(s) ==
    /\ scroll' = page.scroll
    /\ Render(s, page.scroll, TRUE) /\ dirty' = FALSE
    /\ frame' = (~still' /\ ~hidden')
    /\ queued' = IF ~still' /\ ~hidden' THEN queued + 1 ELSE queued

\* sync: the frame under way is cancelled, the picture drawn at once, and the
\* loop goes on if motion is on.
Sync(s) ==
    /\ scroll' = page.scroll
    /\ Render(s, page.scroll, TRUE) /\ dirty' = FALSE
    /\ frame' = (~still' /\ ~hidden')
    /\ queued' = IF ~still' /\ ~hidden' THEN Cancelled + 1 ELSE Cancelled

\* The drawing effect runs only with a scene.
Drawing == mounted /\ state.scene # None

Changed == changes < MaxChanges /\ changes' = changes + 1

-----------------------------------------------------------------------------
(* Measuring.                                                              *)

\* ResizeObserver, MutationObserver, resize and fonts.ready call schedule,
\* which asks for one frame at a time.
ChangePage ==
    /\ Changed
    /\ \E l \in Layouts, x \in Texts : page' = [page EXCEPT !.layout = l, !.text = x]
    /\ measuring' = (measuring \/ mounted)
    /\ UNCHANGED <<hidden, still, mounted, state, wanted, frame, queued, dirty, scroll, drawn>>

\* measure: setView and setOcclusions, which keep a state that is equal.
Measure ==
    /\ measuring /\ ~hidden
    /\ measuring' = FALSE
    /\ wanted' = [wanted EXCEPT !.layout = page.layout, !.text = page.text]
    /\ UNCHANGED <<page, hidden, still, changes, mounted, state, frame, queued, dirty, scroll, drawn>>

\* React commits: with a new layout the second effect sets a new scene; the
\* third ends the old drawing and starts anew, at first with the old scene.
Commit ==
    /\ mounted /\ wanted # state
    /\ state' = wanted
    /\ wanted' = [wanted EXCEPT !.scene = wanted.layout]
    /\ UNCHANGED <<page, hidden, still, changes, mounted, measuring>>
    /\ IF wanted.scene = None
       THEN UNCHANGED <<frame, queued, dirty, scroll, drawn>>
       ELSE Sync(wanted)

-----------------------------------------------------------------------------
(* Drawing.                                                                *)

\* tick: render what is known, and ask for the next frame if motion is on.
Tick ==
    /\ queued > 0 /\ ~hidden
    /\ Render(state, scroll, dirty) /\ dirty' = FALSE
    /\ frame' = Animated
    /\ queued' = IF Animated THEN queued ELSE queued - 1
    /\ UNCHANGED <<page, hidden, still, changes, mounted, measuring, state, wanted, scroll>>

RequestFrame ==
    /\ frame' = TRUE
    /\ queued' = IF frame THEN queued ELSE queued + 1

\* Mutant: the position is noted but no frame requested.
OnScrollQuietly ==
    /\ Changed
    /\ \E y \in Scrolls :
          /\ page' = [page EXCEPT !.scroll = y]
          /\ IF Drawing THEN scroll' = y /\ dirty' = TRUE ELSE UNCHANGED <<scroll, dirty>>
    /\ UNCHANGED <<hidden, still, mounted, measuring, state, wanted, frame, queued, drawn>>

\* onScroll, if the effect listens.
OnScroll ==
    /\ Changed
    /\ \E y \in Scrolls :
          /\ page' = [page EXCEPT !.scroll = y]
          /\ IF Drawing THEN scroll' = y /\ dirty' = TRUE /\ RequestFrame
                        ELSE UNCHANGED <<scroll, dirty, frame, queued>>
    /\ UNCHANGED <<hidden, still, mounted, measuring, state, wanted, drawn>>

\* onPointer: the cursor is no part of the picture here.
OnPointer ==
    /\ Drawing /\ ~hidden
    /\ RequestFrame
    /\ UNCHANGED <<page, hidden, still, changes, mounted, measuring, state, wanted, dirty, scroll, drawn>>

\* visibilitychange and a change of prefers-reduced-motion both call sync.
ChangeMotion ==
    /\ Changed
    /\ \/ hidden' = ~hidden /\ UNCHANGED still
       \/ still' = ~still /\ UNCHANGED hidden
    /\ IF Drawing THEN Sync(state) ELSE UNCHANGED <<frame, queued, dirty, scroll, drawn>>
    /\ UNCHANGED <<page, mounted, measuring, state, wanted>>

\* The visitor leaves: both effects are cleaned up.
Unmount ==
    /\ mounted /\ Changed
    /\ mounted' = FALSE /\ measuring' = FALSE
    /\ frame' = FALSE /\ queued' = Cancelled
    /\ UNCHANGED <<page, hidden, still, state, wanted, dirty, scroll, drawn>>

\* ... and comes back, to new components.
Mount ==
    /\ ~mounted /\ Changed
    /\ mounted' = TRUE
    /\ state' = NoState
    /\ wanted' = [layout |-> page.layout, text |-> page.text, scene |-> None]
    /\ dirty' = FALSE /\ scroll' = None /\ drawn' = Blank
    /\ UNCHANGED <<page, hidden, still, measuring, frame, queued>>

Next ==
    \/ ChangePage \/ Measure \/ Commit \/ Tick \/ OnScroll \/ OnPointer
    \/ ChangeMotion \/ Unmount \/ Mount

\* The browser runs requested frames of a visible document, and React commits.
Fairness == WF_vars(Measure) /\ WF_vars(Commit) /\ WF_vars(Tick)

Spec == Init /\ [][Next]_vars /\ Fairness

-----------------------------------------------------------------------------
\* There is one loop of frames at most, whatever restarts it, and none that
\* survives the component.
OneLoop == queued <= (IF mounted THEN 1 ELSE 0)

\* The drawing shows the page as it is.
Current ==
    drawn = [layout |-> page.layout, text |-> page.text, scene |-> page.layout, scroll |-> page.scroll]

\* When the visitor does nothing more, a visible page ends up drawn as it is,
\* with motion on or off, and stays so.
CatchesUp == <>[](mounted /\ ~hidden => Current)
=============================================================================
