------------------------------- MODULE Coachmark ------------------------------
\* The geometry and the keyboard of the guided tour's coachmark: what is dimmed,
\* where the page scrolls to, where the coachmark goes, where Tab leads
\* (src/frontend/src/features/tour/TourOverlay.tsx).  A box is its top, left,
\* width and height, in the units of the constants.
EXTENDS Cases, Integers, Sequences, Functions

CONSTANTS
    PAD,          \* between the target's edge and the spotlight's
    GAP,          \* between the spotlight and the coachmark
    MARGIN,       \* between the coachmark and the edge of the screen
    POP_WIDTH,    \* the coachmark's width, where the screen has it
    SHEET_BELOW   \* narrower screens have a sheet at the bottom instead

ASSUME CoachmarkAssumption ==
    /\ {PAD, GAP, MARGIN, POP_WIDTH, SHEET_BELOW} \subseteq Nat
    /\ PAD <= MARGIN
    /\ SHEET_BELOW > POP_WIDTH + 2 * MARGIN

Box(top, left, width, height) == [top |-> top, left |-> left, width |-> width, height |-> height]
NoHole == Box(0, 0, -1, -1)

AtLeast(n, low) == IF n < low THEN low ELSE n
AtMost(n, high) == IF n > high THEN high ELSE n

-------------------------------------------------------------------------------
(* The spotlight and the page. *)

HoleOf(target) ==
    Box(target.top - PAD, target.left - PAD, target.width + 2 * PAD, target.height + 2 * PAD)

\* Blockers: above, below, left and right of the hole; all of the screen without one.
Blockers(hole, screen) ==
    IF hole = NoHole THEN {Box(0, 0, screen.width, screen.height)}
    ELSE LET top == AtLeast(hole.top, 0)
             bottom == AtMost(hole.top + hole.height, screen.height)
             left == AtLeast(hole.left, 0)
             right == AtMost(hole.left + hole.width, screen.width)
         IN  {Box(0, 0, screen.width, top),
              Box(bottom, 0, screen.width, screen.height - bottom),
              Box(top, 0, left, AtLeast(bottom - top, 0)),
              Box(top, right, screen.width - right, AtLeast(bottom - top, 0))}

\* Room is reserved under the target when the coachmark cannot sit beside it.
Reserved(target, screen, popHeight) ==
    LET popWidth == AtMost(POP_WIDTH, screen.width - 2 * MARGIN)
        sideRoom == \/ target.left - GAP - popWidth >= MARGIN
                    \/ target.left + target.width + GAP + popWidth <= screen.width - MARGIN
    IN  IF screen.width < SHEET_BELOW \/ ~sideRoom THEN popHeight + GAP ELSE 0

\* bringIntoView: where the target is once the page has scrolled, the page being
\* long enough; target.top is in the page here.
\* mutant: the room for the coachmark is not taken away
BroughtUnder(target, screen, masthead, reserve) ==
    LET top == masthead + MARGIN
        available == screen.height - top - MARGIN
        y == IF target.height >= available THEN target.top - top
             ELSE target.top - top - (available - target.height) \div 2
    IN  [target EXCEPT !.top = @ - AtLeast(y, 0)]
BroughtIntoView(target, screen, masthead, reserve) ==
    LET top == masthead + MARGIN
        available == screen.height - top - reserve - MARGIN
        y == IF target.height >= available THEN target.top - top
             ELSE target.top - top - (available - target.height) \div 2
    IN  [target EXCEPT !.top = @ - AtLeast(y, 0)]

-------------------------------------------------------------------------------
(* The coachmark. *)

ClampLeft(n, size, screen) == AtMost(AtLeast(n, MARGIN), screen.width - size.width - MARGIN)
ClampTop(n, size, screen, masthead) ==
    AtMost(AtLeast(n, masthead + MARGIN), screen.height - size.height - MARGIN)

\* Below, above, right or left of the target, the first that fits; the corner
\* when none does.
PlaceCoachmark(hole, size, screen, masthead) ==
    LET at(top, left) == Box(top, left, size.width, size.height)
        centred == ClampLeft(hole.left + (hole.width - size.width) \div 2, size, screen)
        level == ClampTop(hole.top, size, screen, masthead)
        below == hole.top + hole.height + GAP
        above == hole.top - GAP - size.height
        right == hole.left + hole.width + GAP
        left == hole.left - GAP - size.width
    IN  CASE hole = NoHole ->
                at(AtLeast((screen.height - size.height) \div 2, masthead + MARGIN),
                   (screen.width - size.width) \div 2)
          [] hole # NoHole /\ below + size.height <= screen.height - MARGIN -> at(below, centred)
          [] hole # NoHole /\ below + size.height > screen.height - MARGIN /\ above >= masthead + MARGIN ->
                at(above, centred)
          [] OTHER ->
                CASE right + size.width <= screen.width - MARGIN -> at(level, right)
                  [] right + size.width > screen.width - MARGIN /\ left >= MARGIN -> at(level, left)
                  [] OTHER -> at(screen.height - size.height - MARGIN, screen.width - size.width - MARGIN)

\* Where Tab leads from what has the focus: the coachmark's own order, its title
\* being focused by the step alone, and outside it the page.
Order == <<"close", "title", "previous", "next">>
Focusable(step) == IF step = 0 THEN <<"close", "next">> ELSE <<"close", "previous", "next">>
PlaceOf(item) == CHOOSE k \in DOMAIN Order : Order[k] = item
\* Without the handler: the next item, or the page.
BrowserTab(focused, shift, step) ==
    LET items == {PlaceOf(item) : item \in Range(Focusable(step))}
        ahead == IF focused = "page" THEN {}
                 ELSE {k \in items : IF shift THEN k < PlaceOf(focused) ELSE k > PlaceOf(focused)}
    IN  IF ahead = {} THEN "page"
        ELSE Order[CHOOSE k \in ahead : \A j \in ahead : IF shift THEN j <= k ELSE j >= k]
TabFrom(focused, shift, step) ==
    LET items == Focusable(step)
    IN  CASE shift /\ focused \in {items[1], "page"} -> items[Len(items)]
          [] ~shift /\ focused \in {items[Len(items)], "page"} -> items[1]
          [] OTHER -> BrowserTab(focused, shift, step)

-------------------------------------------------------------------------------
(* The calls considered: screens, targets in and out of them. *)

TourScreens == {[width |-> 80, height |-> 60], [width |-> 130, height |-> 80]}
Targets ==
    {Box(top, left, width, height) :
        top \in {-40, -6, 4, 12, 30, 52, 90}, left \in {-5, 4, 40, 70}, width \in {6, 46, 120}, height \in {4, 26, 70}}

PlaceCalls == [kind : {"place"}, screen : TourScreens, masthead : {0, 6}, popHeight : {20, 28}, target : Targets]
TabCalls == [kind : {"tab"}, step : 0 .. 1, shift : BOOLEAN,
             focused : {"page", "close", "title", "previous", "next"}]

-------------------------------------------------------------------------------
(* What must hold. *)

Overlapping(a, b) ==
    /\ a.top < b.top + b.height /\ b.top < a.top + a.height
    /\ a.left < b.left + b.width /\ b.left < a.left + a.width
Covers(box, x, y) ==
    /\ box.left <= x /\ x < box.left + box.width
    /\ box.top <= y /\ y < box.top + box.height

SizeOf(call) == [width |-> AtMost(POP_WIDTH, call.screen.width - 2 * MARGIN), height |-> call.popHeight]
OnScreen(box, call) ==
    /\ box.left >= MARGIN /\ box.left + box.width <= call.screen.width - MARGIN
    /\ box.top >= call.masthead + MARGIN /\ box.top + box.height <= call.screen.height - MARGIN

\* Every point of the screen is dimmed and out of the pointer's reach unless it is
\* in the hole, whichever part of the target is on the screen
\* (TourOverlay.tsx:263 "Dims and blocks everything except the hole").
OnlyTheHoleIsLive ==
    input.kind = "place" =>
        LET hole == HoleOf(input.target)
            blocked(x, y) == \E b \in Blockers(hole, input.screen) : Covers(b, x, y)
            xs == {0, hole.left - 1, hole.left, hole.left + hole.width - 1, hole.left + hole.width, input.screen.width - 1}
            ys == {0, hole.top - 1, hole.top, hole.top + hole.height - 1, hole.top + hole.height, input.screen.height - 1}
        IN  \A x \in xs \cap (0 .. input.screen.width - 1), y \in ys \cap (0 .. input.screen.height - 1) :
                blocked(x, y) = ~Covers(hole, x, y)

\* While any of the target is in the space below the masthead the coachmark is
\* whole on the screen, clear of the masthead, and covers the target only where
\* none of its four sides has room; a target that is out of that space is
\* followed out of it (TourOverlay.tsx:288-292 "the first that fits whole").
CoachmarkIsOnTheScreen ==
    input.kind = "place" =>
        LET hole == HoleOf(input.target)
            size == SizeOf(input)
            pop == PlaceCoachmark(hole, size, input.screen, input.masthead)
            centre == PlaceCoachmark(NoHole, size, input.screen, input.masthead)
            inView == /\ hole.top + hole.height + GAP >= input.masthead + MARGIN
                      /\ hole.top - GAP <= input.screen.height - MARGIN
            room == \/ hole.left + hole.width + GAP + size.width <= input.screen.width - MARGIN
                    \/ hole.left - GAP - size.width >= MARGIN
        IN  /\ OnScreen(centre, input)
            /\ inView => OnScreen(pop, input)
            /\ inView /\ room => ~Overlapping(pop, hole)

\* A step scrolls its target to where the coachmark can be read beside it: the
\* target is in view, and where there is room for the coachmark beside the
\* spotlight, or under it, it is not covered (TourOverlay.tsx:42-46, 122-137).
ScrolledTargetIsNotCovered ==
    input.kind = "place" /\ input.target.top >= input.masthead + MARGIN + PAD =>
        LET reserve == Reserved(input.target, input.screen, input.popHeight)
            target == BroughtIntoView(input.target, input.screen, input.masthead, reserve)
            hole == HoleOf(target)
            pop == PlaceCoachmark(hole, SizeOf(input), input.screen, input.masthead)
            available == input.screen.height - input.masthead - 2 * MARGIN - reserve
            width == SizeOf(input).width
            beside == \/ hole.left - GAP - width >= MARGIN
                      \/ hole.left + hole.width + GAP + width <= input.screen.width - MARGIN
        IN  /\ OnScreen(pop, input)
            /\ target.top >= input.masthead + MARGIN
            /\ target.top < input.screen.height
            /\ beside \/ (reserve > 0 /\ hole.height <= available) => ~Overlapping(pop, hole)

\* Tab never leaves the coachmark, in either direction, and comes into it from the
\* page (TourOverlay.tsx:156 "Tab stays in the coachmark").
TabStaysInTheCoachmark ==
    input.kind = "tab" =>
        LET next == TabFrom(input.focused, input.shift, input.step)
        IN  next \in Range(Focusable(input.step)) /\ next # input.focused

\* The step's target can be seen and used, nothing else can, and the coachmark can
\* always be read and left by the keyboard.
TargetAndCoachmarkAreUsable ==
    OnlyTheHoleIsLive /\ CoachmarkIsOnTheScreen /\ ScrolledTargetIsNotCovered /\ TabStaysInTheCoachmark
===============================================================================
