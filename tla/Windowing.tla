------------------------------ MODULE Windowing -------------------------------
\* The list of interviews above a number of rows: only those near the viewport are
\* in the page (src/frontend/src/components/ui/VirtualList.tsx, used by
\* features/interviews/InterviewListView.tsx).  Lengths are in pixels.
EXTENDS Integers, FiniteSetsExt

CONSTANTS
    Threshold,       \* threshold: up to here every row is in the page
    RowHeight,
    ViewportHeight,
    Overscan,        \* rows rendered above and below the viewport
    MaxItems         \* bound: rows in the list

ASSUME WindowingAssumption ==
    /\ {Threshold, MaxItems} \subseteq Nat /\ {RowHeight, ViewportHeight, Overscan} \subseteq Nat \ {0}
    /\ Threshold * RowHeight > ViewportHeight

VARIABLES
    items,      \* how many rows pass the filter and the search
    domTop,     \* scrollTop of the element, 0 when there is none
    scrollTop,  \* scrollTop of the component
    frame,      \* the position an animation frame was asked to keep, or none
    told,       \* the element has moved and its scroll event is to come
    stale       \* history: the element was made anew since the component last heard of it

windowVars == <<items, domTop, scrollTop, frame, told, stale>>

NoFrame == -1

Windowed(n) == n > Threshold
Farthest(n) == IF Windowed(n) THEN n * RowHeight - ViewportHeight ELSE 0
Ceiling(a, b) == (a + b - 1) \div b

\* mutant: the window is as long as the viewport, wherever it begins
LastWithoutOverscan(n, top) == Min({n, Max({0, (top \div RowHeight) - Overscan}) + Ceiling(ViewportHeight, RowHeight)})

\* first and last: the rows from first on, before last.
FirstRow(top) == Max({0, (top \div RowHeight) - Overscan})
LastRow(n, top) == Min({n, FirstRow(top) + Ceiling(ViewportHeight, RowHeight) + Overscan * 2})

Rendered == IF Windowed(items) THEN FirstRow(scrollTop) .. LastRow(items, scrollTop) - 1 ELSE 0 .. items - 1

\* The rows a part of which is in the viewport when the element is at top.
InViewport(top) == {r \in 0 .. items - 1 : r * RowHeight < top + ViewportHeight /\ (r + 1) * RowHeight > top}

WindowingInit ==
    /\ items \in 1 .. MaxItems
    /\ domTop = 0 /\ scrollTop = 0 /\ frame = NoFrame /\ told = FALSE /\ stale = FALSE

\* A person scrolls, to anywhere.
Scroll(to) ==
    /\ Windowed(items) /\ to \in 0 .. Farthest(items) /\ to # domTop
    /\ domTop' = to /\ told' = TRUE
    /\ UNCHANGED <<items, scrollTop, frame, stale>>

\* onScroll: one frame is asked for, with the position of the event that asked.  A
\* browser tells of a scroll once at the start of an update, and runs in the same
\* update the frames that were asked for by then.
ScrollEvent ==
    /\ told /\ frame = NoFrame
    /\ told' = FALSE /\ frame' = domTop
    /\ UNCHANGED <<items, domTop, scrollTop, stale>>

\* setScrollTop, and with it the render that React schedules for it: an update of the
\* browser counts as over when the position it was given is on the screen.
Frame ==
    /\ frame # NoFrame
    /\ scrollTop' = frame /\ frame' = NoFrame /\ stale' = FALSE
    /\ UNCHANGED <<items, domTop, told>>

\* The filter, the search or a refresh of the list changes the number of rows.  A
\* shorter element moves up by itself; below the threshold there is no element, and
\* above it again it is a new one, at its top; with no row there is no component.
Resize(n) ==
    /\ n # items /\ frame = NoFrame
    /\ items' = n
    /\ domTop' = IF Windowed(items) THEN Min({domTop, Farthest(n)}) ELSE 0
    /\ told' = (Windowed(items) /\ Windowed(n) /\ (told \/ domTop' # domTop))
    /\ scrollTop' = IF n = 0 THEN 0 ELSE scrollTop
    /\ stale' = (n # 0 /\ (stale \/ (Windowed(items) /\ ~Windowed(n) /\ scrollTop # 0)))
    /\ UNCHANGED frame

WindowingNext ==
    \/ \E to \in 0 .. MaxItems * RowHeight : Scroll(to)
    \/ ScrollEvent \/ Frame
    \/ \E n \in 0 .. MaxItems : Resize(n)

WindowingSpec == WindowingInit /\ [][WindowingNext]_windowVars

-------------------------------------------------------------------------------
\* Properties

\* Once a browser's update is over, every row in the viewport is in the page, and
\* so is every row that comes into it while the next update is prepared, as far as
\* the rows kept beyond it reach.  The position kept across a crossing of the
\* threshold is the exception (VirtualList.tsx:19-20 "to hide scroll latency").
RowsOnScreenAreRendered ==
    ~told /\ frame = NoFrame /\ ~stale =>
        \A top \in 0 .. Farthest(items) :
            top - domTop \in -(Overscan * RowHeight) .. (Overscan - 1) * RowHeight =>
                InViewport(top) \subseteq Rendered
===============================================================================
