-------------------------------- MODULE Routes --------------------------------
\* The address of every screen: parsing and writing the hash, the other mode's
\* version of a page, and the links of the frame around the screens
\* (src/frontend/src/app/routes.ts, hooks/useHashRoute.ts, components/shell).
\* A hash is its path, a sequence of segments, and its three parameters.
EXTENDS Cases, Integers, Sequences

NONE == -1   \* undefined, or a parameter that is absent
JUNK == -2   \* a parameter that is not a number
PART == -3   \* a parameter that is a number between 0 and 1

-------------------------------------------------------------------------------
(* The routes. *)

Modes == {"api", "demo"}
Names == {"home", "dashboard", "interviews", "interview", "approvals", "inside", "new", "integrations",
          "health", "funnel", "settings"}
DemoOnly == {"home", "funnel"}
InsideRoutes == {"inside", "new", "integrations", "health", "funnel", "settings"}

\* PATHS: the landing page has none; the segment of any other is called by its
\* route here, and BY_PATH is the inverse.
HasPath == Names \ {"home", "interview"}
Ids == {"1", "demo"}

Route(mode, name, t) == [mode |-> mode, name |-> name, id |-> "", t |-> t, tour |-> NONE, quote |-> NONE]

\* Number(raw), when it is finite and positive.
ParsePositive(raw) == IF raw > 0 \/ raw = PART THEN raw ELSE NONE

\* Math.floor, of what ParsePositive lets through.
Floor(n) == IF n = PART THEN 0 ELSE n

\* A segment that is empty ends the path before it begins, as in "#/demo//nova"; the
\* slashes at either end of a hash are dropped before it is split.
Named(segments) == IF segments # <<>> /\ segments[1] = "" THEN <<>> ELSE segments

ParseHash(hash, showcase) ==
    LET prefixed == hash.path # <<>> /\ Head(hash.path) = "demo"
        mode == IF showcase \/ prefixed THEN "demo" ELSE "api"
        rest == Named(IF prefixed THEN Tail(hash.path) ELSE hash.path)
        base == [Route(mode, IF mode = "demo" THEN "home" ELSE "dashboard", ParsePositive(hash.t))
                    EXCEPT !.tour = IF mode = "demo" THEN Floor(ParsePositive(hash.tour)) ELSE NONE]
    IN  CASE rest = <<>> -> base
          [] Len(rest) = 2 /\ rest[1] = "interviews" ->
                [base EXCEPT !.name = "interview", !.id = rest[2],
                             !.quote = IF hash.citacao = JUNK THEN NONE ELSE hash.citacao]
          [] Len(rest) = 1 /\ rest[1] \in HasPath ->
                CASE showcase /\ rest[1] = "settings" -> [base EXCEPT !.name = "home"]
                  [] mode = "api" /\ rest[1] \in DemoOnly -> [base EXCEPT !.name = "dashboard"]
                  [] OTHER -> [base EXCEPT !.name = rest[1]]
          [] OTHER -> [base EXCEPT !.name = "dashboard"]

\* mutant: the anchor of the clock is left out
RouteToHashWithoutClock(r) ==
    [path |-> (IF r.mode = "demo" THEN <<"demo">> ELSE <<>>)
                \o CASE r.name = "interview" -> <<"interviews", r.id>>
                     [] r.name = "home" -> <<>>
                     [] OTHER -> <<r.name>>,
     t |-> NONE,
     citacao |-> IF r.name = "interview" THEN r.quote ELSE NONE,
     tour |-> IF r.mode = "demo" THEN r.tour ELSE NONE]
RouteToHash(r) ==
    [path |-> (IF r.mode = "demo" THEN <<"demo">> ELSE <<>>)
                \o CASE r.name = "interview" -> <<"interviews", r.id>>
                     [] r.name = "home" -> <<>>
                     [] OTHER -> <<r.name>>,
     t |-> r.t,
     citacao |-> IF r.name = "interview" THEN r.quote ELSE NONE,
     tour |-> IF r.mode = "demo" THEN r.tour ELSE NONE]

\* The switch: an interview of one dataset means nothing to the other.
WithMode(r, mode) ==
    Route(mode,
          CASE mode = "api" /\ r.name \in DemoOnly -> "dashboard"
            [] r.name = "interview" -> "interviews"
            [] OTHER -> r.name,
          r.t)

-------------------------------------------------------------------------------
(* The frame. *)

\* What Chrome renders for a route: the settings exist in the full build alone.
Renders(r, showcase) == r.name = "settings" => ~showcase

\* MainNav, InsideNav and the brand, as routes; the mode switch is not in the
\* showcase.
MainNav(r) == {Route(r.mode, n, r.t) : n \in {"dashboard", "interviews", "approvals", "inside"}}
InsideNav(r, showcase) ==
    {Route(r.mode, n, r.t) :
        n \in {n \in InsideRoutes : ~(r.mode = "api" /\ n \in DemoOnly) /\ ~(showcase /\ n = "settings")}}
Brand(r) == IF r.mode = "demo" THEN Route("demo", "home", r.t) ELSE Route("api", "dashboard", NONE)
ModeSwitch(r, showcase) == IF showcase THEN {} ELSE {WithMode(r, mode) : mode \in Modes}

\* The sections of MainNav; the current one is marked.
Section(name) ==
    CASE name \in {"interviews", "interview"} -> "interviews"
      [] name \in InsideRoutes -> "inside"
      [] OTHER -> name

-------------------------------------------------------------------------------
(* The calls considered: every hash of a few segments. *)

PathSegments == HasPath \cup Ids \cup {"conteudo"}
Paths == {<<>>} \cup {<<s>> : s \in PathSegments} \cup {<<"demo", s>> : s \in PathSegments \ {"demo"}}
            \cup {<<"interviews", i>> : i \in Ids} \cup {<<"demo", "interviews", i>> : i \in Ids}
            \cup {<<"new", "1">>, <<"demo", "new", "1">>, <<"demo", "", "new">>, <<"demo", "", "interviews", "1">>}
Numbers == {NONE, JUNK, PART, 0, 2}
HashCalls ==
    [kind : {"hash"}, showcase : BOOLEAN,
     hash : [path : Paths, t : Numbers \cup {1}, tour : Numbers, citacao : Numbers \ {PART}]]

-------------------------------------------------------------------------------
(* What must hold. *)

\* A link that is copied opens the same page, in the same mode, at the same clock,
\* step and citation, whichever hash of those considered was typed (routes.ts:1-19 "a shared
\* link opens in the same mode"). Step 0, which a number under 1 is rounded to, is
\* no step, as is the absence of one (TourProvider.tsx:74, steps.ts:114).
Shown(r) == [r EXCEPT !.tour = IF @ = 0 THEN NONE ELSE @]
LinksReopenThePage ==
    input.kind = "hash" =>
        LET r == ParseHash(input.hash, input.showcase)
        IN  Shown(ParseHash(RouteToHash(r), input.showcase)) = Shown(r)

\* Every address lands on a screen that its build and mode have, and so does
\* every link of the frame around it, where it says and without leaving the mode;
\* the mode switch alone changes it, and never carries an interview from one
\* dataset to the other (routes.ts:21-24, 160-175, MainNav.tsx, InsideNav.tsx).
LinksLandWhereTheySay ==
    input.kind = "hash" =>
        LET r == ParseHash(input.hash, input.showcase)
            lands(link) == ParseHash(RouteToHash(link), input.showcase) = link
                                /\ Renders(link, input.showcase)
        IN  /\ Renders(r, input.showcase)
            /\ input.showcase => r.mode = "demo"
            /\ r.mode = "api" => r.name \notin DemoOnly
            /\ \A link \in MainNav(r) \cup InsideNav(r, input.showcase) \cup {Brand(r)} :
                    lands(link) /\ link.mode = r.mode
            /\ \A link \in ModeSwitch(r, input.showcase) : lands(link) /\ link.name # "interview"
            /\ r.name # "home" => \E link \in MainNav(r) : link.name = Section(r.name)

\* An address and the page it opens determine each other.
AddressesHold == LinksReopenThePage /\ LinksLandWhereTheySay
===============================================================================
