----------------------------- MODULE PageProofs -----------------------------
(***************************************************************************)
(* Theorems of what the page lets its user do: navigation, the windows of  *)
(* the configuration, the modes and the edits of the edit mode hold what   *)
(* MCPage checks of them on small instances, for any routes, screens,      *)
(* views, values, layouts, names, controls, areas and number of acts.      *)
(*                                                                         *)
(* The argument for navigation: what is still to be delivered, ended,      *)
(* drawn or written ends with what the address says, and what nothing is   *)
(* left to change says so already.                                         *)
(*                                                                         *)
(* The argument for the edits: an edit that was begun and has not ended    *)
(* claims the areas its views leave and those they go to. No two edits     *)
(* claim one area, because the lock of a zone is held from the gesture to  *)
(* the end of the animation, and an area that is claimed holds no view but *)
(* the edit's own. So what the edit does when its animation ends meets the *)
(* page as the gesture found it, and what it writes to the store is the    *)
(* page it leaves.                                                         *)
(***************************************************************************)
EXTENDS MCPage, SequenceTheorems, TLAPS

-----------------------------------------------------------------------------
(* Navigation. The address, the swiper and the pages, at any time: what is *)
(* still to be delivered, ended or written ends with the address, and what *)
(* it leaves alone agrees already.                                         *)
WalkTypes ==
  /\ TypeOK
  /\ Started => index \in DOMAIN screen /\ current \in Path
  /\ ~Started => /\ current = None /\ ends = 0 /\ timeouts = <<>> /\ update = None /\ frames = <<>>
                 /\ page = None /\ naps = {}

(* TypeOK in two parts: the styles of the container, and the rest.         *)
StyleTypes ==
  /\ held \in BOOLEAN /\ moving \in BOOLEAN /\ eased \in BOOLEAN /\ misled \in BOOLEAN
  /\ transform \in Place /\ nextTransform \in Place
  /\ nextTransition \in {None, "initial", "ease-out"}

BodyTypes ==
  /\ hash \in Path /\ events \in Seq(Path)
  /\ current \in Path \union {None} /\ update \in Page \union {None}
  /\ screen \in {<<>>} \union {ScreenOf[p] : p \in Page}
  /\ index \in Nat \ {0} /\ ends \in Nat /\ acts \in 0 .. MaxActs
  /\ timeouts \in Seq(Nat \ {0})
  /\ page \in Page \union {None}
  /\ active \subseteq Page /\ awake \subseteq Page /\ naps \subseteq Page
  /\ frames \in Seq(Nat \ {0}) /\ dot \in Nat \ {0} /\ bread \in Path \union {None}
  /\ overtaken \in BOOLEAN /\ belated \in BOOLEAN /\ lost \in BOOLEAN

(* The container is in the place of the index, or the next frame puts it   *)
(* there.                                                                  *)
ContainerComes ==
  (~held /\ ~misled) => nextTransform = index \/ (nextTransform = Empty /\ InPlace)

(* The last timer to come ends a swipe to the page there is.               *)
TimerComes == timeouts # <<>> /\ timeouts[Len(timeouts)] = index

AddressComes ==
  /\ events # <<>> => events[Len(events)] = hash
  /\ events = <<>> => Started /\ current = hash

DotComes ==
  (Started /\ ~overtaken) =>
    /\ \A k \in DOMAIN frames : frames[k] \in DOMAIN screen
    /\ frames = <<>> => dot = index
    /\ frames # <<>> => frames[Len(frames)] = index

(* While nothing is to be written, the breadcrumbs are those of the        *)
(* address, or an event is there that will change them.                    *)
PlaceComes ==
  (Started /\ ~overtaken /\ ~belated /\ ends = 0 /\ ~TimerComes) =>
    /\ update # None => screen[index] = update
    /\ update = None =>
         /\ screen[index] = Lead[current]
         /\ bread = hash \/ \E k \in DOMAIN events : events[k] # current

SleepComes ==
  (Started /\ ~lost) =>
    /\ page \in Pages(screen) /\ page \in awake
    /\ (ends = 0 /\ ~belated /\ ~TimerComes) => page = screen[index]
    /\ (awake \intersect Pages(screen)) \subseteq ({page} \union naps)

WalkInv == /\ WalkTypes /\ AddressComes /\ DotComes /\ PlaceComes /\ ActiveIsScreen /\ SleepComes
           /\ ContainerComes

LEMMA LastAppended ==
  ASSUME NEW S, NEW s \in Seq(S), NEW x \in S
  PROVE  /\ Append(s, x) \in Seq(S) /\ Append(s, x) # <<>>
         /\ Append(s, x)[Len(Append(s, x))] = x
<1>1. /\ Append(s, x) \in Seq(S) /\ Append(s, x) # <<>>
      /\ Len(Append(s, x)) = Len(s) + 1 /\ Append(s, x)[Len(s) + 1] = x
  BY AppendProperties
<1>2. QED
  BY <1>1, Zenon

LEMMA LastOfTail ==
  ASSUME NEW S, NEW s \in Seq(S), s # <<>>
  PROVE  /\ Head(s) = s[1] /\ Tail(s) \in Seq(S)
         /\ Tail(s) # <<>> => Tail(s)[Len(Tail(s))] = s[Len(s)]
         /\ Tail(s) = <<>> => s[Len(s)] = Head(s)
<1>1. /\ Head(s) = s[1] /\ Tail(s) \in Seq(S) /\ Len(Tail(s)) = Len(s) - 1
      /\ \A k \in 1 .. Len(Tail(s)) : Tail(s)[k] = s[k + 1]
  BY HeadTailProperties
<1>2. PICK n \in Nat \ {0} : n = Len(s)
  BY EmptySeq
<1>3. Len(Tail(s)) = n - 1 /\ (n - 1) + 1 = n /\ n - 1 \in Nat
  BY <1>1, <1>2
<1>4. ASSUME Tail(s) # <<>>
      PROVE  Tail(s)[n - 1] = s[n]
  <2>1. n - 1 \in Nat \ {0}
    BY <1>1, <1>3, <1>4, EmptySeq
  <2>2. n - 1 \in 1 .. n - 1
    BY <2>1
  <2>3. QED
    BY <1>1, <1>3, <2>2
<1>5. ASSUME Tail(s) = <<>>
      PROVE  n = 1
  <2>1. n - 1 = 0
    BY <1>3, <1>5, EmptySeq
  <2>2. QED
    BY <2>1
<1>6. QED
  BY <1>1, <1>2, <1>3, <1>4, <1>5

LEMMA WalkTypesAreParts ==
  /\ TypeOK <=> StyleTypes /\ BodyTypes
  /\ TypeOK' <=> StyleTypes' /\ BodyTypes'
  BY DEF TypeOK, StyleTypes, BodyTypes

LEMMA ScreenFacts ==
  ASSUME NEW p \in Page
  PROVE  /\ ScreenOf[p] \in Seq(Page) /\ p # None
         /\ At(p) \in DOMAIN ScreenOf[p] /\ ScreenOf[p][At(p)] = p
         /\ Pages(ScreenOf[p]) \subseteq Page /\ p \in Pages(ScreenOf[p])
         /\ \A q \in Pages(ScreenOf[p]) : q \in Page /\ ScreenOf[q] = ScreenOf[p]
<1>1. ScreenOf[p] \in Seq(Page) /\ p \in Pages(ScreenOf[p]) /\ p # None
  BY RoutesAssumption
<1>2. \E n \in DOMAIN ScreenOf[p] : ScreenOf[p][n] = p
  BY <1>1 DEF Pages
<1>3. At(p) \in DOMAIN ScreenOf[p] /\ ScreenOf[p][At(p)] = p
  BY <1>2 DEF At
<1>4. Pages(ScreenOf[p]) \subseteq Page
  BY <1>1 DEF Pages
<1>5. QED
  BY <1>1, <1>3, <1>4, RoutesAssumption

LEMMA RouteFacts ==
  ASSUME NEW e \in Path
  PROVE  Route(e) \in Page /\ Route(e) = Lead[e] /\ (e \in Page => Route(e) = e)
         /\ (e \notin Page => Len(ScreenOf[Route(e)]) = 1)
  BY RoutesAssumption DEF Route

(* A screen that is there is that of each of its pages.                    *)
LEMMA ShownScreen ==
  ASSUME WalkTypes, Started
  PROVE  /\ screen \in Seq(Page) /\ screen[index] \in Page /\ screen[index] \in Pages(screen)
         /\ Pages(screen) \subseteq Page
         /\ \A q \in Pages(screen) : /\ ScreenOf[q] = screen
                                     /\ At(q) \in DOMAIN screen /\ screen[At(q)] = q
<1>1. PICK p \in Page : screen = ScreenOf[p]
  BY DEF WalkTypes, TypeOK, Started
<1>2. screen \in Seq(Page) /\ index \in DOMAIN screen
  BY <1>1, ScreenFacts DEF WalkTypes
<1>3. \A q \in Pages(screen) : q \in Page /\ ScreenOf[q] = screen
  BY <1>1, ScreenFacts
<1>4. \A q \in Pages(screen) : At(q) \in DOMAIN screen /\ screen[At(q)] = q
  BY <1>3, ScreenFacts
<1>5. screen[index] \in Page /\ screen[index] \in Pages(screen)
  BY <1>2 DEF Pages
<1>6. QED
  BY <1>2, <1>3, <1>4, <1>5

LEMMA WalkInit == Init => WalkInv
<1> SUFFICES ASSUME Init PROVE WalkInv
  OBVIOUS
<1>1. BodyTypes
  <2>1. events \in Seq(Path) /\ frames \in Seq(Nat \ {0}) /\ timeouts \in Seq(Nat \ {0})
    BY DEF Init
  <2>2. acts \in 0 .. MaxActs /\ index \in Nat \ {0} /\ ends \in Nat /\ dot \in Nat \ {0}
    BY RoutesAssumption DEF Init
  <2>3. QED
    BY <2>1, <2>2, Zenon DEF Init, BodyTypes
<1>2. StyleTypes /\ ContainerComes
  BY DEF Init, StyleTypes, ContainerComes, InPlace, Place, Empty
<1>3. ~Started /\ events = <<hash>> /\ Pages(screen) = {}
  BY DEF Init, Started, Pages
<1>4. WalkTypes /\ AddressComes
  BY <1>1, <1>2, <1>3, WalkTypesAreParts DEF Init, WalkTypes, AddressComes
<1>5. QED
  BY <1>2, <1>3, <1>4 DEF WalkInv, DotComes, PlaceComes, SleepComes, ActiveIsScreen, Init

-----------------------------------------------------------------------------
(* The container.                                                          *)
LEMMA StyledBySwipe ==
  ASSUME WalkInv, NEW n \in DOMAIN screen, Started, NEW transition \in {"initial", "ease-out"},
         SwipeTo(n, transition), held' \in BOOLEAN
  PROVE  StyleTypes' /\ ContainerComes'
<1>1. StyleTypes /\ n \in Nat \ {0}
  <2>1. WalkTypes /\ StyleTypes
    BY WalkTypesAreParts DEF WalkInv, WalkTypes
  <2>2. screen \in Seq(Page)
    BY <2>1, ShownScreen
  <2>3. QED
    BY <2>1, <2>2
<1>2. /\ index' = n /\ UNCHANGED <<transform, eased, moving>>
      /\ \/ nextTransform' = n /\ nextTransition' = transition /\ misled' = FALSE
         \/ /\ n = transform /\ misled' = (nextTransform \notin {Empty, n})
            /\ UNCHANGED <<nextTransform, nextTransition>>
  BY DEF SwipeTo, style
<1>3. QED
  BY <1>1, <1>2 DEF StyleTypes, ContainerComes, InPlace, Place, Empty

LEMMA StyledBySet ==
  ASSUME WalkInv, NEW n \in Nat \ {0}, SetIndex(n), UNCHANGED <<transform, eased, moving, held>>
  PROVE  StyleTypes' /\ ContainerComes'
<1>1. StyleTypes /\ ContainerComes
  BY WalkTypesAreParts DEF WalkInv, WalkTypes
<1>2. CASE n = index
  BY <1>1, <1>2 DEF SetIndex, nextStyle, StyleTypes, ContainerComes, InPlace
<1>3. CASE n # index
  BY <1>1, <1>3 DEF SetIndex, StyleTypes, ContainerComes, Place
<1>4. QED
  BY <1>2, <1>3

LEMMA StyledByDeliver ==
  ASSUME WalkInv, Deliver
  PROVE  StyleTypes' /\ ContainerComes'
<1> DEFINE e == Head(events)
<1>1. WalkTypes /\ StyleTypes /\ ContainerComes /\ events # <<>> /\ events \in Seq(Path)
  BY WalkTypesAreParts DEF WalkInv, WalkTypes, Deliver, TypeOK
<1>2. e \in Path /\ Route(e) \in Page
  BY <1>1, RouteFacts
<1>3. /\ held' = held
      /\ \/ UNCHANGED <<index, style, nextStyle>>
         \/ Resolve(Route(e))
  BY DEF Deliver
<1> HIDE DEF e
<1>4. CASE UNCHANGED <<index, style, nextStyle>>
  BY <1>1, <1>3, <1>4 DEF style, nextStyle, StyleTypes, ContainerComes, InPlace
<1>5. CASE Resolve(Route(e))
  <2>1. CASE Len(screen) = 1 \/ Route(e) \notin Pages(screen)
    <3>1. SetIndex(At(Route(e))) /\ UNCHANGED <<transform, eased, moving>>
      BY <1>5, <2>1 DEF Resolve, Rebuild, style
    <3>2. At(Route(e)) \in DOMAIN ScreenOf[Route(e)] /\ ScreenOf[Route(e)] \in Seq(Page)
      BY <1>2, ScreenFacts
    <3>3. At(Route(e)) \in Nat \ {0}
      BY <3>2
    <3>4. QED
      BY <1>3, <3>1, <3>3, StyledBySet
  <2>2. CASE ~(Len(screen) = 1 \/ Route(e) \notin Pages(screen))
    <3>1. SwipeTo(At(Route(e)), "ease-out") /\ Route(e) \in Pages(screen)
      BY <1>5, <2>2 DEF Resolve
    <3>2. Started
      BY <3>1 DEF Started, Pages
    <3>3. At(Route(e)) \in DOMAIN screen
      BY <1>1, <3>1, <3>2, ShownScreen
    <3>4. held' \in BOOLEAN
      BY <1>1, <1>3 DEF StyleTypes
    <3>5. QED
      BY <3>1, <3>2, <3>3, <3>4, StyledBySwipe
  <2>3. QED
    BY <2>1, <2>2
<1>6. QED
  BY <1>3, <1>4, <1>5

LEMMA StyledByFinger ==
  ASSUME WalkInv, Touch \/ Drag \/ Resize
  PROVE  StyleTypes' /\ ContainerComes'
<1>1. StyleTypes /\ index \in Nat \ {0} /\ WalkTypes
  BY WalkTypesAreParts DEF WalkInv, WalkTypes, BodyTypes
<1>2. \A m \in DOMAIN screen : m \in Nat
  BY <1>1, ShownScreen DEF Started
<1>3. CASE Touch
  BY <1>1, <1>3 DEF Touch, style, StyleTypes, ContainerComes, Place
<1>4. CASE Drag
  BY <1>1, <1>2, <1>4 DEF Drag, style, StyleTypes, ContainerComes, Place, Elsewhere
<1>5. CASE Resize
  <2>1. transform' \in Place
    BY <1>1, <1>2, <1>5 DEF Resize, StyleTypes, Place, Elsewhere
  <2>2. QED
    BY <1>1, <1>5, <2>1 DEF Resize, StyleTypes, ContainerComes, Place
<1>6. QED
  BY <1>3, <1>4, <1>5

LEMMA StyledByFrame ==
  ASSUME WalkInv, Frame
  PROVE  StyleTypes' /\ ContainerComes'
<1>1. StyleTypes /\ ContainerComes
  BY WalkTypesAreParts DEF WalkInv, WalkTypes
<1>2. Restyle /\ UNCHANGED <<index, held, misled>>
  BY DEF Frame
<1>3. /\ nextTransform' = Empty /\ nextTransition' = None /\ eased' \in BOOLEAN
      /\ transform' = IF nextTransform = Empty THEN transform ELSE nextTransform
      /\ moving' \in BOOLEAN
  <2>1. eased' = IF nextTransition = None THEN eased ELSE nextTransition = "ease-out"
    BY <1>2 DEF Restyle
  <2>2. eased' \in BOOLEAN
    BY <1>1, <2>1 DEF StyleTypes
  <2>3. moving' = moving \/ moving' = eased'
    BY <1>2 DEF Restyle
  <2>4. QED
    BY <1>1, <1>2, <2>2, <2>3 DEF Restyle, StyleTypes
<1>4. StyleTypes'
  BY <1>1, <1>2, <1>3 DEF StyleTypes, Place
<1>5. ContainerComes'
  BY <1>1, <1>2, <1>3 DEF ContainerComes, InPlace
<1>6. QED
  BY <1>4, <1>5

LEMMA StyledAlike ==
  ASSUME WalkInv, UNCHANGED <<index, held, transform, eased, nextStyle>>, moving' \in BOOLEAN
  PROVE  StyleTypes' /\ ContainerComes'
  BY WalkTypesAreParts DEF WalkInv, WalkTypes, nextStyle, StyleTypes, ContainerComes, InPlace

(* Where the container is to be, it is after the next frame.               *)
LEMMA ContainerNext ==
  ASSUME WalkInv, [Next]_vars
  PROVE  StyleTypes' /\ ContainerComes'
<1>1. StyleTypes /\ WalkTypes
  BY WalkTypesAreParts DEF WalkInv, WalkTypes
<1>2. CASE Go \/ RouterUpdate \/ Nap \/ UNCHANGED vars
  <2>1. UNCHANGED <<index, held, transform, eased, nextStyle, moving>>
    BY <1>2 DEF Go, RouterUpdate, Nap, vars, swiper, style, nextStyle
  <2>2. QED
    BY <1>1, <2>1, StyledAlike DEF StyleTypes
<1>3. CASE TransitionEnd \/ InnerEnd \/ Timeout
  <2>1. UNCHANGED <<index, held, transform, eased, nextStyle>> /\ moving' \in BOOLEAN
    BY <1>1, <1>3 DEF TransitionEnd, InnerEnd, Timeout, AfterEnd, style, StyleTypes
  <2>2. QED
    BY <2>1, StyledAlike
<1>4. CASE Swipe
  <2>1. PICK n \in DOMAIN screen, transition \in {"initial", "ease-out"} : SwipeTo(n, transition)
    BY <1>4 DEF Swipe
  <2>2. Started /\ held' \in BOOLEAN
    <3>1. Len(screen) > 1 /\ held' = FALSE
      BY <1>4 DEF Swipe, Swipeable
    <3>2. screen # <<>>
      BY <3>1
    <3>3. QED
      BY <3>1, <3>2 DEF Started
  <2>3. QED
    BY <2>1, <2>2, StyledBySwipe
<1>5. QED
  BY <1>2, <1>3, <1>4, StyledByDeliver, StyledByFinger, StyledByFrame DEF Next

-----------------------------------------------------------------------------
LEMMA ActsCount ==
  ASSUME TypeOK, Acts
  PROVE  acts' \in 0 .. MaxActs
  BY RoutesAssumption DEF TypeOK, Acts

(* What swipeToIndex does on the screen that is there.                     *)
LEMMA SwipeToKeeps ==
  ASSUME WalkInv, Started, NEW n \in DOMAIN screen, NEW transition, SwipeTo(n, transition),
         hash' = hash, update' = update, StyleTypes', ContainerComes',
         acts' \in 0 .. MaxActs, events' \in Seq(Path), current' \in Path, AddressComes',
         (~overtaken /\ ~belated /\ ends = 0 /\ ~TimerComes /\ n = index /\ update = None) =>
           /\ screen[index] = Lead[current']
           /\ bread = hash \/ \E k \in DOMAIN events' : events'[k] # current'
  PROVE  WalkInv'
<1>1. /\ index' = n /\ frames' = Append(frames, n)
      /\ \/ ends' = (IF n = index THEN ends ELSE ends + 1) /\ timeouts' = timeouts
         \/ ends' = ends /\ timeouts' = (IF n = index THEN timeouts ELSE Append(timeouts, n))
      /\ UNCHANGED <<screen, overtaken, belated, dot, bread, page, active, awake, naps, lost>>
  BY DEF SwipeTo, pages
<1>2. WalkTypes /\ BodyTypes /\ screen \in Seq(Page) /\ n \in Nat \ {0} /\ Started'
  <2>1. WalkTypes /\ BodyTypes
    BY WalkTypesAreParts DEF WalkInv, WalkTypes
  <2>2. screen \in Seq(Page)
    BY <2>1, ShownScreen
  <2>3. n \in Nat \ {0}
    BY <2>2
  <2>4. QED
    BY <1>1, <2>1, <2>2, <2>3 DEF Started
<1>3. frames' \in Seq(Nat \ {0}) /\ frames' # <<>> /\ frames'[Len(frames')] = n
      /\ \A k \in DOMAIN frames' : frames'[k] = n \/ (k \in DOMAIN frames /\ frames'[k] = frames[k])
  <2>1. frames \in Seq(Nat \ {0})
    BY <1>2 DEF BodyTypes
  <2>2. /\ Append(frames, n) \in Seq(Nat \ {0}) /\ Len(Append(frames, n)) = Len(frames) + 1
        /\ Append(frames, n)[Len(frames) + 1] = n
        /\ \A k \in 1 .. Len(frames) : Append(frames, n)[k] = frames[k]
    BY <1>2, <2>1
  <2>3. Len(frames) \in Nat /\ DOMAIN frames = 1 .. Len(frames)
    BY <2>1
  <2>4. DOMAIN Append(frames, n) = 1 .. Len(frames) + 1
    BY <2>2
  <2>5. QED
    BY <1>1, <2>2, <2>3, <2>4
<1>4. /\ ends' \in Nat /\ timeouts' \in Seq(Nat \ {0})
      /\ (ends' = 0 /\ ~TimerComes') => (ends = 0 /\ n = index /\ ~TimerComes)
  <2>1. ends \in Nat /\ timeouts \in Seq(Nat \ {0})
    BY <1>2 DEF BodyTypes
  <2>2. /\ Append(timeouts, n) \in Seq(Nat \ {0}) /\ Append(timeouts, n) # <<>>
        /\ Append(timeouts, n)[Len(Append(timeouts, n))] = n
    <3>1. n \in Nat \ {0}
      BY <1>2
    <3>2. QED
      BY <2>1, <3>1, LastAppended
  <2>3. CASE n = index
    <3>1. ends' = ends /\ timeouts' = timeouts /\ index' = index
      BY <1>1, <2>3
    <3>2. TimerComes' <=> TimerComes
      BY <3>1 DEF TimerComes
    <3>3. QED
      BY <2>1, <2>3, <3>1, <3>2
  <2>4. CASE n # index
    <3>1. CASE ends' = ends + 1 /\ timeouts' = timeouts
      <4>1. ends' \in Nat /\ ends' # 0 /\ timeouts' \in Seq(Nat \ {0})
        BY <2>1, <3>1
      <4>2. QED
        BY <4>1
    <3>2. CASE ends' = ends /\ timeouts' = Append(timeouts, n)
      <4>1. timeouts' # <<>> /\ timeouts'[Len(timeouts')] = index'
        BY <1>1, <2>2, <3>2, Zenon
      <4>2. TimerComes'
        BY <4>1 DEF TimerComes
      <4>3. QED
        BY <2>1, <2>2, <3>2, <4>2
    <3>3. QED
      BY <1>1, <2>4, <3>1, <3>2
  <2>5. QED
    BY <2>3, <2>4
<1>5. BodyTypes'
  BY <1>1, <1>2, <1>3, <1>4 DEF BodyTypes
<1>6. WalkTypes'
  BY <1>1, <1>2, <1>5, WalkTypesAreParts DEF WalkTypes
<1>7. DotComes'
  BY <1>1, <1>2, <1>3 DEF DotComes, WalkInv
<1>8. PlaceComes'
  BY <1>1, <1>2, <1>4 DEF PlaceComes, WalkInv
<1>9. SleepComes'
  BY <1>1, <1>2, <1>4 DEF SleepComes, WalkInv
<1>10. ActiveIsScreen'
  BY <1>1 DEF WalkInv, ActiveIsScreen
<1>11. QED
  BY <1>6, <1>7, <1>8, <1>9, <1>10 DEF WalkInv

(* What buildScreen and its calls do for a page that an event leads to.    *)
LEMMA RebuildKeeps ==
  ASSUME WalkInv, NEW e \in Path, Rebuild(Route(e)), current' = e, hash' = hash, update' = update,
         StyleTypes', ContainerComes', acts' = acts, events' \in Seq(Path), AddressComes'
  PROVE  WalkInv'
<1> DEFINE p == Route(e)
<1>0. p \in Page /\ p = Lead[e]
  BY RouteFacts
<1> HIDE DEF p
<1>1. /\ screen' = ScreenOf[p] /\ index' = At(p)
      /\ dot' = At(p) /\ bread' = hash /\ frames' = frames /\ ends' = ends /\ timeouts' = timeouts
      /\ belated' = belated
      /\ active' = (active \ Pages(screen)) \union Pages(ScreenOf[p])
      /\ page' = (IF p = page THEN None ELSE p)
      /\ awake' = (awake \ Pages(ScreenOf[p])) \union (IF p = page THEN {} ELSE {p})
      /\ naps' = naps \union ({page} \intersect (awake \ (Pages(ScreenOf[p]) \union {p})))
      /\ lost' = (lost \/ p = page)
      /\ overtaken' = (overtaken \/ update # None \/ ends > 0 \/ timeouts # <<>> \/ frames # <<>>)
  BY DEF Rebuild, SetIndex, BuildHeader, TransferScreen, Transfer, listeners, p
<1>2. /\ ScreenOf[p] \in Seq(Page) /\ p # None /\ At(p) \in DOMAIN ScreenOf[p]
      /\ ScreenOf[p][At(p)] = p /\ Pages(ScreenOf[p]) \subseteq Page /\ p \in Pages(ScreenOf[p])
  BY <1>0, ScreenFacts
<1>3. WalkTypes /\ BodyTypes /\ ScreenOf[p] # <<>> /\ At(p) \in Nat \ {0}
  BY <1>2, WalkTypesAreParts DEF WalkInv, WalkTypes
<1>4. Started' /\ index' \in DOMAIN screen' /\ screen'[index'] = p /\ Pages(screen') = Pages(ScreenOf[p])
  BY <1>1, <1>2, <1>3 DEF Started, Pages
<1>5. BodyTypes'
  <2>1. screen' \in {<<>>} \union {ScreenOf[q] : q \in Page}
    BY <1>0, <1>1
  <2>2. page' \in Page \union {None} /\ active' \subseteq Page /\ awake' \subseteq Page /\ naps' \subseteq Page
    BY <1>0, <1>1, <1>2, <1>3 DEF BodyTypes, WalkInv, ActiveIsScreen
  <2>3. overtaken' \in BOOLEAN /\ lost' \in BOOLEAN /\ belated' \in BOOLEAN
    BY <1>1, <1>3, Zenon DEF BodyTypes
  <2>4. QED
    BY <1>1, <1>3, <2>1, <2>2, <2>3 DEF BodyTypes
<1>6. WalkTypes'
  BY <1>4, <1>5, WalkTypesAreParts DEF WalkTypes
<1>7. overtaken' = FALSE => (update = None /\ ends = 0 /\ frames = <<>>)
  <2>1. ends \in Nat /\ overtaken \in BOOLEAN
    BY <1>3 DEF BodyTypes
  <2>2. SUFFICES ASSUME overtaken' = FALSE
                 PROVE  update = None /\ ends = 0 /\ frames = <<>>
    OBVIOUS
  <2>3. ~(overtaken \/ update # None \/ ends > 0 \/ timeouts # <<>> \/ frames # <<>>)
    BY <1>1, <2>2, Zenon
  <2>4. QED
    BY <2>1, <2>3
<1>8. DotComes'
  <2>1. ASSUME ~overtaken' PROVE frames' = <<>> /\ dot' = index'
    BY <2>1, <1>1, <1>5, <1>7 DEF BodyTypes
  <2>2. QED
    BY <2>1 DEF DotComes
<1>9. PlaceComes'
  <2>1. ASSUME ~overtaken' PROVE update' = None
    BY <2>1, <1>1, <1>5, <1>7 DEF BodyTypes
  <2>2. QED
    BY <1>0, <1>1, <1>4, <2>1 DEF PlaceComes
<1>10. ActiveIsScreen'
  BY <1>1, <1>4 DEF WalkInv, ActiveIsScreen
<1>11. SleepComes'
  BY <1>1, <1>2, <1>3, <1>4 DEF SleepComes, BodyTypes
<1>12. QED
  BY <1>6, <1>8, <1>9, <1>10, <1>11 DEF WalkInv

LEMMA DeliverKeeps ==
  ASSUME WalkInv, Deliver, StyleTypes', ContainerComes'
  PROVE  WalkInv'
<1> DEFINE e == Head(events)
<1>1. /\ events # <<>> /\ events' = Tail(events) /\ UNCHANGED <<hash, update, acts>>
      /\ \/ /\ e = current
            /\ UNCHANGED <<current, screen, index, listeners, overtaken, belated, pages, header>>
         \/ e # current /\ current' = e /\ Resolve(Route(e))
  BY DEF Deliver, Suppressed
<1>2. WalkTypes /\ BodyTypes
  BY WalkTypesAreParts DEF WalkInv, WalkTypes
<1>3. /\ e \in Path /\ e = events[1] /\ events' \in Seq(Path) /\ Len(events) \in Nat \ {0}
      /\ Len(events') = Len(events) - 1 /\ DOMAIN events = 1 .. Len(events)
      /\ DOMAIN events' = 1 .. Len(events')
      /\ \A k \in DOMAIN events' : events'[k] = events[k + 1]
  BY <1>1, <1>2 DEF BodyTypes
<1> HIDE DEF e
<1>4. events # <<>> => events[Len(events)] = hash
  BY DEF WalkInv, AddressComes
<1>5. events' # <<>> => events'[Len(events')] = hash'
  BY <1>1, <1>3, <1>4
<1>6. events' = <<>> => e = hash'
  <2>1. events' = <<>> => Len(events) = 1
    BY <1>3
  <2>2. QED
    BY <1>1, <1>3, <1>4, <2>1
<1>7. CASE e = current
  <2>1. UNCHANGED <<current, screen, index, ends, timeouts, overtaken, belated, page, active, awake,
                    naps, lost, frames, dot, bread>>
    BY <1>1, <1>7 DEF pages, header, listeners
  <2>2. Started
    BY <1>2, <1>3, <1>7, RoutesAssumption DEF WalkTypes
  <2>3. AddressComes'
    BY <1>1, <1>5, <1>6, <1>7, <2>1, <2>2 DEF AddressComes, Started
  <2>4. WalkTypes'
    <3>1. BodyTypes'
      BY <1>1, <1>2, <1>3, <2>1 DEF BodyTypes
    <3>2. TypeOK' /\ (Started <=> Started')
      BY <2>1, <3>1, WalkTypesAreParts DEF Started
    <3>3. /\ Started => index' \in DOMAIN screen' /\ current' \in Path
          /\ ~Started => /\ current' = None /\ ends' = 0 /\ timeouts' = <<>>
                         /\ update' = None /\ frames' = <<>> /\ page' = None /\ naps' = {}
      BY <1>1, <1>2, <2>1 DEF WalkTypes
    <3>4. QED
      BY <3>2, <3>3 DEF WalkTypes
  <2>5. DotComes' /\ ActiveIsScreen' /\ SleepComes'
    BY <2>1 DEF WalkInv, DotComes, ActiveIsScreen, SleepComes, TimerComes, Started, Pages
  <2>6. ASSUME \E k \in DOMAIN events : events[k] # current
        PROVE  \E k \in DOMAIN events' : events'[k] # current'
    <3>1. PICK k \in DOMAIN events : events[k] # current
      BY <2>6
    <3>2. k \in 1 .. Len(events) /\ k # 1
      BY <1>3, <1>7, <3>1
    <3>3. k - 1 \in DOMAIN events' /\ (k - 1) + 1 = k
      BY <1>3, <3>2
    <3>4. events'[k - 1] = events[k]
      BY <1>3, <3>3
    <3>5. QED
      BY <2>1, <3>1, <3>3, <3>4
  <2>7. PlaceComes'
    BY <1>1, <2>1, <2>6 DEF WalkInv, PlaceComes, TimerComes, Started
  <2>8. QED
    BY <2>3, <2>4, <2>5, <2>7 DEF WalkInv
<1>8. CASE e # current
  <2>1. current' = e /\ Resolve(Route(e))
    BY <1>1, <1>8
  <2>2. CASE Len(screen) = 1 \/ Route(e) \notin Pages(screen)
    <3>1. Rebuild(Route(e))
      BY <2>1, <2>2 DEF Resolve
    <3>2. screen' = ScreenOf[Route(e)] /\ Route(e) \in Page
      BY <1>3, <3>1, RouteFacts DEF Rebuild
    <3>3. Started'
      BY <3>2, ScreenFacts DEF Started
    <3>4. AddressComes'
      BY <1>5, <1>6, <2>1, <3>3 DEF AddressComes
    <3>5. QED
      BY <1>1, <1>3, <2>1, <3>1, <3>4, RebuildKeeps
  <2>3. CASE ~(Len(screen) = 1 \/ Route(e) \notin Pages(screen))
    <3>1. SwipeTo(At(Route(e)), "ease-out") /\ Route(e) \in Pages(screen) /\ Len(screen) # 1
      BY <2>1, <2>3 DEF Resolve
    <3>2. Started /\ screen' = screen
      BY <3>1 DEF Started, Pages, SwipeTo
    <3>3. /\ At(Route(e)) \in DOMAIN screen /\ screen[At(Route(e))] = Route(e)
          /\ ScreenOf[Route(e)] = screen
      BY <1>2, <3>1, <3>2, ShownScreen
    <3>4. AddressComes'
      BY <1>5, <1>6, <2>1, <3>2 DEF AddressComes, Started
    <3>5. e \in Page /\ Lead[e] = e /\ Route(e) = e
      BY <1>3, <3>1, <3>3, RouteFacts
    <3>6. ASSUME ~overtaken, ~belated, ends = 0, ~TimerComes, At(Route(e)) = index, update = None
          PROVE  FALSE
      <4>1. screen[index] = Lead[current] /\ current \in Path
        BY <1>2, <3>2, <3>6 DEF WalkInv, PlaceComes, WalkTypes
      <4>2. Route(current) = Route(e)
        BY <3>3, <3>6, <4>1, RouteFacts
      <4>3. current \in Page
        BY <3>1, <3>3, <4>1, <4>2, RouteFacts
      <4>4. QED
        BY <1>8, <3>5, <4>1, <4>2, <4>3, RouteFacts
    <3>7. acts' \in 0 .. MaxActs
      BY <1>1, <1>2 DEF BodyTypes
    <3>8. QED
      BY <1>1, <1>3, <2>1, <3>1, <3>2, <3>3, <3>4, <3>6, <3>7, SwipeToKeeps
  <2>4. QED
    BY <2>2, <2>3
<1>9. QED
  BY <1>7, <1>8

-----------------------------------------------------------------------------
(* Following a link adds an event, of another address than the last.       *)
LEMMA GoKeeps ==
  ASSUME WalkInv, Go, StyleTypes', ContainerComes'
  PROVE  WalkInv'
<1>1. PICK p \in Path \ {hash} : hash' = p /\ events' = Append(events, p)
  BY DEF Go
<1>2. /\ Acts
      /\ UNCHANGED <<current, update, screen, index, ends, timeouts, overtaken, belated,
                     page, active, awake, naps, lost, frames, dot, bread>>
  BY DEF Go, swiper, listeners, pages, header
<1>3. WalkTypes /\ TypeOK /\ BodyTypes
  BY WalkTypesAreParts DEF WalkInv, WalkTypes
<1>4. /\ events' \in Seq(Path) /\ events' # <<>> /\ events'[Len(events')] = p
      /\ Len(events') \in DOMAIN events'
      /\ DOMAIN events \subseteq DOMAIN events' /\ \A k \in DOMAIN events : events'[k] = events[k]
      /\ events # <<>> => Len(events) \in DOMAIN events
  BY <1>1, <1>3 DEF BodyTypes
<1>5. BodyTypes'
  <2>1. acts' \in 0 .. MaxActs
    BY <1>2, <1>3, ActsCount
  <2>2. QED
    BY <1>1, <1>2, <1>3, <1>4, <2>1 DEF BodyTypes
<1>6. WalkTypes'
  BY <1>2, <1>3, <1>5, WalkTypesAreParts DEF WalkTypes, Started
<1>7. AddressComes'
  BY <1>1, <1>4 DEF AddressComes
<1>8. DotComes' /\ ActiveIsScreen' /\ SleepComes'
  BY <1>2 DEF WalkInv, DotComes, ActiveIsScreen, SleepComes, TimerComes, Started, Pages
<1>9. \E k \in DOMAIN events' : events'[k] # current
  <2>1. CASE events = <<>>
    BY <1>1, <1>4, <2>1 DEF WalkInv, AddressComes
  <2>2. CASE events # <<>>
    <3>1. events'[Len(events)] = hash /\ Len(events) \in DOMAIN events'
      BY <1>4, <2>2 DEF WalkInv, AddressComes
    <3>2. QED
      BY <1>1, <1>4, <3>1
  <2>3. QED
    BY <2>1, <2>2
<1>10. PlaceComes'
  BY <1>2, <1>9 DEF WalkInv, PlaceComes, TimerComes, Started
<1>11. QED
  BY <1>6, <1>7, <1>8, <1>10 DEF WalkInv

(* What changes neither the address nor the swiper's place.                *)
LEMMA WalkStays ==
  ASSUME WalkInv, UNCHANGED <<hash, events, current, update, screen, index, ends, timeouts, overtaken,
                              belated, page, active, awake, naps, lost, frames, dot, bread>>,
         StyleTypes', ContainerComes', acts' \in 0 .. MaxActs
  PROVE  WalkInv'
<1>1. BodyTypes /\ WalkTypes
  BY WalkTypesAreParts DEF WalkInv, WalkTypes
<1>2. BodyTypes'
  BY <1>1 DEF BodyTypes
<1>3. WalkTypes'
  BY <1>1, <1>2, WalkTypesAreParts DEF WalkTypes, Started
<1>4. QED
  BY <1>3 DEF WalkInv, AddressComes, DotComes, PlaceComes, ActiveIsScreen, SleepComes, TimerComes,
              Started, Pages

LEMMA FingerKeeps ==
  ASSUME WalkInv, Touch \/ Drag \/ Resize, StyleTypes', ContainerComes'
  PROVE  WalkInv'
<1>1. UNCHANGED <<hash, events, current, update, screen, index, ends, timeouts, overtaken,
                  belated, page, active, awake, naps, lost, frames, dot, bread>>
  BY DEF Touch, Drag, Resize, router, listeners, pages, header
<1>2. Acts /\ TypeOK
  BY DEF Touch, Drag, Resize, WalkInv, WalkTypes
<1>3. QED
  BY <1>1, <1>2, ActsCount, WalkStays

LEMMA SwipeKeeps ==
  ASSUME WalkInv, Swipe, StyleTypes', ContainerComes'
  PROVE  WalkInv'
<1>1. PICK n \in DOMAIN screen, transition \in {"initial", "ease-out"} : SwipeTo(n, transition)
  BY DEF Swipe
<1>2. Len(screen) > 1 /\ UNCHANGED <<hash, events, current, update, acts>>
  BY DEF Swipe, Swipeable, router
<1>3. Started /\ Started'
  BY <1>1, <1>2 DEF Started, SwipeTo
<1>4. AddressComes'
  BY <1>2, <1>3 DEF WalkInv, AddressComes
<1>5. acts' \in 0 .. MaxActs /\ events' \in Seq(Path) /\ current' \in Path
  BY <1>2, <1>3 DEF WalkInv, WalkTypes, TypeOK
<1>6. (~overtaken /\ ~belated /\ ends = 0 /\ ~TimerComes /\ n = index /\ update = None) =>
        /\ screen[index] = Lead[current']
        /\ bread = hash \/ \E k \in DOMAIN events' : events'[k] # current'
  BY <1>2, <1>3 DEF WalkInv, PlaceComes
<1>7. hash' = hash /\ update' = update
  BY <1>2
<1>8. QED
  BY <1>1, <1>3, <1>4, <1>5, <1>6, <1>7, SwipeToKeeps

LEMMA FrameKeeps ==
  ASSUME WalkInv, Frame, StyleTypes', ContainerComes'
  PROVE  WalkInv'
<1>1. /\ frames' = <<>>
      /\ UNCHANGED <<hash, events, current, update, screen, index, ends, timeouts, overtaken, belated,
                     page, active, awake, naps, lost, bread, acts>>
  BY DEF Frame, LightDot, router, listeners, pages
<1> DEFINE there == {k \in DOMAIN frames : frames[k] \in DOMAIN screen}
<1>2. \/ there = {} /\ dot' = dot
      \/ \E k \in there : (\A j \in there : j <= k) /\ dot' = frames[k]
  BY DEF Frame, LightDot
<1>3. WalkTypes /\ BodyTypes /\ DOMAIN frames = 1 .. Len(frames) /\ Len(frames) \in Nat
  BY WalkTypesAreParts DEF WalkInv, WalkTypes, BodyTypes
<1>4. dot' \in Nat \ {0}
  BY <1>2, <1>3 DEF BodyTypes
<1>5. ASSUME Started, ~overtaken
      PROVE  dot' = index
  <2>1. CASE frames = <<>>
    BY <1>2, <1>5, <2>1 DEF WalkInv, DotComes
  <2>2. CASE frames # <<>>
    <3>1. /\ \A k \in DOMAIN frames : frames[k] \in DOMAIN screen
          /\ frames[Len(frames)] = index
      BY <1>5, <2>2 DEF WalkInv, DotComes
    <3>2. there = DOMAIN frames /\ Len(frames) \in DOMAIN frames
      BY <1>3, <2>2, <3>1 DEF BodyTypes
    <3>3. PICK k \in DOMAIN frames : (\A j \in DOMAIN frames : j <= k) /\ dot' = frames[k]
      BY <1>2, <3>2
    <3>4. k = Len(frames)
      <4>1. Len(frames) \in DOMAIN frames /\ k \in 1 .. Len(frames)
        BY <1>3, <3>2
      <4>2. Len(frames) <= k
        BY <3>3, <4>1
      <4>3. QED
        BY <1>3, <4>1, <4>2
    <3>5. QED
      BY <3>1, <3>3, <3>4
  <2>3. QED
    BY <2>1, <2>2
<1>6. BodyTypes'
  BY <1>1, <1>3, <1>4 DEF BodyTypes
<1>7. WalkTypes'
  BY <1>1, <1>3, <1>6, WalkTypesAreParts DEF WalkTypes, Started
<1>8. DotComes'
  BY <1>1, <1>5 DEF DotComes, Started
<1>9. QED
  BY <1>1, <1>7, <1>8 DEF WalkInv, AddressComes, PlaceComes, ActiveIsScreen, SleepComes, TimerComes,
                          Started, Pages

(* The page shown is the current one, and its address is to be written.    *)
LEMMA AfterEndKeeps ==
  ASSUME WalkInv, AfterEnd, StyleTypes', ContainerComes'
  PROVE  WalkInv'
<1> DEFINE p == screen[index]
<1>1. /\ ends > 0 /\ ends' = 0 /\ update' = p /\ TransferEach(p)
      /\ UNCHANGED <<hash, events, current, screen, index, timeouts, overtaken, belated, frames, dot,
                     bread, acts>>
  BY DEF AfterEnd, header
<1>2. WalkTypes /\ BodyTypes /\ Started /\ Started'
  BY <1>1, WalkTypesAreParts DEF WalkInv, WalkTypes, Started
<1>3. p \in Page /\ p \in Pages(screen) /\ p # None
  BY <1>2, ShownScreen, RoutesAssumption
<1> HIDE DEF p
<1>4. /\ page' = (IF (page = p) = (ends % 2 = 0) THEN p ELSE None)
      /\ awake' = awake \union (IF page = p /\ ends = 1 THEN {} ELSE {p})
      /\ naps' = naps \union ({page} \intersect (awake \ {p}))
      /\ lost' = (lost \/ page = p \/ ends > 1)
      /\ active' = active
  BY <1>1 DEF TransferEach
<1>5. BodyTypes'
  <2>1. page' \in Page \union {None} /\ active' \subseteq Page /\ awake' \subseteq Page /\ naps' \subseteq Page
    BY <1>2, <1>3, <1>4 DEF BodyTypes
  <2>2. lost' \in BOOLEAN
    BY <1>2, <1>4 DEF BodyTypes
  <2>3. QED
    BY <1>1, <1>2, <1>3, <2>1, <2>2 DEF BodyTypes
<1>6. WalkTypes'
  BY <1>1, <1>2, <1>5, WalkTypesAreParts DEF WalkTypes
<1>7. AddressComes' /\ DotComes' /\ ActiveIsScreen'
  BY <1>1, <1>2, <1>4 DEF WalkInv, AddressComes, DotComes, ActiveIsScreen, Pages
<1>8. PlaceComes'
  BY <1>1, <1>3 DEF PlaceComes, p
<1>9. SleepComes'
  <2>1. ASSUME ~lost'
        PROVE  ~lost /\ page # p /\ ends = 1
    <3>1. ends \in Nat
      BY <1>2 DEF BodyTypes
    <3>2. ~lost /\ page # p /\ ~(ends > 1)
      BY <1>4, <2>1
    <3>3. QED
      BY <1>1, <3>1, <3>2
  <2>2. ASSUME ~lost'
        PROVE  page' = p /\ awake' = awake \union {p}
    BY <2>1, <2>2, <1>4
  <2>3. ASSUME ~lost'
        PROVE  (awake' \intersect Pages(screen)) \subseteq ({p} \union naps')
    BY <2>1, <2>2, <2>3, <1>2, <1>4 DEF WalkInv, SleepComes
  <2>4. screen' = screen /\ Pages(screen') = Pages(screen) /\ screen'[index'] = p
    BY <1>1 DEF p
  <2>5. QED
    BY <1>3, <2>2, <2>3, <2>4 DEF SleepComes
<1>10. QED
  BY <1>6, <1>7, <1>8, <1>9 DEF WalkInv

LEMMA TransitionEndKeeps ==
  ASSUME WalkInv, TransitionEnd, StyleTypes', ContainerComes'
  PROVE  WalkInv'
<1>1. CASE AfterEnd
  BY <1>1, AfterEndKeeps
<1>2. CASE UNCHANGED <<router, screen, index, listeners, overtaken, belated, pages, header, acts>>
  <2>1. acts' \in 0 .. MaxActs
    BY <1>2 DEF WalkInv, WalkTypes, TypeOK
  <2>2. QED
    BY <1>2, <2>1, WalkStays DEF router, listeners, pages, header
<1>3. QED
  BY <1>1, <1>2 DEF TransitionEnd

LEMMA InnerEndKeeps ==
  ASSUME WalkInv, InnerEnd, StyleTypes', ContainerComes'
  PROVE  WalkInv'
  BY AfterEndKeeps DEF InnerEnd

(* A timer ends a swipe to the page of the index, or there is another that *)
(* does, or it is late.                                                    *)
LEMMA TimeoutKeeps ==
  ASSUME WalkInv, Timeout, StyleTypes', ContainerComes'
  PROVE  WalkInv'
<1> DEFINE n == Head(timeouts)
<1>1. /\ timeouts # <<>> /\ timeouts' = Tail(timeouts)
      /\ UNCHANGED <<hash, events, current, screen, index, ends, overtaken, frames, dot, bread, acts,
                     active>>
      /\ \/ n \notin DOMAIN screen /\ UNCHANGED <<update, belated, page, awake, naps, lost>>
         \/ /\ n \in DOMAIN screen /\ update' = screen[n] /\ Transfer(screen[n], {})
            /\ belated' = (belated \/ (n # index /\ ends = 0))
  BY DEF Timeout, header, pages
<1>2. WalkTypes /\ BodyTypes /\ Started /\ Started'
  BY <1>1, WalkTypesAreParts DEF WalkInv, WalkTypes, Started
<1>3. timeouts' \in Seq(Nat \ {0}) /\ (TimerComes' \/ ~TimerComes \/ n = index)
  <2>1. timeouts \in Seq(Nat \ {0}) /\ timeouts # <<>>
    BY <1>1, <1>2 DEF BodyTypes
  <2>2. /\ Tail(timeouts) \in Seq(Nat \ {0})
        /\ Tail(timeouts) # <<>> => Tail(timeouts)[Len(Tail(timeouts))] = timeouts[Len(timeouts)]
        /\ Tail(timeouts) = <<>> => timeouts[Len(timeouts)] = n
    BY <2>1, LastOfTail
  <2>3. timeouts' = Tail(timeouts) /\ index' = index
    BY <1>1
  <2>4. QED
    BY <2>2, <2>3 DEF TimerComes
<1> HIDE DEF n
<1>4. CASE n \notin DOMAIN screen
  <2>1. UNCHANGED <<update, belated, page, awake, naps, lost>>
    BY <1>1, <1>4
  <2>2. n # index
    BY <1>2, <1>4 DEF WalkTypes
  <2>3. BodyTypes'
    BY <1>1, <1>2, <1>3, <2>1 DEF BodyTypes
  <2>4. WalkTypes'
    BY <1>1, <1>2, <2>1, <2>3, WalkTypesAreParts DEF WalkTypes
  <2>5. AddressComes' /\ DotComes' /\ ActiveIsScreen'
    BY <1>1, <1>2, <2>1 DEF WalkInv, AddressComes, DotComes, ActiveIsScreen, Pages
  <2>6. PlaceComes'
    BY <1>1, <1>2, <1>3, <2>1, <2>2 DEF WalkInv, PlaceComes
  <2>7. SleepComes'
    BY <1>1, <1>2, <1>3, <2>1, <2>2 DEF WalkInv, SleepComes, Pages
  <2>8. QED
    BY <2>4, <2>5, <2>6, <2>7 DEF WalkInv
<1>5. CASE n \in DOMAIN screen
  <2> DEFINE p == screen[n]
  <2>1. /\ update' = p /\ belated' = (belated \/ (n # index /\ ends = 0))
        /\ page' = (IF p = page THEN None ELSE p)
        /\ awake' = awake \union (IF p = page THEN {} ELSE {p})
        /\ naps' = naps \union ({page} \intersect (awake \ {p}))
        /\ lost' = (lost \/ p = page)
    BY <1>1, <1>5 DEF Transfer
  <2>2. p \in Page /\ p \in Pages(screen) /\ p # None
    <3>1. screen \in Seq(Page)
      BY <1>2, ShownScreen
    <3>2. screen[n] \in Page /\ None \notin Page
      BY <1>5, <3>1, RoutesAssumption
    <3>3. QED
      BY <1>5, <3>2 DEF Pages
  <2>3. ASSUME ~belated', ends' = 0
        PROVE  p = screen'[index']
    BY <1>1, <2>1, <2>3
  <2> HIDE DEF p
  <2>4. BodyTypes'
    <3>1. page' \in Page \union {None} /\ awake' \subseteq Page /\ naps' \subseteq Page
      BY <1>2, <2>1, <2>2 DEF BodyTypes
    <3>2. lost' \in BOOLEAN /\ belated' \in BOOLEAN
      BY <1>2, <2>1 DEF BodyTypes
    <3>3. QED
      BY <1>1, <1>2, <1>3, <2>1, <2>2, <3>1, <3>2 DEF BodyTypes
  <2>5. WalkTypes'
    BY <1>1, <1>2, <2>4, WalkTypesAreParts DEF WalkTypes
  <2>6. AddressComes' /\ DotComes' /\ ActiveIsScreen'
    BY <1>1, <1>2 DEF WalkInv, AddressComes, DotComes, ActiveIsScreen, Pages
  <2>7. PlaceComes'
    BY <1>2, <2>1, <2>2, <2>3 DEF PlaceComes
  <2>8. SleepComes'
    <3>1. screen' = screen /\ Pages(screen') = Pages(screen)
      BY <1>1
    <3>2. ASSUME ~lost'
          PROVE  ~lost /\ page' = p /\ awake' = awake \union {p}
      BY <2>1, <3>2
    <3>3. ASSUME ~lost'
          PROVE  (awake' \intersect Pages(screen)) \subseteq ({p} \union naps')
      BY <1>2, <2>1, <3>2, <3>3 DEF WalkInv, SleepComes
    <3>4. QED
      BY <2>2, <2>3, <3>1, <3>2, <3>3 DEF SleepComes
  <2>9. QED
    BY <2>5, <2>6, <2>7, <2>8 DEF WalkInv
<1>6. QED
  BY <1>4, <1>5

(* The address is written, and the router and the breadcrumbs know it.     *)
LEMMA RouterUpdateKeeps ==
  ASSUME WalkInv, RouterUpdate, StyleTypes', ContainerComes'
  PROVE  WalkInv'
<1>1. /\ update # None /\ Idle /\ hash' = update /\ current' = update /\ update' = None
      /\ bread' = update /\ events' = (IF hash = update THEN events ELSE Append(events, update))
      /\ UNCHANGED <<screen, index, ends, timeouts, overtaken, belated, page, active, awake, naps,
                     lost, frames, dot>>
  BY DEF RouterUpdate, swiper, listeners, pages
<1>2. /\ WalkTypes /\ TypeOK /\ BodyTypes /\ Started /\ Started'
      /\ update \in Page /\ update \in Path
  BY <1>1, WalkTypesAreParts, RoutesAssumption DEF WalkInv, WalkTypes, BodyTypes, Started
<1>3. acts' \in 0 .. MaxActs
  BY <1>1, <1>2, ActsCount DEF Idle, BodyTypes
<1>4. /\ events' \in Seq(Path)
      /\ events' # <<>> => events'[Len(events')] = update
  BY <1>1, <1>2 DEF BodyTypes, WalkInv, AddressComes
<1>5. BodyTypes'
  BY <1>1, <1>2, <1>3, <1>4 DEF BodyTypes
<1>6. WalkTypes'
  BY <1>1, <1>2, <1>5, WalkTypesAreParts DEF WalkTypes
<1>7. AddressComes'
  BY <1>1, <1>2, <1>4 DEF AddressComes
<1>8. DotComes' /\ ActiveIsScreen' /\ SleepComes'
  BY <1>1, <1>2 DEF WalkInv, DotComes, ActiveIsScreen, SleepComes, TimerComes, Pages
<1>9. PlaceComes'
  BY <1>1, <1>2, RoutesAssumption DEF WalkInv, PlaceComes, TimerComes
<1>10. QED
  BY <1>6, <1>7, <1>8, <1>9 DEF WalkInv

LEMMA NapKeeps ==
  ASSUME WalkInv, Nap, StyleTypes', ContainerComes'
  PROVE  WalkInv'
<1>1. PICK p \in naps :
        /\ naps' = naps \ {p} /\ awake' = (IF p = page THEN awake ELSE awake \ {p})
        /\ UNCHANGED <<router, swiper, page, active, lost, header, acts>>
  BY DEF Nap
<1>2. UNCHANGED <<hash, events, current, update, screen, index, ends, timeouts, overtaken, belated,
                  page, active, lost, frames, dot, bread, acts>>
  BY <1>1 DEF router, swiper, listeners, header
<1>3. WalkTypes /\ BodyTypes
  BY WalkTypesAreParts DEF WalkInv, WalkTypes
<1>4. BodyTypes'
  BY <1>1, <1>2, <1>3 DEF BodyTypes
<1>5. WalkTypes'
  BY <1>1, <1>2, <1>3, <1>4, WalkTypesAreParts DEF WalkTypes, Started
<1>6. SleepComes'
  BY <1>1, <1>2 DEF WalkInv, SleepComes, TimerComes, Started, Pages
<1>7. QED
  BY <1>2, <1>5, <1>6 DEF WalkInv, AddressComes, DotComes, PlaceComes, ActiveIsScreen, TimerComes,
                          Started, Pages

LEMMA WalkNext == WalkInv /\ [Next]_vars => WalkInv'
<1> SUFFICES ASSUME WalkInv, [Next]_vars PROVE WalkInv'
  OBVIOUS
<1>1. StyleTypes' /\ ContainerComes'
  BY ContainerNext
<1>2. CASE UNCHANGED vars
  <2>1. acts' \in 0 .. MaxActs
    BY <1>2 DEF vars, WalkInv, WalkTypes, TypeOK
  <2>2. QED
    BY <1>1, <1>2, <2>1, WalkStays DEF vars
<1>3. QED
  BY <1>1, <1>2, GoKeeps, FingerKeeps, SwipeKeeps, FrameKeeps, DeliverKeeps, TransitionEndKeeps,
     InnerEndKeeps, TimeoutKeeps, RouterUpdateKeeps, NapKeeps DEF Next

LEMMA WalkInvHolds == WalkInv => NavigationAgrees
<1> SUFFICES ASSUME WalkInv PROVE NavigationAgrees
  OBVIOUS
<1>1. TypeOK /\ ActiveIsScreen
  BY DEF WalkInv, WalkTypes
<1>2. AddressIsShown
  <2>1. ASSUME Calm, ~overtaken, ~belated
        PROVE  /\ current = hash /\ bread = hash /\ dot = index /\ screen[index] = Lead[hash]
               /\ InPlace \/ held \/ misled
    <3>1. /\ Started /\ events = <<>> /\ update = None /\ frames = <<>> /\ ends = 0
          /\ DOMAIN events = {} /\ timeouts = <<>> /\ nextTransform = Empty
      BY <2>1 DEF Calm, Quiet, Due
    <3>2. ~TimerComes
      BY <3>1 DEF TimerComes
    <3>3. current = hash /\ bread = hash /\ dot = index /\ screen[index] = Lead[hash]
      BY <2>1, <3>1, <3>2 DEF WalkInv, AddressComes, DotComes, PlaceComes
    <3>4. InPlace \/ held \/ misled
      <4>1. index \in Nat \ {0}
        BY DEF WalkInv, WalkTypes, TypeOK
      <4>2. QED
        BY <3>1, <4>1 DEF WalkInv, ContainerComes, Empty
    <3>5. QED
      BY <3>3, <3>4
  <2>2. QED
    BY <2>1 DEF AddressIsShown
<1>3. OneAwake
  BY DEF OneAwake, Calm, Quiet, WalkInv, SleepComes, TimerComes, ActiveIsScreen, Running
<1>4. QED
  BY <1>1, <1>2, <1>3 DEF NavigationAgrees

(* Router, swiper and pages agree once all is delivered, for any routes,   *)
(* screens and addresses: what is still under way ends with the address,   *)
(* or was overtaken by a link to another screen, or a timer was late. The  *)
(* container is where the page of the index is, or the next frame puts it  *)
(* there, but under a finger or when misled.                               *)
THEOREM NavigationIsAgreed == Spec => []NavigationAgrees
<1>1. Spec => Init /\ [][Next]_vars
  BY PTL DEF Spec
<1>2. QED
  BY <1>1, WalkInit, WalkNext, WalkInvHolds, PTL

-----------------------------------------------------------------------------
(* Configuration. Attributes: what a value set, kept or loaded reads as.   *)


(***************************************************************************)
(* The store of the attributes keeps what makes a difference, a layout     *)
(* that was set is the one kept, and a view has nothing but its own last   *)
(* value.                                                                  *)
(***************************************************************************)
AttributesKept ==
  /\ sCtrl = Configuration!KeptCtrl(ctrl)
  /\ \A v \in CtrlView : view[v] \in {None, mine[v]} /\ sView[v] \in {None, mine[v]}

LayoutKept ==
  /\ sLayout = {} \/ \E l \in Configuration!Layout : sLayout = {l}
  /\ halved \/ Configuration!LoadedLayout = layout

(* One search at most goes on, and has found what it has passed.           *)
SearchGoesOn ==
  /\ query \subseteq 1 .. Controls /\ pickers \in Int
  /\ \/ tasks = {} /\ results = query
     \/ \E at \in Nat \ {0} :
          /\ tasks = {[query |-> query, at |-> at]}
          /\ results = query \intersect (1 .. (at - 1))

FormType ==
  [of : CtrlView \union {None}, ctrl : Value \union {None}, view : Value \union {None},
   owned : BOOLEAN, manual : BOOLEAN, scope : {"view", "ctrl"}]

(***************************************************************************)
(* The form of a window whose result is awaited knows whether the view it  *)
(* shows has a value, and while nothing was typed shows one that has none  *)
(* with the value of the control.                                          *)
(***************************************************************************)
Typed == ("control" \in waiting) => (form.ctrl \in Value /\ form.view \in Value /\ target \in CtrlView)

FormFollows ==
  ("control" \in waiting /\ form.manual = FALSE) =>
    /\ form.of \in CtrlView
    /\ (form.owned = TRUE) <=> (view[form.of] # None)
    /\ (form.owned = FALSE /\ form.scope = "view") => form.view = form.ctrl

ConfTypes ==
  /\ Configuration!TypeOK
  /\ mine \in [CtrlView -> Value \union {None}]
  /\ form \in FormType

ConfInv ==
  ConfTypes /\ AttributesKept /\ LayoutKept /\ SearchGoesOn /\ Typed /\ FormFollows
    /\ Configuration!ModalHasWindow

-----------------------------------------------------------------------------
(* Attributes: what a value set, kept or loaded reads as.                  *)

LEMMA NoneIsNone == Configuration!None = None
  BY DEF None, Configuration!None

LEMMA ConfConstants == Configuration!ConfigurationAssumption
  BY PageAssumption

LEMMA DefaultIsValue == Default \in Value /\ None \notin Value
  BY ConfConstants, NoneIsNone DEF Configuration!ConfigurationAssumption

LEMMA GetIsSet ==
  ASSUME NEW c, NEW x \in Value
  PROVE  LET d == IF Configuration!Get(c) = x THEN c ELSE x IN Configuration!Get(d) = x
  BY DefaultIsValue, NoneIsNone DEF Configuration!Get

LEMMA KeptTwice ==
  ASSUME NEW c
  PROVE  Configuration!KeptCtrl(Configuration!KeptCtrl(c)) = Configuration!KeptCtrl(c)
  BY DEF Configuration!Get, Configuration!KeptCtrl

LEMMA KeptTypes ==
  ASSUME NEW c \in Value \union {None}, NEW w \in Value \union {None}
  PROVE  /\ Configuration!Get(c) \in Value
         /\ Configuration!GetView(c, w) \in Value
         /\ Configuration!KeptCtrl(c) \in Value \union {None}
         /\ Configuration!KeptView(c, w) \in {None, w}
  BY DefaultIsValue, NoneIsNone
     DEF Configuration!Get, Configuration!GetView, Configuration!KeptCtrl,
         Configuration!KeptView

(* The layout that a start makes is one.                                   *)
LEMMA DeclaredIsLayout == Declared \in Configuration!Layout
  BY ConfConstants, SMT DEF Configuration!ConfigurationAssumption, Configuration!Layout

LEMMA LoadedIsLayout ==
  ASSUME LayoutKept
  PROVE  /\ Configuration!LoadedLayout \in Configuration!Layout
         /\ \A l : sLayout = {l} => Configuration!LoadedLayout = l
         /\ sLayout = {} => Configuration!LoadedLayout = Declared
<1>1. CASE sLayout = {}
  BY <1>1, DeclaredIsLayout DEF Configuration!LoadedLayout
<1>2. CASE \E l \in Configuration!Layout : sLayout = {l}
  <2>1. PICK l \in Configuration!Layout : sLayout = {l}
    BY <1>2
  <2>2. (CHOOSE k \in sLayout : TRUE) = l /\ sLayout # {}
    BY <2>1
  <2>3. QED
    BY <2>1, <2>2, Zenon DEF Configuration!LoadedLayout
<1>3. QED
  BY <1>1, <1>2 DEF LayoutKept

-----------------------------------------------------------------------------
(* What the invariant says of a group of variables lasts while they do.    *)

LEMMA AttributesStay ==
  ASSUME AttributesKept, UNCHANGED Configuration!attributes
  PROVE  AttributesKept'
  BY DEF AttributesKept, Configuration!attributes, Configuration!KeptCtrl, Configuration!Get

LEMMA LayoutStays ==
  ASSUME LayoutKept, UNCHANGED Configuration!layouts
  PROVE  LayoutKept'
  BY DEF LayoutKept, Configuration!layouts, Configuration!LoadedLayout

LEMMA SearchStays ==
  ASSUME SearchGoesOn, UNCHANGED Configuration!search
  PROVE  SearchGoesOn'
  BY DEF SearchGoesOn, Configuration!search

LEMMA FormStays ==
  ASSUME Typed, FormFollows, UNCHANGED Configuration!forms, UNCHANGED view,
         waiting' \subseteq waiting
  PROVE  Typed' /\ FormFollows'
  BY DEF Typed, FormFollows, Configuration!forms

(* A window that is no longer awaited has no form to follow.               *)
LEMMA NoForm ==
  ASSUME "control" \notin waiting'
  PROVE  Typed' /\ FormFollows'
  BY DEF Typed, FormFollows

-----------------------------------------------------------------------------
(* The types.                                                              *)

WindowTypes ==
  showing \subseteq Configuration!Window /\ hides \in [Configuration!Window -> Nat]
    /\ modal \in BOOLEAN

AttributeTypes ==
  /\ ctrl \in Value \union {None} /\ sCtrl \in Value \union {None}
  /\ view \in [CtrlView -> Value \union {None}] /\ sView \in [CtrlView -> Value \union {None}]
  /\ mine \in [CtrlView -> Value \union {None}]

LayoutTypes == layout \in Configuration!Layout /\ sLayout \subseteq Configuration!Layout

LEMMA TypesAreParts ==
  ConfTypes <=> WindowTypes /\ AttributeTypes /\ LayoutTypes /\ form \in FormType
  BY NoneIsNone DEF ConfTypes, Configuration!TypeOK, WindowTypes, AttributeTypes, LayoutTypes

LEMMA TypesAreParts2 ==
  ConfTypes' <=> WindowTypes' /\ AttributeTypes' /\ LayoutTypes' /\ form' \in FormType
  BY NoneIsNone DEF ConfTypes, Configuration!TypeOK, WindowTypes, AttributeTypes, LayoutTypes

LEMMA AttributeTypesStay ==
  ASSUME AttributeTypes, UNCHANGED Configuration!attributes PROVE AttributeTypes'
  BY DEF AttributeTypes, Configuration!attributes

LEMMA LayoutTypesStay ==
  ASSUME LayoutTypes, UNCHANGED Configuration!layouts PROVE LayoutTypes'
  BY DEF LayoutTypes, Configuration!layouts

-----------------------------------------------------------------------------
(* Windows. *)

Windows == WindowTypes /\ Configuration!ModalHasWindow

LEMMA ShowKeepsWindows ==
  ASSUME Windows, NEW w \in Configuration!Window, Configuration!Show(w)
  PROVE  Windows' /\ waiting' \subseteq waiting \union {w}
  BY DEF Windows, WindowTypes, Configuration!ModalHasWindow, Configuration!Show

LEMMA HideTimesKeepsWindows ==
  ASSUME Windows, NEW w \in Configuration!Window, NEW n \in Nat,
         Configuration!HideTimes(w, n)
  PROVE  Windows' /\ waiting' = waiting \ {w}
<1>1. hides' \in [Configuration!Window -> Nat]
  <2>1. hides[w] + n \in Nat
    BY DEF Windows, WindowTypes
  <2>2. QED
    BY <2>1 DEF Windows, WindowTypes, Configuration!HideTimes
<1>2. QED
  BY <1>1 DEF Windows, WindowTypes, Configuration!ModalHasWindow, Configuration!HideTimes

LEMMA ClearedIsDone ==
  ASSUME SearchGoesOn, Configuration!Cleared
  PROVE  SearchGoesOn'
  BY DEF Configuration!Cleared, SearchGoesOn

LEMMA HideKeepsWindows ==
  ASSUME Windows, SearchGoesOn, NEW w \in Configuration!Window, Configuration!Hide(w)
  PROVE  Windows' /\ waiting' = waiting \ {w} /\ SearchGoesOn'
<1>1. Configuration!HideTimes(w, 1)
  BY DEF Configuration!Hide
<1>2. SearchGoesOn'
  <2>1. CASE w = "selection"
    BY <2>1, ClearedIsDone DEF Configuration!Hide
  <2>2. CASE w # "selection"
    BY <2>2, SearchStays DEF Configuration!Hide, Configuration!search
  <2>3. QED
    BY <2>1, <2>2
<1>3. QED
  BY <1>1, <1>2, HideTimesKeepsWindows

-----------------------------------------------------------------------------
LEMMA ConfInit == Configuration!Init => ConfInv
<1> SUFFICES ASSUME Configuration!Init PROVE ConfInv
  OBVIOUS
<1>1. AttributeTypes /\ LayoutTypes /\ WindowTypes
  <2>1. hides \in [Configuration!Window -> Nat]
    BY SMT DEF Configuration!Init
  <2>2. QED
    BY <2>1, DeclaredIsLayout, NoneIsNone
       DEF Configuration!Init, AttributeTypes, LayoutTypes, WindowTypes
<1>2. form \in FormType
  BY NoneIsNone DEF Configuration!Init, Configuration!NoForm, FormType
<1>3. AttributesKept
  BY NoneIsNone DEF Configuration!Init, AttributesKept, Configuration!KeptCtrl, Configuration!Get
<1>4. LayoutKept
  BY DEF Configuration!Init, LayoutKept, Configuration!LoadedLayout
<1>5. SearchGoesOn /\ Typed /\ FormFollows /\ Configuration!ModalHasWindow
  BY DEF Configuration!Init, SearchGoesOn, Typed, FormFollows, Configuration!ModalHasWindow
<1>6. QED
  BY <1>1, <1>2, <1>3, <1>4, <1>5, TypesAreParts DEF ConfInv

-----------------------------------------------------------------------------
(* Most actions leave the attributes or the layouts alone.                 *)
Rest == AttributeTypes /\ AttributesKept /\ LayoutTypes /\ LayoutKept

LEMMA RestStays ==
  ASSUME Rest, UNCHANGED Configuration!attributes, UNCHANGED Configuration!layouts
  PROVE  Rest'
  BY AttributeTypesStay, AttributesStay, LayoutTypesStay, LayoutStays DEF Rest

Forms == form \in FormType /\ Typed /\ FormFollows

LEMMA FormsStay ==
  ASSUME Forms, UNCHANGED Configuration!forms, UNCHANGED view, waiting' \subseteq waiting
  PROVE  Forms'
  BY FormStays DEF Forms, Configuration!forms

LEMMA InvIsParts ==
  /\ ConfInv <=> Windows /\ Rest /\ SearchGoesOn /\ Forms
  /\ ConfInv' <=> Windows' /\ Rest' /\ SearchGoesOn' /\ Forms'
  BY TypesAreParts, TypesAreParts2, Zenon DEF ConfInv, Windows, Rest, Forms

LEMMA ViewStays ==
  ASSUME UNCHANGED Configuration!attributes
  PROVE  UNCHANGED view
  BY DEF Configuration!attributes

-----------------------------------------------------------------------------
(* The window of a control.                                                *)

LEMMA OpenKeeps ==
  ASSUME ConfInv, NEW v \in CtrlView, Configuration!Open(v)
  PROVE  ConfInv'
<1>1. Configuration!Show("control") /\ UNCHANGED Configuration!attributes
        /\ UNCHANGED Configuration!layouts /\ UNCHANGED Configuration!search
  BY DEF Configuration!Open
<1>2. Windows /\ Rest /\ SearchGoesOn /\ Forms
  BY InvIsParts
<1>3. Windows' /\ Rest'
  BY <1>1, <1>2, ShowKeepsWindows, RestStays DEF Configuration!Window
<1>4. SearchGoesOn'
  BY <1>1, <1>2, SearchStays DEF Configuration!search
<1>5. /\ ctrl \in Value \union {None} /\ view[v] \in Value \union {None}
      /\ view \in [CtrlView -> Value \union {None}]
  BY <1>2 DEF Rest, AttributeTypes
<1>6. Configuration!Get(ctrl) \in Value /\ Configuration!GetView(ctrl, view[v]) \in Value
  BY <1>5, KeptTypes
<1>7. form' = [of |-> v, ctrl |-> Configuration!Get(ctrl),
               view |-> Configuration!GetView(ctrl, view[v]),
               owned |-> Configuration!Owned(v), manual |-> FALSE, scope |-> "view"]
  BY DEF Configuration!Open
<1>8. Configuration!Owned(v) \in BOOLEAN /\ (Configuration!Owned(v) = TRUE <=> view[v] # None)
  BY NoneIsNone DEF Configuration!Owned
<1>9. form' \in FormType
  BY <1>6, <1>7, <1>8 DEF FormType
<1>10. form'.of = v /\ form'.ctrl = Configuration!Get(ctrl) /\ form'.owned = Configuration!Owned(v)
         /\ form'.view = Configuration!GetView(ctrl, view[v])
  BY <1>7
<1>11. FormFollows'
  <2>1. (form'.owned = TRUE) <=> (view'[v] # None)
    BY <1>1, <1>8, <1>10, ViewStays
  <2>2. ASSUME form'.owned = FALSE
        PROVE  form'.view = form'.ctrl
    <3>1. view[v] = None
      BY <2>2, <1>8, <1>10
    <3>2. QED
      BY <3>1, <1>10, NoneIsNone DEF Configuration!GetView
  <2>3. QED
    BY <2>1, <2>2, <1>10 DEF FormFollows
<1>12. Typed'
  <2>1. ASSUME "control" \in waiting'
        PROVE  target' \in CtrlView
    <3>1. CASE "control" \in showing  \* it was awaited before
      <4>1. "control" \in waiting
        BY <2>1, <3>1, <1>1 DEF Configuration!Show
      <4>2. QED
        BY <4>1, <3>1, <1>2 DEF Forms, Typed, Configuration!Open
    <3>2. CASE "control" \notin showing
      BY <3>2 DEF Configuration!Open
    <3>3. QED
      BY <3>1, <3>2
  <2>2. QED
    BY <2>1, <1>6, <1>10 DEF Typed
<1>13. QED
  BY <1>3, <1>4, <1>9, <1>11, <1>12, InvIsParts DEF Forms

(* What a form of FormFollows is.                                          *)
Follows(f) ==
  /\ f.of \in CtrlView
  /\ (f.owned = TRUE) <=> (view[f.of] # None)
  /\ (f.owned = FALSE /\ f.scope = "view") => f.view = f.ctrl

LEMMA TypeKeeps ==
  ASSUME ConfInv, NEW f \in FormType, Configuration!Type(f),
         "control" \in waiting => (f.ctrl \in Value /\ f.view \in Value),
         ("control" \in waiting /\ f.manual = FALSE) => Follows(f)
  PROVE  ConfInv'
<1>1. /\ form' = f
      /\ UNCHANGED <<Configuration!attributes, Configuration!windows, Configuration!layouts,
                     target, Configuration!search>>
  BY DEF Configuration!Type
<1>2. Windows /\ Rest /\ SearchGoesOn /\ Forms
  BY InvIsParts
<1>3. Windows'
  BY <1>1, <1>2 DEF Windows, WindowTypes, Configuration!ModalHasWindow, Configuration!windows
<1>4. Rest' /\ SearchGoesOn'
  BY <1>1, <1>2, RestStays, SearchStays DEF Configuration!search
<1>5. UNCHANGED view /\ UNCHANGED waiting
  BY <1>1 DEF Configuration!attributes, Configuration!windows
<1>6. Typed'
  BY <1>1, <1>2, <1>5 DEF Forms, Typed
<1>7. FormFollows'
  BY <1>1, <1>2, <1>5 DEF Forms, FormFollows, Follows
<1>8. QED
  BY <1>1, <1>3, <1>4, <1>6, <1>7, InvIsParts DEF Forms

LEMMA LabelledForm ==
  ASSUME NEW f \in FormType
  PROVE  /\ Configuration!Labelled(f) \in FormType
         /\ Configuration!Labelled(f).of = f.of
         /\ Configuration!Labelled(f).ctrl = f.ctrl
         /\ Configuration!Labelled(f).view = f.view
         /\ Configuration!Labelled(f).manual = f.manual
         /\ Configuration!Labelled(f).scope = f.scope
         /\ view[f.of] # None => Configuration!Labelled(f) = f
<1>1. (f.view # f.ctrl) \in BOOLEAN
  OBVIOUS
<1>2. CASE Configuration!Owned(f.of)
  BY <1>2 DEF Configuration!Labelled
<1>3. CASE ~Configuration!Owned(f.of)
  <2>1. Configuration!Labelled(f) = [f EXCEPT !.owned = f.view # f.ctrl]
    BY <1>3 DEF Configuration!Labelled
  <2>2. view[f.of] = None
    BY <1>3, NoneIsNone DEF Configuration!Owned
  <2>3. QED
    BY <2>1, <2>2, <1>1 DEF FormType
<1>4. QED
  BY <1>2, <1>3

(* Back on the view, a form follows as it did.                             *)
LEMMA SyncedForm ==
  ASSUME Forms
  PROVE  /\ Configuration!Synced(form) \in FormType
         /\ Configuration!Synced(form).of = form.of
         /\ Configuration!Synced(form).ctrl = form.ctrl
         /\ Configuration!Synced(form).view \in {form.view, form.ctrl}
         /\ Configuration!Synced(form).manual = form.manual
         /\ (form.manual = FALSE /\ form.owned = FALSE)
              => (Configuration!Synced(form).view = form.ctrl
                    /\ Configuration!Synced(form).owned = FALSE)
         /\ ("control" \in waiting /\ form.manual = FALSE /\ form.owned = TRUE)
              => Configuration!Synced(form).owned = TRUE
<1>1. form \in FormType
  BY DEF Forms
<1>2. CASE form.manual = FALSE /\ form.owned = FALSE
  <2>1. Configuration!Synced(form) = [form EXCEPT !.view = form.ctrl]
    BY <1>2 DEF Configuration!Synced
  <2>2. QED
    BY <2>1, <1>1, <1>2 DEF FormType
<1>3. CASE ~(form.manual = FALSE /\ form.owned = FALSE)
  <2>1. Configuration!Synced(form) = Configuration!Labelled(form)
    BY <1>1, <1>3 DEF Configuration!Synced, FormType
  <2>2. ASSUME "control" \in waiting, form.manual = FALSE, form.owned = TRUE
        PROVE  Configuration!Labelled(form) = form
    BY <2>2, <1>1, LabelledForm DEF Forms, FormFollows
  <2>3. QED
    BY <2>1, <2>2, <1>1, <1>3, LabelledForm
<1>4. QED
  BY <1>2, <1>3

LEMMA TypeCtrlKeeps ==
  ASSUME ConfInv, NEW x \in Value, Configuration!TypeCtrl(x)
  PROVE  ConfInv'
<1> DEFINE f == [form EXCEPT !.ctrl = x]
<1>1. form \in FormType /\ Typed /\ FormFollows
  BY InvIsParts DEF Forms
<1>2. Configuration!Type(f) /\ form.scope = "ctrl"
  BY DEF Configuration!TypeCtrl
<1>3. f \in FormType /\ f.of = form.of /\ f.ctrl = x /\ f.view = form.view
        /\ f.owned = form.owned /\ f.manual = form.manual /\ f.scope = "ctrl"
  BY <1>1, <1>2 DEF FormType
<1>4. "control" \in waiting => (f.ctrl \in Value /\ f.view \in Value)
  BY <1>1, <1>3 DEF Typed
<1>5. ("control" \in waiting /\ f.manual = FALSE) => Follows(f)
  BY <1>1, <1>3 DEF FormFollows, Follows
<1> HIDE DEF f
<1>6. QED
  BY <1>2, <1>3, <1>4, <1>5, TypeKeeps

LEMMA TypeViewKeeps ==
  ASSUME ConfInv, NEW x \in Value, Configuration!TypeView(x)
  PROVE  ConfInv'
<1> DEFINE g == [form EXCEPT !.view = x, !.manual = TRUE]
           f == Configuration!Labelled(g)
<1>1. form \in FormType /\ Typed
  BY InvIsParts DEF Forms
<1>2. Configuration!Type(f)
  BY DEF Configuration!TypeView
<1>3. g \in FormType /\ g.ctrl = form.ctrl /\ g.view = x /\ g.manual = TRUE
  BY <1>1 DEF FormType
<1> HIDE DEF g
<1>4. f \in FormType /\ f.ctrl = form.ctrl /\ f.view = x /\ f.manual = TRUE
  BY <1>3, LabelledForm
<1> HIDE DEF f
<1>5. "control" \in waiting => (f.ctrl \in Value /\ f.view \in Value)
  BY <1>1, <1>4 DEF Typed
<1>6. QED
  BY <1>2, <1>4, <1>5, TypeKeeps

LEMMA ChangeScopeKeeps ==
  ASSUME ConfInv, Configuration!ChangeScope
  PROVE  ConfInv'
<1> DEFINE g == Configuration!Synced(form)
           f == IF form.scope = "ctrl" THEN [g EXCEPT !.scope = "view"]
                ELSE [form EXCEPT !.scope = "ctrl"]
<1>1. Forms /\ form \in FormType /\ Typed /\ FormFollows
  BY InvIsParts DEF Forms
<1>2. Configuration!Type(f)
  BY DEF Configuration!ChangeScope
<1>3. /\ f \in FormType
      /\ "control" \in waiting => (f.ctrl \in Value /\ f.view \in Value)
      /\ ("control" \in waiting /\ f.manual = FALSE) => Follows(f)
  <2>1. CASE form.scope = "ctrl"
    <3>1. /\ g \in FormType /\ g.of = form.of /\ g.ctrl = form.ctrl
          /\ g.view \in {form.view, form.ctrl} /\ g.manual = form.manual
          /\ (form.manual = FALSE /\ form.owned = FALSE)
               => (g.view = form.ctrl /\ g.owned = FALSE)
          /\ ("control" \in waiting /\ form.manual = FALSE /\ form.owned = TRUE)
               => g.owned = TRUE
      BY <1>1, SyncedForm
    <3> HIDE DEF g
    <3>2. f = [g EXCEPT !.scope = "view"]
      BY <2>1
    <3>3. f \in FormType /\ f.of = g.of /\ f.ctrl = g.ctrl /\ f.view = g.view
            /\ f.owned = g.owned /\ f.manual = g.manual
      BY <3>1, <3>2 DEF FormType
    <3> HIDE DEF f
    <3>4. "control" \in waiting => (f.ctrl \in Value /\ f.view \in Value)
      BY <1>1, <3>1, <3>3 DEF Typed
    <3>5. ASSUME "control" \in waiting, f.manual = FALSE
          PROVE  Follows(f)
      <4>1. form.owned \in BOOLEAN
        BY <1>1 DEF FormType
      <4>2. QED
        BY <1>1, <3>1, <3>3, <3>5, <4>1 DEF FormFollows, Follows
    <3>6. QED
      BY <3>3, <3>4, <3>5
  <2>2. CASE form.scope # "ctrl"
    <3>1. f = [form EXCEPT !.scope = "ctrl"]
      BY <2>2
    <3> HIDE DEF f
    <3>2. f \in FormType /\ f.of = form.of /\ f.ctrl = form.ctrl /\ f.view = form.view
            /\ f.owned = form.owned /\ f.manual = form.manual /\ f.scope = "ctrl"
      BY <3>1, <1>1 DEF FormType
    <3>3. QED
      BY <1>1, <3>2 DEF Typed, FormFollows, Follows
  <2>3. QED
    BY <2>1, <2>2
<1> HIDE DEF f
<1>4. QED
  BY <1>2, <1>3, TypeKeeps

-----------------------------------------------------------------------------
(* The result of the window goes to the control, then to the view.         *)

LEMMA SetTypes ==
  ASSUME AttributeTypes, NEW x \in Value, NEW y \in Value, NEW c \in Value \union {None},
         NEW w \in Value \union {None}
  PROVE  /\ Configuration!SetCtrl(x) \in Value \union {None}
         /\ Configuration!Get(Configuration!SetCtrl(x)) = x
         /\ Configuration!SetView(c, w, y) \in {w, y}
         /\ Configuration!SetView(c, w, y) = w => w \in {None, y}
         /\ (w = None /\ Configuration!Get(c) = y) => Configuration!SetView(c, w, y) = w
<1>1. Configuration!SetCtrl(x) \in Value \union {None}
  BY DEF AttributeTypes, Configuration!SetCtrl
<1>2. Configuration!Get(Configuration!SetCtrl(x)) = x
  BY GetIsSet DEF Configuration!SetCtrl
<1>3. /\ Configuration!SetView(c, w, y) \in {w, y}
      /\ Configuration!SetView(c, w, y) = w => w \in {None, y}
      /\ (w = None /\ Configuration!Get(c) = y) => Configuration!SetView(c, w, y) = w
  BY NoneIsNone DEF Configuration!SetView, Configuration!GetView
<1>4. QED
  BY <1>1, <1>2, <1>3

LEMMA ApplyKeeps ==
  ASSUME AttributeTypes, AttributesKept, NEW v \in CtrlView, NEW x \in Value, NEW y \in Value,
         Configuration!Apply(v, x, y)
  PROVE  AttributeTypes' /\ AttributesKept'
<1>1. /\ ctrl' = Configuration!SetCtrl(x)
      /\ view' = [view EXCEPT ![v] = Configuration!SetView(ctrl', view[v], y)]
      /\ sView' = [sView EXCEPT ![v] = Configuration!KeptView(ctrl', view'[v])]
      /\ sCtrl' = Configuration!KeptCtrl(ctrl')
      /\ mine' = [mine EXCEPT ![v] =
                    IF form.manual \/ y # Configuration!Get(ctrl') \/ view'[v] # view[v]
                    THEN y ELSE mine[v]]
  BY DEF Configuration!Apply, Configuration!Saved
<1>2. /\ view \in [CtrlView -> Value \union {None}] /\ sView \in [CtrlView -> Value \union {None}]
      /\ mine \in [CtrlView -> Value \union {None}]
      /\ view[v] \in Value \union {None}
  BY DEF AttributeTypes
<1>3. ctrl' \in Value \union {None}
  BY <1>1, SetTypes
<1>4. view'[v] \in {view[v], y} /\ (view'[v] = view[v] => view[v] \in {None, y})
  BY <1>1, <1>2, <1>3, SetTypes
<1>5. sView'[v] \in {None, view'[v]}
  BY <1>1, <1>2, <1>3, <1>4, KeptTypes
<1>6. mine'[v] \in {y, mine[v]} /\ (view'[v] # view[v] => mine'[v] = y)
  BY <1>1, <1>2
<1>7. sCtrl' \in Value \union {None}
  BY <1>1, <1>3, KeptTypes
<1>8. AttributeTypes'
  <2>1. view'[v] \in Value \union {None} /\ sView'[v] \in Value \union {None}
          /\ mine'[v] \in Value \union {None}
    BY <1>2, <1>4, <1>5, <1>6
  <2>2. view' \in [CtrlView -> Value \union {None}]
    BY <1>1, <1>2, <2>1
  <2>3. sView' \in [CtrlView -> Value \union {None}]
    BY <1>1, <1>2, <2>1
  <2>4. mine' \in [CtrlView -> Value \union {None}]
    BY <1>1, <1>2, <2>1
  <2>5. QED
    BY <1>3, <1>7, <2>2, <2>3, <2>4 DEF AttributeTypes
<1>9. ASSUME NEW u \in CtrlView
      PROVE  view'[u] \in {None, mine'[u]} /\ sView'[u] \in {None, mine'[u]}
  <2>1. CASE u # v
    BY <2>1, <1>1, <1>2 DEF AttributesKept
  <2>2. CASE u = v
    <3>1. view'[v] \in {None, mine'[v]}
      BY <1>4, <1>6 DEF AttributesKept
    <3>2. QED
      BY <3>1, <2>2, <1>5
  <2>3. QED
    BY <2>1, <2>2
<1>10. QED
  BY <1>1, <1>8, <1>9 DEF AttributesKept

(* What the window gives: values, and of a view that inherits and for      *)
(* which nothing was typed, the control's.                                 *)
LEMMA DataFacts ==
  ASSUME Forms, "control" \in waiting
  PROVE  /\ Configuration!Data \in FormType
         /\ Configuration!Data.ctrl \in Value
         /\ Configuration!Data.view \in Value
         /\ target \in CtrlView
         /\ (form.manual = FALSE /\ view[form.of] = None)
              => Configuration!Data.view = Configuration!Data.ctrl
<1>1. form \in FormType /\ Typed /\ FormFollows
  BY DEF Forms
<1>2. CASE form.scope = "ctrl"
  <2>1. Configuration!Data = Configuration!Synced(form)
    BY <1>2 DEF Configuration!Data
  <2>2. (form.manual = FALSE /\ view[form.of] = None) => form.owned = FALSE
    BY <1>1 DEF FormFollows, FormType
  <2>3. QED
    BY <2>1, <2>2, <1>1, SyncedForm DEF Typed
<1>3. CASE form.scope # "ctrl"
  <2>1. Configuration!Data = form /\ form.scope = "view"
    BY <1>1, <1>3 DEF Configuration!Data, FormType
  <2>2. (form.manual = FALSE /\ view[form.of] = None) => form.owned = FALSE
    BY <1>1 DEF FormFollows, FormType
  <2>3. QED
    BY <2>1, <2>2, <1>1 DEF Typed, FormFollows
<1>4. QED
  BY <1>2, <1>3

LEMMA DataType ==
  ASSUME Forms
  PROVE  Configuration!Data \in FormType
<1>1. form \in FormType
  BY DEF Forms
<1>2. QED
  BY <1>1, SyncedForm, Zenon DEF Configuration!Data

LEMMA SubmitKeeps ==
  ASSUME ConfInv, Configuration!Submit
  PROVE  ConfInv'
<1>1. /\ Configuration!Hide("control") /\ form' = Configuration!Data
      /\ UNCHANGED Configuration!layouts
      /\ IF "control" \in waiting
         THEN Configuration!Apply(target, Configuration!Data.ctrl, Configuration!Data.view)
         ELSE UNCHANGED Configuration!attributes
  BY DEF Configuration!Submit
<1>2. Windows /\ Rest /\ SearchGoesOn /\ Forms
  BY InvIsParts
<1>3. Windows' /\ SearchGoesOn' /\ waiting' = waiting \ {"control"}
  BY <1>1, <1>2, HideKeepsWindows DEF Configuration!Window
<1>4. Forms'
  <2>1. form' \in FormType
    BY <1>1, <1>2, DataType
  <2>2. QED
    BY <2>1, <1>3, NoForm DEF Forms
<1>5. AttributeTypes' /\ AttributesKept'
  <2>1. CASE "control" \in waiting
    <3>1. /\ Configuration!Data.ctrl \in Value /\ Configuration!Data.view \in Value
          /\ target \in CtrlView
      BY <2>1, <1>2, DataFacts
    <3>2. QED
      BY <3>1, <2>1, <1>1, <1>2, ApplyKeeps DEF Rest
  <2>2. CASE "control" \notin waiting
    BY <2>2, <1>1, <1>2, AttributeTypesStay, AttributesStay DEF Rest
  <2>3. QED
    BY <2>1, <2>2
<1>6. QED
  BY <1>1, <1>2, <1>3, <1>4, <1>5, InvIsParts, LayoutTypesStay, LayoutStays DEF Rest

-----------------------------------------------------------------------------
(* The other windows. *)

LEMMA HiddenKeeps ==
  ASSUME ConfInv, NEW w \in Configuration!Window, Configuration!Hidden(w)
  PROVE  ConfInv'
<1>1. /\ hides' = [hides EXCEPT ![w] = hides[w] - 1] /\ hides[w] > 0
      /\ showing' = showing \ {w} /\ modal' = FALSE
      /\ UNCHANGED <<waiting, Configuration!attributes, Configuration!layouts,
                     Configuration!forms, Configuration!search>>
  BY DEF Configuration!Hidden, Configuration!Locked
<1>2. Windows /\ Rest /\ SearchGoesOn /\ Forms
  BY InvIsParts
<1>3. hides' \in [Configuration!Window -> Nat]
  <2>1. hides \in [Configuration!Window -> Nat] /\ hides[w] - 1 \in Nat
    BY <1>1, <1>2 DEF Windows, WindowTypes
  <2>2. QED
    BY <2>1, <1>1
<1>4. Windows'
  BY <1>1, <1>2, <1>3 DEF Windows, WindowTypes, Configuration!ModalHasWindow
<1>5. Rest' /\ SearchGoesOn' /\ Forms'
  BY <1>1, <1>2, RestStays, SearchStays, FormsStay, ViewStays
<1>6. QED
  BY <1>4, <1>5, InvIsParts

(* A step of a window other than the control's, or of none.                *)
LEMMA ElsewhereKeeps ==
  ASSUME ConfInv, Windows', SearchGoesOn', UNCHANGED Configuration!attributes,
         UNCHANGED Configuration!forms, "control" \in waiting' => "control" \in waiting,
         LayoutTypes' /\ LayoutKept'
  PROVE  ConfInv'
<1>1. Rest /\ Forms
  BY InvIsParts
<1>2. Rest'
  BY <1>1, AttributeTypesStay, AttributesStay DEF Rest
<1>3. Forms'
  <2>1. UNCHANGED view
    BY ViewStays
  <2>2. QED
    BY <1>1, <2>1 DEF Forms, Typed, FormFollows, Configuration!forms
<1>4. QED
  BY <1>2, <1>3, InvIsParts

LEMMA CancelKeeps ==
  ASSUME ConfInv, NEW w \in Configuration!Window, Configuration!Cancel(w)
  PROVE  ConfInv'
<1>1. /\ Configuration!Hide(w)
      /\ UNCHANGED <<Configuration!attributes, Configuration!layouts, Configuration!forms>>
  BY DEF Configuration!Cancel
<1>2. Windows /\ Rest /\ SearchGoesOn
  BY InvIsParts
<1>3. Windows' /\ SearchGoesOn' /\ waiting' = waiting \ {w}
  BY <1>1, <1>2, HideKeepsWindows
<1>4. LayoutTypes' /\ LayoutKept'
  BY <1>1, <1>2, LayoutTypesStay, LayoutStays DEF Rest
<1>5. QED
  BY <1>1, <1>3, <1>4, ElsewhereKeeps

LEMMA OpenLayoutKeeps ==
  ASSUME ConfInv, Configuration!OpenLayout
  PROVE  ConfInv'
<1>1. /\ Configuration!Show("layout")
      /\ UNCHANGED <<Configuration!attributes, Configuration!layouts, Configuration!forms,
                     Configuration!search>>
  BY DEF Configuration!OpenLayout
<1>2. Windows /\ Rest /\ SearchGoesOn
  BY InvIsParts
<1>3. Windows' /\ waiting' \subseteq waiting \union {"layout"}
  BY <1>1, <1>2, ShowKeepsWindows DEF Configuration!Window
<1>4. LayoutTypes' /\ LayoutKept' /\ SearchGoesOn'
  BY <1>1, <1>2, LayoutTypesStay, LayoutStays, SearchStays DEF Rest
<1>5. QED
  BY <1>1, <1>3, <1>4, ElsewhereKeeps

LEMMA SetLayoutKeeps ==
  ASSUME LayoutTypes, LayoutKept, NEW l \in Configuration!Layout, Configuration!SetLayout(l)
  PROVE  LayoutTypes' /\ LayoutKept'
<1>1. CASE l.text \in Rem
  <2>1. layout' = [layout EXCEPT !.grid = l.grid] /\ halved' = TRUE /\ sLayout' = sLayout
    BY <1>1 DEF Configuration!SetLayout
  <2>2. layout' \in Configuration!Layout
    BY <2>1 DEF LayoutTypes, Configuration!Layout
  <2>3. QED
    BY <2>1, <2>2 DEF LayoutTypes, LayoutKept
<1>2. CASE l.text \notin Rem
  <2>1. layout' = l /\ sLayout' = {l}
    BY <1>2 DEF Configuration!SetLayout
  <2>2. (CHOOSE k \in sLayout' : TRUE) = l /\ sLayout' # {}
    BY <2>1
  <2>3. Configuration!LoadedLayout' = l
    BY <2>2, Zenon DEF Configuration!LoadedLayout
  <2>4. QED
    BY <2>1, <2>3 DEF LayoutTypes, LayoutKept
<1>3. QED
  BY <1>1, <1>2

LEMMA SubmitLayoutKeeps ==
  ASSUME ConfInv, NEW l \in Configuration!Layout, Configuration!SubmitLayout(l)
  PROVE  ConfInv'
<1>1. /\ Configuration!Hide("layout")
      /\ IF "layout" \in waiting /\ l # layout THEN Configuration!SetLayout(l)
         ELSE UNCHANGED Configuration!layouts
      /\ UNCHANGED <<Configuration!attributes, Configuration!forms>>
  BY DEF Configuration!SubmitLayout
<1>2. Windows /\ Rest /\ SearchGoesOn
  BY InvIsParts
<1>3. Windows' /\ SearchGoesOn' /\ waiting' = waiting \ {"layout"}
  BY <1>1, <1>2, HideKeepsWindows DEF Configuration!Window
<1>4. LayoutTypes' /\ LayoutKept'
  BY <1>1, <1>2, SetLayoutKeeps, LayoutTypesStay, LayoutStays DEF Rest
<1>5. QED
  BY <1>1, <1>3, <1>4, ElsewhereKeeps

LEMMA SettingsKeep ==
  ASSUME ConfInv,
         \/ Configuration!AskSettings
         \/ Configuration!Answered
         \/ \E n \in Name : Configuration!SubmitSettings(n)
         \/ \E b \in BOOLEAN : Configuration!Taken(b)
  PROVE  ConfInv'
<1>1. Windows /\ Rest /\ SearchGoesOn
  BY InvIsParts
<1>2. /\ UNCHANGED <<Configuration!attributes, Configuration!layouts, Configuration!forms>>
      /\ \/ UNCHANGED Configuration!windows /\ UNCHANGED Configuration!search
         \/ Configuration!Show("settings") /\ UNCHANGED Configuration!search
         \/ Configuration!Hide("settings")
  BY DEF Configuration!AskSettings, Configuration!Answered, Configuration!SubmitSettings,
         Configuration!Taken
<1>3. Windows' /\ SearchGoesOn' /\ ("control" \in waiting' => "control" \in waiting)
  <2>1. CASE UNCHANGED Configuration!windows /\ UNCHANGED Configuration!search
    BY <2>1, <1>1, SearchStays
       DEF Windows, WindowTypes, Configuration!ModalHasWindow, Configuration!windows
  <2>2. CASE Configuration!Show("settings") /\ UNCHANGED Configuration!search
    BY <2>2, <1>1, ShowKeepsWindows, SearchStays DEF Configuration!Window
  <2>3. CASE Configuration!Hide("settings")
    BY <2>3, <1>1, HideKeepsWindows DEF Configuration!Window
  <2>4. QED
    BY <1>2, <2>1, <2>2, <2>3
<1>4. LayoutTypes' /\ LayoutKept'
  BY <1>1, <1>2, LayoutTypesStay, LayoutStays DEF Rest
<1>5. QED
  BY <1>2, <1>3, <1>4, ElsewhereKeeps

-----------------------------------------------------------------------------
(* The window of selection. *)

LEMMA OpenSelectionKeeps ==
  ASSUME ConfInv, Configuration!OpenSelection
  PROVE  ConfInv'
<1>1. /\ Configuration!Show("selection") /\ pickers' = pickers + 1
      /\ UNCHANGED <<Configuration!attributes, Configuration!layouts, Configuration!forms,
                     query, results, tasks>>
  BY DEF Configuration!OpenSelection
<1>2. Windows /\ Rest /\ SearchGoesOn
  BY InvIsParts
<1>3. Windows' /\ waiting' \subseteq waiting \union {"selection"}
  BY <1>1, <1>2, ShowKeepsWindows DEF Configuration!Window
<1>4. SearchGoesOn'
  BY <1>1, <1>2 DEF SearchGoesOn
<1>5. LayoutTypes' /\ LayoutKept'
  BY <1>1, <1>2, LayoutTypesStay, LayoutStays DEF Rest
<1>6. QED
  BY <1>1, <1>3, <1>4, <1>5, ElsewhereKeeps

LEMMA BatchGoesOn ==
  ASSUME SearchGoesOn, NEW t \in tasks, Configuration!Batch(t)
  PROVE  SearchGoesOn'
<1>1. PICK at \in Nat \ {0} : /\ tasks = {[query |-> query, at |-> at]}
                              /\ results = query \intersect (1 .. (at - 1))
  BY DEF SearchGoesOn
<1>2. t = [query |-> query, at |-> at] /\ t.query = query /\ t.at = at
  BY <1>1
<1> DEFINE next == at + BatchSize
<1>3. BatchSize \in Nat \ {0} /\ Controls \in Nat /\ next \in Nat \ {0}
  BY ConfConstants DEF Configuration!ConfigurationAssumption
<1>4. /\ results' = results \union (query \intersect (at .. (next - 1)))
      /\ tasks' = (tasks \ {t}) \union
                    IF next - 1 <= Controls THEN {[t EXCEPT !.at = next]} ELSE {}
      /\ UNCHANGED <<query, pickers>>
  BY <1>2 DEF Configuration!Batch
<1>5. [t EXCEPT !.at = next] = [query |-> query, at |-> next]
  BY <1>2
<1>6. query \subseteq 1 .. Controls
  BY DEF SearchGoesOn
<1>7. results' = query \intersect (1 .. (next - 1))
  BY <1>1, <1>3, <1>4, <1>6
<1> HIDE DEF next
<1>8. CASE next - 1 <= Controls
  <2>1. tasks' = {[query |-> query, at |-> next]}
    BY <1>1, <1>2, <1>4, <1>5, <1>8
  <2>2. QED
    BY <2>1, <1>3, <1>4, <1>7 DEF SearchGoesOn
<1>9. CASE ~(next - 1 <= Controls)
  <2>1. tasks' = {}
    BY <1>1, <1>2, <1>4, <1>9
  <2>2. results' = query
    <3>1. next - 1 \in Int /\ Controls <= next - 1
      BY <1>3, <1>9
    <3>2. ASSUME NEW i \in 1 .. Controls
          PROVE  i \in 1 .. (next - 1)
      BY <1>3, <3>1
    <3>3. QED
      BY <3>2, <1>6, <1>7, Zenon
  <2>3. QED
    BY <2>1, <2>2, <1>4 DEF SearchGoesOn
<1>10. QED
  BY <1>8, <1>9

LEMMA SearchKeeps ==
  ASSUME ConfInv,
         \/ \E q \in SUBSET (1 .. Controls) : Configuration!Search(q)
         \/ \E t \in tasks : Configuration!Batch(t)
  PROVE  ConfInv'
<1>1. Windows /\ Rest /\ SearchGoesOn
  BY InvIsParts
<1>2. UNCHANGED <<Configuration!attributes, Configuration!windows, Configuration!layouts,
                  Configuration!forms>>
  BY DEF Configuration!Search, Configuration!Batch
<1>3. SearchGoesOn'
  <2>1. CASE \E q \in SUBSET (1 .. Controls) : Configuration!Search(q)
    <3>1. PICK q \in SUBSET (1 .. Controls) : Configuration!Search(q)
      BY <2>1
    <3>2. /\ query' = q /\ results' = {} /\ tasks' = {[query |-> q, at |-> 1]}
          /\ pickers' = pickers
      BY <3>1 DEF Configuration!Search, Configuration!Running
    <3>3. results' = query' \intersect (1 .. (1 - 1))
      BY <3>2
    <3>4. QED
      BY <3>2, <3>3, <1>1 DEF SearchGoesOn
  <2>2. CASE \E t \in tasks : Configuration!Batch(t)
    BY <2>2, <1>1, BatchGoesOn
  <2>3. QED
    BY <2>1, <2>2
<1>4. Windows' /\ UNCHANGED waiting
  BY <1>1, <1>2 DEF Windows, WindowTypes, Configuration!ModalHasWindow, Configuration!windows
<1>5. LayoutTypes' /\ LayoutKept'
  BY <1>1, <1>2, LayoutTypesStay, LayoutStays DEF Rest
<1>6. QED
  BY <1>2, <1>3, <1>4, <1>5, ElsewhereKeeps

LEMMA PickKeeps ==
  ASSUME ConfInv, Configuration!Pick
  PROVE  ConfInv'
<1>1. /\ pickers > 0 /\ Configuration!HideTimes("selection", pickers) /\ Configuration!Cleared
      /\ UNCHANGED <<Configuration!attributes, Configuration!layouts, Configuration!forms>>
  BY DEF Configuration!Pick
<1>2. Windows /\ Rest /\ SearchGoesOn /\ pickers \in Nat
  BY <1>1, InvIsParts DEF SearchGoesOn
<1>3. Windows' /\ waiting' = waiting \ {"selection"}
  BY <1>1, <1>2, HideTimesKeepsWindows DEF Configuration!Window
<1>4. LayoutTypes' /\ LayoutKept' /\ SearchGoesOn'
  BY <1>1, <1>2, LayoutTypesStay, LayoutStays, ClearedIsDone DEF Rest
<1>5. QED
  BY <1>1, <1>3, <1>4, ElsewhereKeeps

-----------------------------------------------------------------------------
(* Loaded again, the page is what is kept of it.                           *)
LEMMA ConfReloadKeeps ==
  ASSUME ConfInv, Configuration!Reload
  PROVE  ConfInv'
<1>1. Windows /\ Rest /\ SearchGoesOn /\ Forms
  BY InvIsParts
<1>2. /\ ctrl' = Configuration!LoadedCtrl
      /\ view' = [v \in CtrlView |-> Configuration!LoadedView(v)]
      /\ UNCHANGED <<sCtrl, sView, mine, sLayout>>
      /\ layout' = Configuration!LoadedLayout
      /\ waiting' = {} /\ showing' = {} /\ modal' = FALSE
      /\ hides' = [w \in Configuration!Window |-> 0]
      /\ form' = Configuration!NoForm
      /\ query' = {} /\ results' = {} /\ tasks' = {} /\ pickers' = 0
  BY DEF Configuration!Reload
<1>3. Windows'
  <2>1. hides' \in [Configuration!Window -> Nat]
    BY <1>2, SMT
  <2>2. QED
    BY <1>2, <2>1 DEF Windows, WindowTypes, Configuration!ModalHasWindow
<1>4. SearchGoesOn'
  BY <1>2 DEF SearchGoesOn
<1>5. Forms'
  <2>1. form' \in FormType
    BY <1>2, NoneIsNone DEF Configuration!NoForm, FormType
  <2>2. QED
    BY <1>2, <2>1, NoForm DEF Forms
<1>6. /\ sCtrl \in Value \union {None} /\ sView \in [CtrlView -> Value \union {None}]
      /\ Configuration!LoadedCtrl \in Value \union {None}
  BY <1>1, KeptTypes DEF Rest, AttributeTypes, Configuration!LoadedCtrl
<1>7. ASSUME NEW v \in CtrlView
      PROVE  Configuration!LoadedView(v) \in {None, sView[v]}
  BY <1>6, KeptTypes DEF Configuration!LoadedView
<1>8. AttributeTypes'
  <2>1. view' \in [CtrlView -> Value \union {None}]
    BY <1>2, <1>6, <1>7
  <2>2. QED
    BY <1>1, <1>2, <1>6, <2>1 DEF Rest, AttributeTypes
<1>9. AttributesKept'
  <2>1. sCtrl' = Configuration!KeptCtrl(ctrl')
    <3>1. sCtrl = Configuration!KeptCtrl(ctrl)
      BY <1>1 DEF Rest, AttributesKept
    <3>2. ctrl' = sCtrl
      BY <3>1, <1>2, KeptTwice DEF Configuration!LoadedCtrl
    <3>3. QED
      BY <3>1, <3>2, <1>2, KeptTwice
  <2>2. ASSUME NEW v \in CtrlView
        PROVE  view'[v] \in {None, mine'[v]} /\ sView'[v] \in {None, mine'[v]}
    BY <1>1, <1>2, <1>7 DEF Rest, AttributesKept
  <2>3. QED
    BY <2>1, <2>2 DEF AttributesKept
<1>10. LayoutTypes' /\ LayoutKept'
  <2>1. layout' \in Configuration!Layout
    BY <1>1, <1>2, LoadedIsLayout DEF Rest
  <2>2. Configuration!LoadedLayout' = layout'
    BY <1>2 DEF Configuration!LoadedLayout
  <2>3. QED
    BY <1>1, <1>2, <2>1, <2>2 DEF Rest, LayoutTypes, LayoutKept
<1>11. QED
  BY <1>3, <1>4, <1>5, <1>8, <1>9, <1>10, InvIsParts DEF Rest

LEMMA ConfStutters ==
  ASSUME ConfInv, UNCHANGED Configuration!vars
  PROVE  ConfInv'
<1>1. UNCHANGED <<Configuration!attributes, Configuration!windows, Configuration!layouts,
                  Configuration!forms, Configuration!search>>
  BY DEF Configuration!vars
<1>2. Windows /\ Rest /\ SearchGoesOn
  BY InvIsParts
<1>3. Windows' /\ UNCHANGED waiting
  BY <1>1, <1>2 DEF Windows, WindowTypes, Configuration!ModalHasWindow, Configuration!windows
<1>4. LayoutTypes' /\ LayoutKept' /\ SearchGoesOn'
  BY <1>1, <1>2, LayoutTypesStay, LayoutStays, SearchStays DEF Rest
<1>5. QED
  BY <1>1, <1>3, <1>4, ElsewhereKeeps

LEMMA ConfNext == ConfInv /\ [Configuration!Next]_Configuration!vars => ConfInv'
<1> SUFFICES ASSUME ConfInv, [Configuration!Next]_Configuration!vars PROVE ConfInv'
  OBVIOUS
<1>1. CASE \E w \in Configuration!Window : Configuration!Hidden(w) \/ Configuration!Cancel(w)
  BY <1>1, HiddenKeeps, CancelKeeps
<1>2. CASE \E v \in CtrlView : Configuration!Open(v)
  BY <1>2, OpenKeeps
<1>3. CASE \E x \in Value : Configuration!TypeCtrl(x) \/ Configuration!TypeView(x)
  BY <1>3, TypeCtrlKeeps, TypeViewKeeps
<1>4. CASE Configuration!ChangeScope \/ Configuration!Submit
  BY <1>4, ChangeScopeKeeps, SubmitKeeps
<1>5. CASE Configuration!OpenLayout \/ \E l \in Configuration!Layout : Configuration!SubmitLayout(l)
  BY <1>5, OpenLayoutKeeps, SubmitLayoutKeeps
<1>6. CASE \/ Configuration!AskSettings \/ Configuration!Answered
           \/ \E n \in Name : Configuration!SubmitSettings(n)
           \/ \E b \in BOOLEAN : Configuration!Taken(b)
  BY <1>6, SettingsKeep
<1>7. CASE Configuration!OpenSelection \/ Configuration!Pick
  BY <1>7, OpenSelectionKeeps, PickKeeps
<1>8. CASE \/ \E q \in SUBSET (1 .. Controls) : Configuration!Search(q)
           \/ \E t \in tasks : Configuration!Batch(t)
  BY <1>8, SearchKeeps
<1>9. CASE Configuration!Reload
  BY <1>9, ConfReloadKeeps
<1>10. CASE UNCHANGED Configuration!vars
  BY <1>10, ConfStutters
<1>11. QED
  BY <1>1, <1>2, <1>3, <1>4, <1>5, <1>6, <1>7, <1>8, <1>9, <1>10 DEF Configuration!Next

LEMMA ConfInvHolds == ConfInv => WindowsHold
<1> SUFFICES ASSUME ConfInv PROVE WindowsHold
  OBVIOUS
<1>1. Rest /\ SearchGoesOn /\ Configuration!TypeOK /\ Configuration!ModalHasWindow
  BY InvIsParts DEF ConfInv, ConfTypes
<1>2. Configuration!FoundIsAsked
  <2>1. CASE tasks = {} /\ results = query
    BY <2>1 DEF Configuration!FoundIsAsked
  <2>2. CASE \E at \in Nat \ {0} : /\ tasks = {[query |-> query, at |-> at]}
                                   /\ results = query \intersect (1 .. (at - 1))
    BY <2>2 DEF Configuration!FoundIsAsked
  <2>3. QED
    BY <2>1, <2>2, <1>1 DEF SearchGoesOn
<1>3. sCtrl = Configuration!KeptCtrl(ctrl) /\ Configuration!LoadedCtrl = Configuration!KeptCtrl(ctrl)
  BY <1>1, KeptTwice DEF Rest, AttributesKept, Configuration!LoadedCtrl
<1>4. /\ ctrl \in Value \union {None} /\ sView \in [CtrlView -> Value \union {None}]
      /\ Configuration!LoadedCtrl \in Value \union {None}
  BY <1>1, <1>3, KeptTypes DEF Rest, AttributeTypes
<1>5. Configuration!Get(Configuration!LoadedCtrl) = Configuration!Get(ctrl)
  BY <1>3 DEF Configuration!KeptCtrl, Configuration!Get
<1>6. ASSUME NEW v \in CtrlView
      PROVE  /\ Configuration!GetView(ctrl, view[v]) \in {mine[v], Configuration!Get(ctrl)}
             /\ Configuration!GetView(Configuration!LoadedCtrl, Configuration!LoadedView(v))
                  \in {mine[v], Configuration!Get(ctrl)}
  <2>1. view[v] \in {None, mine[v]} /\ sView[v] \in {None, mine[v]}
    BY <1>1 DEF Rest, AttributesKept
  <2>2. Configuration!LoadedView(v) \in {None, sView[v]}
    BY <1>4, KeptTypes DEF Configuration!LoadedView
  <2>3. QED
    BY <2>1, <2>2, <1>5, NoneIsNone DEF Configuration!GetView
<1>7. Configuration!NothingComesBack
  BY <1>1, <1>3, <1>6 DEF Rest, LayoutKept, Configuration!NothingComesBack
<1>8. QED
  BY <1>1, <1>2, <1>7 DEF WindowsHold, Configuration!WindowsHold

-----------------------------------------------------------------------------
(* The windows of the configuration: the modal layer never stands with no  *)
(* window on it, what is found is what was searched for, and what a start  *)
(* makes of the store is what was set: no value that was replaced returns. *)
THEOREM WindowsAreKept == Configuration!Spec => []WindowsHold
<1>1. Configuration!Spec => Configuration!Init /\ [][Configuration!Next]_Configuration!vars
  BY PTL DEF Configuration!Spec
<1>2. ConfInv /\ [Configuration!Next]_Configuration!vars => ConfInv'
  BY ConfNext
<1>3. QED
  BY <1>1, <1>2, ConfInit, ConfInvHolds, PTL

-----------------------------------------------------------------------------
(* Only a result gives a view a value, and a start.                        *)
LEMMA OthersKeepViews ==
  ASSUME [Configuration!Next]_Configuration!vars, ~Configuration!Submit, ~Configuration!Reload
  PROVE  UNCHANGED view
<1>1. UNCHANGED Configuration!attributes
  BY Zenon DEF Configuration!Next, Configuration!vars, Configuration!Hidden, Configuration!Cancel,
     Configuration!Open, Configuration!TypeCtrl, Configuration!TypeView, Configuration!Type,
     Configuration!ChangeScope, Configuration!OpenLayout, Configuration!SubmitLayout,
     Configuration!AskSettings, Configuration!Answered, Configuration!SubmitSettings,
     Configuration!Taken, Configuration!OpenSelection, Configuration!Pick,
     Configuration!Search, Configuration!Batch
<1>2. QED
  BY <1>1, ViewStays

Inherits(v) ==
  (view[v] = None /\ view'[v] # None /\ form' # Configuration!NoForm /\ form.of = target)
    => form.manual

LEMMA ViewsInherit ==
  ASSUME ConfInv, [Configuration!Next]_Configuration!vars, NEW v \in CtrlView
  PROVE  Inherits(v)
<1> SUFFICES ASSUME view[v] = None, view'[v] # None, form' # Configuration!NoForm,
                    form.of = target, form.manual = FALSE
             PROVE  FALSE
  <2>1. form.manual \in BOOLEAN
    BY DEF ConfInv, ConfTypes, FormType
  <2>2. QED
    BY <2>1 DEF Inherits
<1>1. Configuration!Submit
  <2>1. Configuration!Submit \/ Configuration!Reload
    BY OthersKeepViews
  <2>2. ~Configuration!Reload
    BY DEF Configuration!Reload
  <2>3. QED
    BY <2>1, <2>2
<1>2. Rest /\ Forms
  BY InvIsParts
<1>3. "control" \in waiting
  <2>1. ASSUME "control" \notin waiting
        PROVE  UNCHANGED view
    BY <1>1, <2>1, ViewStays DEF Configuration!Submit
  <2>2. QED
    BY <2>1
<1> DEFINE x == Configuration!Data.ctrl
           y == Configuration!Data.view
<1>4. Configuration!Apply(target, x, y)
  BY <1>1, <1>3 DEF Configuration!Submit
<1>5. x \in Value /\ y \in Value /\ target \in CtrlView
        /\ (view[form.of] = None => y = x)
  BY <1>2, <1>3, DataFacts
<1> HIDE DEF x, y
<1>6. /\ ctrl' = Configuration!SetCtrl(x)
      /\ view' = [view EXCEPT ![target] = Configuration!SetView(ctrl', view[target], y)]
  BY <1>4 DEF Configuration!Apply
<1>7. view \in [CtrlView -> Value \union {None}] /\ AttributeTypes
  BY <1>2 DEF Rest, AttributeTypes
<1>8. target = v
  BY <1>6, <1>7
<1>9. y = x
  BY <1>5, <1>8
<1>10. ctrl' \in Value \union {None} /\ Configuration!Get(ctrl') = x
  BY <1>5, <1>6, <1>7, SetTypes
<1>11. Configuration!SetView(ctrl', view[target], y) = view[target]
  BY <1>5, <1>7, <1>8, <1>9, <1>10, SetTypes
<1>12. QED
  BY <1>6, <1>7, <1>8, <1>11

(* A view that inherited goes on inheriting from the control, unless       *)
(* something was typed for a view.                                         *)
THEOREM ViewsStayInherited == Configuration!Spec => StaysInherited
<1>1. Configuration!Spec => Configuration!Init /\ [][Configuration!Next]_Configuration!vars
  BY PTL DEF Configuration!Spec
<1>2. ConfInv /\ [Configuration!Next]_Configuration!vars => ConfInv'
  BY ConfNext
<1>3. ConfInv /\ [Configuration!Next]_Configuration!vars
        => \A v \in CtrlView : Inherits(v)
  BY ViewsInherit
<1>4. (\A v \in CtrlView : Inherits(v))
        => [\A v \in CtrlView :
              (view[v] = Configuration!None /\ view'[v] /= Configuration!None
                 /\ form' /= Configuration!NoForm /\ form.of = target)
                => form.manual]_Configuration!vars
  BY NoneIsNone DEF Inherits
<1>5. Configuration!Spec =>
        [][\A v \in CtrlView :
              (view[v] = Configuration!None /\ view'[v] /= Configuration!None
                 /\ form' /= Configuration!NoForm /\ form.of = target)
                => form.manual]_Configuration!vars
  BY <1>1, <1>2, <1>3, <1>4, ConfInit, PTL
<1>6. QED
  BY <1>5, PTL DEF StaysInherited, Configuration!StaysInherited

-----------------------------------------------------------------------------
(***************************************************************************)
(* Editing. Zones follow the mode with a frame's delay: the page the frame *)
(* was requested for is right at once, and the frame brings to the others  *)
(* what the button says.                                                   *)
(***************************************************************************)
ModeTypes ==
  /\ zones \in [EditedPage -> BOOLEAN] /\ shown \in EditedPage /\ routed \in EditedPage
  /\ frame = Editing!NoFrame \/ frame \in [mode : {"on", "off"}, page : EditedPage]
  /\ hasty \in BOOLEAN /\ pressed \in {Editing!None, "editmode", "configurate"}

ZonesComing ==
  ~hasty =>
    /\ (frame # Editing!NoFrame) => ((frame.mode = "on") <=> (pressed = "editmode"))
    /\ \A p \in EditedPage :
         (frame = Editing!NoFrame \/ p = frame.page) => (zones[p] = TRUE <=> pressed = "editmode")

ModesInv == ModeTypes /\ Editing!HandlersFollow /\ ZonesComing

LEMMA FrameIsNone == Editing!None = "none" /\ Editing!NoFrame = [mode |-> "none", page |-> "none"]
  BY DEF Editing!None, Editing!NoFrame

LEMMA ModesInit == Editing!Init => ModesInv
  BY FrameIsNone DEF Editing!Init, ModesInv, ModeTypes, Editing!HandlersFollow, ZonesComing

LEMMA ZonesAroundFollow ==
  ASSUME ModeTypes, NEW m \in BOOLEAN, Editing!ZonesAround(m), UNCHANGED Editing!walk, hasty' = hasty,
         pressed' \in {Editing!None, "editmode", "configurate"},
         m = TRUE <=> pressed' = "editmode"
  PROVE  ModeTypes' /\ ZonesComing'
<1>1. /\ zones' = [zones EXCEPT ![routed] = m]
      /\ frame' = [mode |-> IF m THEN "on" ELSE "off", page |-> routed]
  BY DEF Editing!ZonesAround
<1>2. zones' \in [EditedPage -> BOOLEAN] /\ zones'[routed] = m
  BY <1>1 DEF ModeTypes
<1>3. /\ frame' \in [mode : {"on", "off"}, page : EditedPage]
      /\ frame'.page = routed /\ (frame'.mode = "on" <=> m = TRUE) /\ frame' # Editing!NoFrame
  BY <1>1, FrameIsNone DEF ModeTypes
<1>4. shown' = shown /\ routed' = routed
  BY DEF Editing!walk
<1>5. QED
  BY <1>2, <1>3, <1>4 DEF ModeTypes, ZonesComing

(* The zones of a step that is not about them.                             *)
LEMMA ZonesStay ==
  ASSUME ModeTypes, ZonesComing, UNCHANGED <<zones, Editing!walk, frame, hasty>>,
         pressed' \in {Editing!None, "editmode", "configurate"},
         ~hasty => (pressed' = "editmode" <=> pressed = "editmode")
  PROVE  ModeTypes' /\ ZonesComing'
  BY DEF ModeTypes, ZonesComing, Editing!walk

LEMMA EditmodeOnFollows ==
  ASSUME ModesInv, Editing!EditmodeOn
  PROVE  ModesInv'
<1>1. ModeTypes' /\ ZonesComing'
  BY ZonesAroundFollow DEF ModesInv, Editing!EditmodeOn
<1>2. Editing!HandlersFollow'
  <2> SUFFICES ASSUME hasty = FALSE PROVE Editing!HandlersFollow'
    BY DEF Editing!EditmodeOn, Editing!HandlersFollow, ModesInv, ModeTypes
  <2>1. /\ handlers = {pressed} \ {Editing!None}
        /\ pressed = "configurate" => "configuration" \in reasons
        /\ pressed # "editmode"
    BY DEF ModesInv, Editing!HandlersFollow, Editing!EditmodeOn
  <2>2. /\ pressed' = "editmode" /\ "editmode" \in reasons'
        /\ handlers' = (IF "configuration" \in reasons THEN handlers \ {"configurate"}
                        ELSE handlers) \union {"editmode"}
    BY DEF Editing!EditmodeOn
  <2>3. pressed \in {Editing!None, "configurate"}
    BY <2>1 DEF ModesInv, ModeTypes
  <2>4. handlers' = {"editmode"}
    BY <2>1, <2>2, <2>3
  <2>5. QED
    BY <2>2, <2>4, FrameIsNone DEF Editing!HandlersFollow
<1>3. QED
  BY <1>1, <1>2 DEF ModesInv

LEMMA EditmodeOffFollows ==
  ASSUME ModesInv, Editing!EditmodeOff
  PROVE  ModesInv'
<1>1. ModeTypes' /\ ZonesComing'
  BY ZonesAroundFollow, FrameIsNone DEF ModesInv, Editing!EditmodeOff, Editing!history
<1>2. Editing!HandlersFollow'
  BY FrameIsNone DEF ModesInv, Editing!HandlersFollow, Editing!EditmodeOff, Editing!history
<1>3. QED
  BY <1>1, <1>2 DEF ModesInv

LEMMA ConfigurateOnFollows ==
  ASSUME ModesInv, Editing!ConfigurateOn
  PROVE  ModesInv'
<1>1. pressed' = "configurate" /\ UNCHANGED <<Editing!walk, hasty>> /\ "configuration" \in reasons'
  BY DEF Editing!ConfigurateOn, Editing!history
<1>2. CASE "editmode" \in reasons
  <2>1. handlers' = {"configurate"} /\ Editing!ZonesAround(FALSE)
    BY <1>2 DEF Editing!ConfigurateOn
  <2>2. ModeTypes' /\ ZonesComing'
    BY <1>1, <2>1, ZonesAroundFollow DEF ModesInv
  <2>3. Editing!HandlersFollow'
    BY <1>1, <2>1, FrameIsNone DEF Editing!HandlersFollow
  <2>4. QED
    BY <2>2, <2>3 DEF ModesInv
<1>3. CASE "editmode" \notin reasons
  <2>1. handlers' = handlers \union {"configurate"} /\ UNCHANGED <<zones, frame>>
    BY <1>3 DEF Editing!ConfigurateOn
  <2>2. ~hasty => pressed # "editmode"
    BY <1>3 DEF ModesInv, Editing!HandlersFollow
  <2>3. ModeTypes' /\ ZonesComing'
    BY <1>1, <2>1, <2>2, ZonesStay DEF ModesInv
  <2>4. Editing!HandlersFollow'
    <3> SUFFICES ASSUME ~hasty PROVE Editing!HandlersFollow'
      BY <1>1 DEF Editing!HandlersFollow
    <3>1. handlers = {pressed} \ {Editing!None} /\ pressed \in {Editing!None, "configurate"}
      BY <2>2 DEF ModesInv, ModeTypes, Editing!HandlersFollow
    <3>2. pressed # "configurate"
      BY DEF Editing!ConfigurateOn
    <3>3. handlers' = {"configurate"}
      BY <3>1, <3>2, <2>1
    <3>4. QED
      BY <1>1, <3>3, FrameIsNone DEF Editing!HandlersFollow
  <2>5. QED
    BY <2>3, <2>4 DEF ModesInv
<1>4. QED
  BY <1>2, <1>3

LEMMA ConfigurateOffFollows ==
  ASSUME ModesInv, Editing!ConfigurateOff
  PROVE  ModesInv'
<1>1. pressed = "configurate" /\ pressed' = Editing!None /\ UNCHANGED <<zones, frame, Editing!walk, hasty>>
        /\ handlers' = handlers \ {"configurate"}
  BY DEF Editing!ConfigurateOff, Editing!history
<1>2. ModeTypes' /\ ZonesComing'
  BY <1>1, ZonesStay, FrameIsNone DEF ModesInv
<1>3. Editing!HandlersFollow'
  BY <1>1, FrameIsNone DEF ModesInv, Editing!HandlersFollow
<1>4. QED
  BY <1>2, <1>3 DEF ModesInv

LEMMA LeftFollows ==
  ASSUME ModesInv, Editing!Left
  PROVE  ModesInv'
<1>1. /\ reasons' = reasons \ {"editmode"} /\ hasty' = (hasty \/ pressed = "editmode")
      /\ UNCHANGED <<pressed, handlers, zones, frame, shown, routed>>
  BY DEF Editing!Left, Editing!walk
<1>2. hasty' \in BOOLEAN /\ (hasty => hasty') /\ (pressed = "editmode" => hasty')
  BY <1>1 DEF ModesInv, ModeTypes
<1>3. QED
  BY <1>1, <1>2 DEF ModesInv, ModeTypes, ZonesComing, Editing!HandlersFollow

LEMMA FrameFollows ==
  ASSUME ModesInv, Editing!Frame
  PROVE  ModesInv'
<1>1. /\ frame # Editing!NoFrame /\ frame' = Editing!NoFrame
      /\ zones' = [p \in EditedPage |-> IF p = frame.page THEN zones[p] ELSE frame.mode = "on"]
      /\ UNCHANGED <<pressed, handlers, reasons, shown, routed, hasty>>
  BY DEF Editing!Frame, Editing!history, Editing!walk
<1>2. ASSUME NEW p \in EditedPage
      PROVE  /\ zones'[p] \in BOOLEAN
             /\ ~hasty => (zones'[p] = TRUE <=> pressed = "editmode")
  <2>1. CASE p = frame.page
    BY <2>1, <1>1 DEF ModesInv, ModeTypes, ZonesComing
  <2>2. CASE p # frame.page
    BY <2>2, <1>1 DEF ModesInv, ModeTypes, ZonesComing
  <2>3. QED
    BY <2>1, <2>2
<1>3. zones' \in [EditedPage -> BOOLEAN]
  BY <1>1, <1>2
<1>4. QED
  BY <1>1, <1>2, <1>3 DEF ModesInv, ModeTypes, ZonesComing, Editing!HandlersFollow

LEMMA EditReloadFollows ==
  ASSUME ModesInv, Editing!Reload
  PROVE  ModesInv'
<1>1. /\ pressed' = Editing!None /\ handlers' = {} /\ zones' = [p \in EditedPage |-> FALSE]
      /\ frame' = Editing!NoFrame /\ hasty' = FALSE /\ shown' = routed /\ routed' = routed
  BY DEF Editing!Reload
<1>2. QED
  BY <1>1, FrameIsNone DEF ModesInv, ModeTypes, ZonesComing, Editing!HandlersFollow

(* The page shown and the router's may be any.                             *)
LEMMA WalkFollows ==
  ASSUME ModesInv, Editing!Swipe \/ Editing!Go \/ Editing!Follow
  PROVE  ModesInv'
<1>1. /\ UNCHANGED <<pressed, handlers, reasons, zones, frame, hasty>>
      /\ shown' \in EditedPage /\ routed' \in EditedPage
  BY DEF ModesInv, ModeTypes, Editing!Swipe, Editing!Go, Editing!Follow, Editing!modes,
         Editing!history
<1>2. QED
  BY <1>1 DEF ModesInv, ModeTypes, ZonesComing, Editing!HandlersFollow

(* No edit changes a mode.                                                 *)
LEMMA EditsFollow ==
  ASSUME ModesInv,
         \/ Editing!Tap \/ Editing!TapOrphan \/ Editing!LongTap \/ Editing!LongTapOrphan
         \/ Editing!Moved \/ Editing!Removed \/ Editing!Chosen \/ Editing!Dropped
         \/ UNCHANGED Editing!vars
  PROVE  ModesInv'
<1>1. UNCHANGED Editing!modes /\ UNCHANGED <<shown, routed, hasty>>
  BY Zenon DEF Editing!walk, Editing!Tap, Editing!TapOrphan, Editing!LongTap, Editing!LongTapOrphan, Editing!Moved,
         Editing!Removed, Editing!Chosen, Editing!Dropped, Editing!vars, Editing!history
<1>2. QED
  BY <1>1 DEF Editing!modes, ModesInv, ModeTypes, ZonesComing, Editing!HandlersFollow

LEMMA ModesNext == ModesInv /\ [Editing!Next]_Editing!vars => ModesInv'
  BY EditmodeOnFollows, EditmodeOffFollows, ConfigurateOnFollows, ConfigurateOffFollows,
     LeftFollows, FrameFollows, EditReloadFollows, WalkFollows, EditsFollow, Zenon
     DEF Editing!Next

(* The modes of the edit mode and of the configuration: the handlers that  *)
(* stand are of the mode whose button is down, which has its lock, and     *)
(* once no frame is due the zones of all pages are there while the edit    *)
(* mode is on and gone while it is off.                                    *)
THEOREM ModesAreFollowed == Editing!Spec => []ModesFollow
<1>1. Editing!Spec => Editing!Init /\ [][Editing!Next]_Editing!vars
  BY PTL DEF Editing!Spec
<1>2. ModesInv => ModesFollow
  BY DEF ModesInv, ModeTypes, ZonesComing, ModesFollow, Editing!ModesFollow, Editing!ZonesFollow
<1>3. QED
  BY <1>1, <1>2, ModesInit, ModesNext, PTL

-----------------------------------------------------------------------------
(* Edits. An edit is about views, and claims the areas they leave and      *)
(* those they go to.                                                       *)
Views(op) == {op.view, op.other} \ {Editing!None}
Claims(op) == ({op.to, op.otherTo} \union {area[v] : v \in Views(op)}) \intersect Area

Spot == Area \union {Out, Editing!None}
OpType ==
  [kind : {"move", "swap", "remove", "choose", "unveil"}, view : Editing!View \union {Editing!None}, to : Spot,
   other : Editing!View \union {Editing!None}, otherTo : Spot, zones : SUBSET Editing!Zone]

PlaceTypes ==
  /\ refs \in [Editing!View -> EditedPage \union {Editing!None}] /\ area \in [Editing!View -> Spot]
  /\ custom \subseteq Fresh /\ removed \subseteq Editing!View
  /\ customs \subseteq Fresh \X EditedPage /\ marks \subseteq EditedPage \X Fresh

OpsTypes ==
  /\ ops \subseteq OpType
  /\ \A op \in ops : /\ op.kind = "remove" => op.view \in Editing!View
                     /\ op.kind \in {"choose", "unveil"} =>
                          (op.to \in Area /\ op.view = Editing!None /\ op.other = Editing!None
                             /\ op.otherTo = Editing!None)

(* Who edits does so in a mode that was begun on a page, and only then.    *)
CourseTypes ==
  /\ shown \in EditedPage /\ routed \in EditedPage /\ edited \in EditedPage \union {Editing!None}
  /\ handlers \subseteq {"editmode", "configurate"}
  /\ zones \in [EditedPage -> BOOLEAN]
  /\ edits \in Nat /\ leaving \in Nat /\ leaving <= edits /\ edits <= MaxEdits
  /\ strayed \in BOOLEAN
  /\ (ops # {} \/ "editmode" \in handlers) => edited \in EditedPage

SelectedTypes ==
  /\ selected = Editing!Nothing \/ selected \in [zone : Editing!Zone \union {Editing!NoZone}, view : Editing!View]
  /\ "editmode" \notin handlers => selected = Editing!Nothing

(***************************************************************************)
(* While nothing strayed: the store keeps the views that are listed, where *)
(* they are, and nothing else.                                             *)
(***************************************************************************)
Kept ==
  /\ gone \subseteq EditedPage \X Static
  /\ \A v \in Static : /\ refs[v] \in {Editing!None, HomePage[v]}
                       /\ refs[v] = Editing!None <=> <<HomePage[v], v>> \in gone
  /\ \A v \in Fresh : /\ refs[v] # Editing!None => v \in custom
                      /\ \A p \in EditedPage : /\ <<v, p>> \in customs <=> refs[v] = p
                                               /\ <<p, v>> \in marks <=> refs[v] = p
  /\ \A t \in areas : \E v \in Editing!View : refs[v] # Editing!None /\ t = <<refs[v], v, area[v]>>
  /\ \A v \in Editing!View : refs[v] # Editing!None =>
       /\ v \notin removed /\ area[v] \in Area \union {Out}
       /\ <<refs[v], v, area[v]>> \in areas \/ (v \in Static /\ area[v] = HomeArea[v])

Alone ==
  \A v, w \in Editing!View :
    (v # w /\ refs[v] = refs[w] /\ refs[v] # Editing!None /\ area[v] = area[w]) => area[v] \notin Area

(* An edit under way will find what its gesture found.                     *)
Free(a) == \A v \in Editing!View : refs[v] = edited => area[v] # a

Fits(op) ==
  /\ \A v \in Views(op) : v \in Editing!View /\ refs[v] = edited
  /\ op.kind = "move" => op.view \in Editing!View /\ op.other = Editing!None /\ op.to \in Area /\ Free(op.to)
  /\ op.kind = "swap" =>
       /\ op.view \in Editing!View /\ op.other \in Editing!View /\ op.view # op.other
       /\ op.to = area[op.other] /\ op.otherTo = area[op.view]
  /\ op.kind = "remove" =>
       op.to = Editing!None /\ (op.other # Editing!None => op.otherTo = area[op.view])
  /\ op.kind = "choose" => Free(op.to)

(* No two of them are about one view or one area.                          *)
Apart ==
  \A op \in ops : \A o2 \in ops : op # o2 =>
    Views(op) \intersect Views(o2) = {} /\ Claims(op) \intersect Claims(o2) = {}

(* What they claim is locked as long as more edits may come, which a frame *)
(* that is due does not change.                                            *)
Locks ==
  "editmode" \in handlers =>
    /\ \A op \in ops : \A a \in Claims(op) : <<edited, a>> \in op.zones
    /\ frame # Editing!NoFrame => frame.page = edited

(* What is selected is where it was found, and no edit is about it.        *)
SelectionFits ==
  selected # Editing!Nothing =>
    /\ refs[selected.view] = edited
    /\ selected.zone = Editing!NoZone => area[selected.view] \notin Area
    /\ selected.zone # Editing!NoZone =>
         area[selected.view] \in Area /\ selected.zone = <<edited, area[selected.view]>>
    /\ \A op \in ops : selected.view \notin Views(op) /\ area[selected.view] \notin Claims(op)

Course == (\A op \in ops : Fits(op)) /\ Apart /\ Locks /\ SelectionFits

EditTypes == PlaceTypes /\ OpsTypes /\ CourseTypes /\ SelectedTypes
EditInv == EditTypes /\ (strayed = FALSE => Kept /\ Alone /\ Course)

LEMMA EditNone == Editing!None = "none" /\ Editing!NoZone = <<Editing!None, Editing!None>>
                    /\ Editing!Nothing = [zone |-> Editing!NoZone, view |-> Editing!None]
  BY DEF Editing!None, Editing!NoZone, Editing!Nothing

LEMMA EditConstants ==
  /\ Static \intersect Fresh = {} /\ Out \notin Area /\ MaxEdits \in Nat
  /\ Editing!View = Static \union Fresh
  /\ Editing!None \notin EditedPage /\ Editing!None \notin Editing!View /\ Editing!None \notin Area /\ Editing!None # Out
  /\ HomePage \in [Static -> EditedPage] /\ HomeArea \in [Static -> Area \union {Out}]
  /\ \A v, w \in Static : (v # w /\ HomePage[v] = HomePage[w] /\ HomeArea[v] = HomeArea[w])
                            => HomeArea[v] \notin Area
  BY PageAssumption DEF Editing!EditingAssumption, Editing!View

-----------------------------------------------------------------------------
(* The page that a start makes of what is kept.                            *)

LEMMA LoadedTypes ==
  ASSUME PlaceTypes, NEW v \in Editing!View
  PROVE  /\ Editing!LoadedPage(v) \in EditedPage \union {Editing!None}
         /\ Editing!LoadedRef(v) \in EditedPage \union {Editing!None}
         /\ Editing!LoadedArea(v) \in Spot
         /\ Editing!LoadedCustom \subseteq Fresh
<1>1. Editing!LoadedPage(v) \in EditedPage \union {Editing!None}
  <2>1. CASE v \in Static
    BY <2>1, EditConstants DEF Editing!LoadedPage
  <2>2. CASE v \notin Static /\ \E p \in EditedPage : <<v, p>> \in customs
    <3>1. (CHOOSE p \in EditedPage : <<v, p>> \in customs) \in EditedPage
      BY <2>2
    <3>2. QED
      BY <3>1, <2>2 DEF Editing!LoadedPage
  <2>3. CASE v \notin Static /\ ~\E p \in EditedPage : <<v, p>> \in customs
    BY <2>3 DEF Editing!LoadedPage
  <2>4. QED
    BY <2>1, <2>2, <2>3
<1>2. Editing!LoadedRef(v) \in EditedPage \union {Editing!None}
  BY <1>1 DEF Editing!LoadedRef
<1>3. Editing!LoadedArea(v) \in Spot
  <2> DEFINE P(a) == <<Editing!LoadedPage(v), v, a>> \in areas
  <2>1. CASE \E a \in Area \union {Out} : P(a)
    <3>1. (CHOOSE a \in Area \union {Out} : P(a)) \in Area \union {Out}
      BY <2>1
    <3>2. QED
      BY <3>1, <2>1 DEF Editing!LoadedArea, Spot
  <2>2. CASE ~\E a \in Area \union {Out} : P(a)
    BY <2>2, EditConstants DEF Editing!LoadedArea, Spot
  <2>3. QED
    BY <2>1, <2>2
<1>4. Editing!LoadedCustom \subseteq Fresh
  BY DEF Editing!LoadedCustom, PlaceTypes
<1>5. QED
  BY <1>1, <1>2, <1>3, <1>4

LEMMA LoadedIsListed ==
  ASSUME PlaceTypes, Kept, NEW v \in Editing!View
  PROVE  /\ Editing!LoadedRef(v) = refs[v]
         /\ refs[v] # Editing!None => Editing!LoadedPage(v) = refs[v]
         /\ <<Editing!LoadedPage(v), v>> \in gone => refs[v] = Editing!None
<1>1. CASE v \in Static
  <2>1. Editing!LoadedPage(v) = HomePage[v]
    BY <1>1 DEF Editing!LoadedPage
  <2>2. HomePage[v] # Editing!None
    BY <1>1, EditConstants
  <2>3. QED
    BY <1>1, <2>1, <2>2 DEF Editing!LoadedRef, Kept
<1>2. CASE v \in Fresh /\ refs[v] = Editing!None
  <2>1. ~\E p \in EditedPage : <<v, p>> \in customs
    BY <1>2, EditConstants DEF Kept
  <2>2. Editing!LoadedPage(v) = Editing!None
    BY <1>2, <2>1, EditConstants DEF Editing!LoadedPage
  <2>3. <<Editing!None, v>> \notin gone
    BY EditConstants DEF Kept
  <2>4. QED
    BY <1>2, <2>2, <2>3 DEF Editing!LoadedRef
<1>3. CASE v \in Fresh /\ refs[v] # Editing!None
  <2>1. refs[v] \in EditedPage
    BY <1>3 DEF PlaceTypes
  <2>2. \A p \in EditedPage : <<v, p>> \in customs <=> p = refs[v]
    BY <1>3 DEF Kept
  <2>3. (CHOOSE p \in EditedPage : <<v, p>> \in customs) = refs[v]
          /\ \E p \in EditedPage : <<v, p>> \in customs
    BY <2>1, <2>2
  <2>4. Editing!LoadedPage(v) = refs[v]
    BY <1>3, <2>3, EditConstants, Zenon DEF Editing!LoadedPage
  <2>5. <<refs[v], v>> \notin gone
    BY <1>3, EditConstants DEF Kept
  <2>6. QED
    BY <2>4, <2>5 DEF Editing!LoadedRef
<1>4. QED
  BY <1>1, <1>2, <1>3, EditConstants

LEMMA LoadedIsThere ==
  ASSUME PlaceTypes, Kept, NEW v \in Editing!View, refs[v] # Editing!None
  PROVE  Editing!LoadedArea(v) = area[v] /\ (v \in Editing!LoadedCustom <=> v \in custom)
<1>1. Editing!LoadedPage(v) = refs[v] /\ refs[v] \in EditedPage
  BY LoadedIsListed DEF PlaceTypes
<1>2. ASSUME NEW a, <<refs[v], v, a>> \in areas
      PROVE  a = area[v]
  BY <1>2 DEF Kept
<1>3. Editing!LoadedArea(v) = area[v]
  <2>1. CASE <<refs[v], v, area[v]>> \in areas
    <3>1. area[v] \in Area \union {Out}
      BY DEF Kept
    <3>2. (CHOOSE a \in Area \union {Out} : <<refs[v], v, a>> \in areas) = area[v]
      BY <1>2, <2>1, <3>1
    <3>3. QED
      BY <1>1, <2>1, <3>1, <3>2, Zenon DEF Editing!LoadedArea
  <2>2. CASE <<refs[v], v, area[v]>> \notin areas
    <3>1. v \in Static /\ area[v] = HomeArea[v]
      BY <2>2 DEF Kept
    <3>2. ~\E a \in Area \union {Out} : <<refs[v], v, a>> \in areas
      BY <1>2, <2>2
    <3>3. QED
      BY <1>1, <3>1, <3>2, Zenon DEF Editing!LoadedArea
  <2>3. QED
    BY <2>1, <2>2
<1>4. v \in Editing!LoadedCustom <=> <<refs[v], v>> \in marks
  BY <1>1 DEF Editing!LoadedCustom
<1>5. CASE v \in Static
  BY <1>4, <1>5, EditConstants, <1>3 DEF PlaceTypes
<1>6. CASE v \in Fresh
  BY <1>1, <1>3, <1>4, <1>6 DEF Kept
<1>7. QED
  BY <1>5, <1>6, EditConstants

-----------------------------------------------------------------------------
LEMMA EditInitial == Editing!Init => EditInv
<1> SUFFICES ASSUME Editing!Init PROVE EditInv
  OBVIOUS
<1>1. /\ refs = [v \in Editing!View |-> IF v \in Static THEN HomePage[v] ELSE Editing!None]
      /\ area = [v \in Editing!View |-> IF v \in Static THEN HomeArea[v] ELSE Editing!None]
      /\ areas = {} /\ gone = {} /\ marks = {} /\ customs = {} /\ custom = {} /\ removed = {}
      /\ ops = {} /\ handlers = {} /\ selected = Editing!Nothing
  BY DEF Editing!Init
<1>2. ASSUME NEW v \in Editing!View
      PROVE  /\ refs[v] \in EditedPage \union {Editing!None} /\ area[v] \in Spot
             /\ v \in Static => (refs[v] = HomePage[v] /\ area[v] = HomeArea[v]
                                   /\ HomePage[v] # Editing!None /\ HomeArea[v] \in Area \union {Out})
             /\ v \notin Static => refs[v] = Editing!None
  BY <1>1, EditConstants DEF Spot
<1>3. PlaceTypes
  BY <1>1, <1>2 DEF PlaceTypes
<1>4. OpsTypes /\ SelectedTypes
  BY <1>1 DEF OpsTypes, SelectedTypes
<1>5. CourseTypes
  <2>1. zones \in [EditedPage -> BOOLEAN] /\ shown \in EditedPage /\ routed \in EditedPage
          /\ edited = Editing!None /\ edits = 0 /\ leaving = 0 /\ strayed = FALSE
    BY DEF Editing!Init
  <2>2. edits \in Nat /\ leaving \in Nat /\ leaving <= edits /\ edits <= MaxEdits
    BY <2>1, EditConstants
  <2>3. strayed \in BOOLEAN
    BY <2>1, Zenon
  <2>4. QED
    BY <2>1, <2>2, <2>3, <1>1, Zenon DEF CourseTypes
<1>6. Course
  BY <1>1 DEF Course, Apart, Locks, SelectionFits, Editing!Init
<1>7. Kept
  BY <1>1, <1>2, EditConstants DEF Kept
<1>8. Alone
  BY <1>2, EditConstants DEF Alone
<1>9. QED
  BY <1>3, <1>4, <1>5, <1>6, <1>7, <1>8 DEF EditInv, EditTypes

-----------------------------------------------------------------------------
(* The modes. An edit whose zones were taken down is the edit it was.      *)
Like(o2, op) ==
  /\ o2.kind = op.kind /\ o2.view = op.view /\ o2.to = op.to /\ o2.other = op.other
  /\ o2.otherTo = op.otherTo

LEMMA LikeFacts ==
  ASSUME NEW o2, NEW op, Like(o2, op)
  PROVE  Views(o2) = Views(op) /\ Claims(o2) = Claims(op)
  BY DEF Like, Views, Claims

LEMMA StripFacts ==
  ASSUME OpsTypes, NEW ps, NEW o2 \in Editing!Strip(ps)
  PROVE  \E op \in ops : /\ o2 \in OpType /\ Like(o2, op)
                         /\ o2.zones = {z \in op.zones : z[1] \notin ps}
<1>1. PICK op \in ops : o2 = [op EXCEPT !.zones = {z \in op.zones : z[1] \notin ps}]
  BY DEF Editing!Strip
<1>2. op \in OpType
  BY DEF OpsTypes
<1> DEFINE zs == {z \in op.zones : z[1] \notin ps}
<1>3. zs \in SUBSET Editing!Zone
  BY <1>2 DEF OpType
<1> HIDE DEF zs
<1>4. o2 = [op EXCEPT !.zones = zs]
  BY <1>1 DEF zs
<1>5. o2 \in OpType /\ Like(o2, op) /\ o2.zones = zs
  BY <1>2, <1>3, <1>4 DEF OpType, Like
<1>6. QED
  BY <1>5 DEF zs

(* Two edits with the zones of neither are two edits.                      *)
LEMMA StripIsFunction ==
  ASSUME NEW ps, NEW o2 \in Editing!Strip(ps), NEW o3 \in Editing!Strip(ps), o2 # o3, OpsTypes
  PROVE  \E op \in ops : \E o1 \in ops : op # o1 /\ Like(o2, op) /\ Like(o3, o1)
<1>1. PICK op \in ops : o2 = [op EXCEPT !.zones = {z \in op.zones : z[1] \notin ps}]
  BY DEF Editing!Strip
<1>2. PICK o1 \in ops : o3 = [o1 EXCEPT !.zones = {z \in o1.zones : z[1] \notin ps}]
  BY DEF Editing!Strip
<1>3. op # o1
  BY <1>1, <1>2
<1>4. op \in OpType /\ o1 \in OpType
  BY DEF OpsTypes
<1>5. Like(o2, op)
  BY <1>1, <1>4 DEF OpType, Like
<1>6. Like(o3, o1)
  BY <1>2, <1>4 DEF OpType, Like
<1>7. QED
  BY <1>3, <1>5, <1>6

OpsAlike == ops' = ops \/ \E ps : ops' = Editing!Strip(ps)

LEMMA AlikeFacts ==
  ASSUME OpsTypes, OpsAlike
  PROVE  /\ \A o2 \in ops' : o2 \in OpType /\ \E op \in ops : Like(o2, op)
         /\ \A o2 \in ops' : \A o3 \in ops' : o2 # o3 =>
              \E op \in ops : \E o1 \in ops : op # o1 /\ Like(o2, op) /\ Like(o3, o1)
<1>1. CASE ops' = ops
  BY <1>1 DEF OpsTypes, Like
<1>2. CASE \E ps : ops' = Editing!Strip(ps)
  <2>1. PICK ps : ops' = Editing!Strip(ps)
    BY <1>2
  <2>2. ASSUME NEW o2 \in ops' PROVE o2 \in OpType /\ \E op \in ops : Like(o2, op)
    BY <2>1, StripFacts
  <2>3. ASSUME NEW o2 \in ops', NEW o3 \in ops', o2 # o3
        PROVE  \E op \in ops : \E o1 \in ops : op # o1 /\ Like(o2, op) /\ Like(o3, o1)
    BY <2>1, <2>3, StripIsFunction
  <2>4. QED
    BY <2>2, <2>3
<1>3. QED
  BY <1>1, <1>2 DEF OpsAlike

LEMMA AlikeTypes ==
  ASSUME OpsTypes, OpsAlike
  PROVE  OpsTypes'
<1>1. ASSUME NEW o2 \in ops'
      PROVE  /\ o2 \in OpType
             /\ o2.kind = "remove" => o2.view \in Editing!View
             /\ o2.kind \in {"choose", "unveil"} =>
                  (o2.to \in Area /\ o2.view = Editing!None /\ o2.other = Editing!None /\ o2.otherTo = Editing!None)
  <2>1. PICK op \in ops : o2 \in OpType /\ Like(o2, op)
    BY AlikeFacts
  <2>2. QED
    BY <2>1 DEF OpsTypes, Like
<1>2. QED
  BY <1>1, Zenon DEF OpsTypes, OpType, Spot

LEMMA ModesKeepCourse ==
  ASSUME OpsTypes, \A op \in ops : Fits(op), Apart, OpsAlike,
         UNCHANGED <<refs, area>>,
         ops # {} => edited' = edited
  PROVE  (\A op \in ops : Fits(op))' /\ Apart'
<1>1. ASSUME NEW o2 \in ops' PROVE Fits(o2)'
  <2>1. PICK op \in ops : Like(o2, op)
    BY AlikeFacts
  <2>2. edited' = edited
    BY <2>1
  <2>3. Views(o2) = Views(op) /\ Fits(op)
    BY <2>1, LikeFacts
  <2>4. QED
    BY <2>1, <2>2, <2>3 DEF Fits, Free, Like
<1>2. ASSUME NEW o2 \in ops', NEW o3 \in ops', o2 # o3
      PROVE  Views(o2) \intersect Views(o3) = {} /\ Claims(o2)' \intersect Claims(o3)' = {}
  <2>1. PICK op \in ops : \E o1 \in ops : op # o1 /\ Like(o2, op) /\ Like(o3, o1)
    BY <1>2, AlikeFacts
  <2>2. PICK o1 \in ops : op # o1 /\ Like(o2, op) /\ Like(o3, o1)
    BY <2>1
  <2>3. Views(o2) = Views(op) /\ Claims(o2) = Claims(op)
    BY <2>2, LikeFacts
  <2>4. Views(o3) = Views(o1) /\ Claims(o3) = Claims(o1)
    BY <2>2, LikeFacts
  <2>5. Claims(o2)' = Claims(o2) /\ Claims(o3)' = Claims(o3)
    BY DEF Claims
  <2>6. QED
    BY <2>2, <2>3, <2>4, <2>5 DEF Apart
<1>3. QED
  BY <1>1, <1>2 DEF Apart, Views

LEMMA SelectionStays ==
  ASSUME OpsTypes, SelectionFits, OpsAlike, UNCHANGED <<refs, area, edited, selected>>
  PROVE  SelectionFits'
<1>1. ASSUME selected # Editing!Nothing, NEW o2 \in ops'
      PROVE  selected.view \notin Views(o2) /\ area[selected.view] \notin Claims(o2)'
  <2>1. PICK op \in ops : Like(o2, op)
    BY AlikeFacts
  <2>2. Views(o2) = Views(op) /\ Claims(o2) = Claims(op) /\ Claims(o2)' = Claims(o2)
    BY <2>1, LikeFacts DEF Claims
  <2>3. QED
    BY <1>1, <2>2 DEF SelectionFits
<1>2. QED
  BY <1>1 DEF SelectionFits, Views

LEMMA KeptStays ==
  ASSUME Kept, UNCHANGED Editing!places, UNCHANGED Editing!store
  PROVE  Kept'
  BY DEF Kept, Editing!places, Editing!store

LEMMA AloneStays ==
  ASSUME Alone, UNCHANGED Editing!places
  PROVE  Alone'
  BY DEF Alone, Editing!places

LEMMA PlaceTypesStay ==
  ASSUME PlaceTypes, UNCHANGED Editing!places, UNCHANGED Editing!store
  PROVE  PlaceTypes'
  BY DEF PlaceTypes, Editing!places, Editing!store

LEMMA ModeStep ==
  ASSUME EditInv, UNCHANGED Editing!places, UNCHANGED Editing!store, OpsAlike, CourseTypes', SelectedTypes',
         strayed' = FALSE => strayed = FALSE /\ Locks' /\ SelectionFits',
         (strayed' = FALSE /\ ops # {}) => edited' = edited
  PROVE  EditInv'
<1>1. PlaceTypes' /\ OpsTypes'
  BY PlaceTypesStay, AlikeTypes DEF EditInv, EditTypes
<1>2. ASSUME strayed' = FALSE
      PROVE  Kept' /\ Alone' /\ Course'
  <2>1. strayed = FALSE /\ Kept /\ Alone /\ Course
    BY <1>2 DEF EditInv
  <2>2. Kept' /\ Alone'
    BY <2>1, KeptStays, AloneStays
  <2>3. UNCHANGED <<refs, area>>
    BY DEF Editing!places
  <2>4. (\A op \in ops : Fits(op))' /\ Apart'
    BY <2>1, <2>3, <1>2, ModesKeepCourse DEF EditInv, EditTypes, Course
  <2>5. QED
    BY <1>2, <2>2, <2>4 DEF Course
<1>3. QED
  BY <1>1, <1>2 DEF EditInv, EditTypes

LEMMA ActCounts ==
  ASSUME CourseTypes, Editing!Act
  PROVE  edits' \in Nat /\ edits' = edits + 1 /\ edits' <= MaxEdits
  BY EditConstants DEF CourseTypes, Editing!Act

LEMMA StripNone ==
  ASSUME NEW ps
  PROVE  Editing!Strip(ps) # {} => ops # {}
  BY DEF Editing!Strip

LEMMA OnKeepsEdits ==
  ASSUME EditInv, Editing!EditmodeOn
  PROVE  EditInv'
<1>1. /\ Editing!Act /\ handlers' \subseteq handlers \union {"editmode"}
      /\ leaving' \in {leaving, 0} /\ zones' = [zones EXCEPT ![routed] = TRUE]
      /\ frame' = [mode |-> "on", page |-> routed] /\ ops' = Editing!Strip({routed})
      /\ edited' = routed /\ selected' = Editing!Nothing /\ shown' = shown /\ routed' = routed
      /\ strayed' = (strayed \/ ops # {})
      /\ UNCHANGED Editing!places /\ UNCHANGED Editing!store
  BY DEF Editing!EditmodeOn, Editing!ZonesAround, Editing!walk
<1>2. CourseTypes /\ SelectedTypes
  BY DEF EditInv, EditTypes
<1>3. CourseTypes'
  <2>1. leaving' \in Nat /\ leaving' <= edits' /\ edits' <= MaxEdits /\ edits' \in Nat
    BY <1>1, <1>2, ActCounts DEF CourseTypes
  <2>2. zones' \in [EditedPage -> BOOLEAN] /\ strayed' \in BOOLEAN
    BY <1>1, <1>2 DEF CourseTypes
  <2>3. QED
    BY <2>1, <2>2, <1>1, <1>2 DEF CourseTypes
<1>4. SelectedTypes'
  BY <1>1 DEF SelectedTypes
<1>5. ASSUME strayed' = FALSE
      PROVE  strayed = FALSE /\ ops = {} /\ Locks' /\ SelectionFits'
  <2>1. strayed = FALSE /\ ops = {}
    BY <1>1, <1>2, <1>5 DEF CourseTypes
  <2>2. ops' = {}
    BY <1>1, <2>1, StripNone
  <2>3. QED
    BY <1>1, <2>1, <2>2 DEF Locks, SelectionFits
<1>6. OpsAlike
  BY <1>1 DEF OpsAlike
<1>7. QED
  BY <1>1, <1>3, <1>4, <1>5, <1>6, ModeStep

(* Leaving the edit mode.                                                  *)
LEMMA LeavingKeepsEdits ==
  ASSUME EditInv, Editing!Act, UNCHANGED Editing!places, UNCHANGED Editing!store, Editing!ZonesAround(FALSE),
         UNCHANGED <<Editing!walk, edited, strayed>>, "editmode" \notin handlers',
         handlers' \subseteq {"editmode", "configurate"}, leaving' = leaving + 1,
         selected' = Editing!Nothing
  PROVE  EditInv'
<1>1. /\ zones' = [zones EXCEPT ![routed] = FALSE] /\ ops' = Editing!Strip({routed})
      /\ shown' = shown /\ routed' = routed
  BY DEF Editing!ZonesAround, Editing!walk
<1>2. CourseTypes
  BY DEF EditInv, EditTypes
<1>3. CourseTypes'
  <2>1. leaving' \in Nat /\ leaving' <= edits' /\ edits' <= MaxEdits /\ edits' \in Nat
    BY <1>2, ActCounts DEF CourseTypes
  <2>2. zones' \in [EditedPage -> BOOLEAN]
    BY <1>1, <1>2 DEF CourseTypes
  <2>3. ops' # {} => ops # {}
    BY <1>1, StripNone
  <2>4. QED
    BY <2>1, <2>2, <2>3, <1>1, <1>2 DEF CourseTypes
<1>4. SelectedTypes' /\ Locks' /\ SelectionFits'
  BY DEF SelectedTypes, Locks, SelectionFits
<1>5. OpsAlike
  BY <1>1 DEF OpsAlike
<1>6. QED
  BY <1>2, <1>3, <1>4, <1>5, ModeStep

(* A step that leaves the edits, and what is selected, as they are.        *)
LEMMA AsideKeepsEdits ==
  ASSUME EditInv, UNCHANGED Editing!places, UNCHANGED Editing!store, CourseTypes',
         UNCHANGED <<edited, strayed, selected, ops, frame>>,
         "editmode" \in handlers' <=> "editmode" \in handlers
  PROVE  EditInv'
<1>1. OpsTypes /\ SelectedTypes
  BY DEF EditInv, EditTypes
<1>2. OpsAlike /\ SelectedTypes'
  BY <1>1 DEF OpsAlike, SelectedTypes
<1>3. ASSUME strayed' = FALSE
      PROVE  Locks' /\ SelectionFits'
  <2>1. Locks /\ SelectionFits /\ UNCHANGED <<refs, area>>
    BY <1>3 DEF EditInv, Course, Editing!places
  <2>2. SelectionFits'
    BY <1>1, <1>2, <2>1, SelectionStays
  <2>3. Locks'
    BY <2>1 DEF Locks, Claims, Views
  <2>4. QED
    BY <2>2, <2>3
<1>4. QED
  BY <1>2, <1>3, ModeStep

LEMMA OffKeepsEdits ==
  ASSUME EditInv, Editing!EditmodeOff
  PROVE  EditInv'
<1>1. handlers' = handlers \ {"editmode"} /\ handlers \subseteq {"editmode", "configurate"}
  BY DEF Editing!EditmodeOff, EditInv, EditTypes, CourseTypes
<1>2. QED
  BY <1>1, LeavingKeepsEdits DEF Editing!EditmodeOff, Editing!history

LEMMA ConfigurateOnKeepsEdits ==
  ASSUME EditInv, Editing!ConfigurateOn
  PROVE  EditInv'
<1>1. Editing!Act /\ UNCHANGED <<Editing!walk, edited, strayed>> /\ UNCHANGED Editing!places
        /\ UNCHANGED Editing!store
  BY DEF Editing!ConfigurateOn, Editing!history
<1>2. CASE "editmode" \in reasons
  <2>1. handlers' = {"configurate"} /\ leaving' = leaving + 1 /\ Editing!ZonesAround(FALSE)
          /\ selected' = Editing!Nothing
    BY <1>2 DEF Editing!ConfigurateOn
  <2>2. QED
    BY <1>1, <2>1, LeavingKeepsEdits
<1>3. CASE "editmode" \notin reasons
  <2>1. handlers' = handlers \union {"configurate"}
          /\ UNCHANGED <<leaving, zones, frame, ops, selected>>
    BY <1>3 DEF Editing!ConfigurateOn
  <2>2. CourseTypes
    BY DEF EditInv, EditTypes
  <2>3. edits' \in Nat /\ edits' = edits + 1 /\ edits' <= MaxEdits
    BY <1>1, <2>2, ActCounts
  <2>4. CourseTypes'
    BY <1>1, <2>1, <2>2, <2>3 DEF CourseTypes, Editing!walk
  <2>5. QED
    BY <1>1, <2>1, <2>4, AsideKeepsEdits
<1>4. QED
  BY <1>2, <1>3

LEMMA ConfigurateOffKeepsEdits ==
  ASSUME EditInv, Editing!ConfigurateOff
  PROVE  EditInv'
<1>1. Editing!Act /\ UNCHANGED <<shown, routed, edited, strayed, leaving, zones, frame, ops, selected>>
        /\ UNCHANGED Editing!places /\ UNCHANGED Editing!store /\ handlers' = handlers \ {"configurate"}
  BY DEF Editing!ConfigurateOff, Editing!history, Editing!walk
<1>2. CourseTypes
  BY DEF EditInv, EditTypes
<1>3. edits' \in Nat /\ edits' = edits + 1 /\ edits' <= MaxEdits
  BY <1>1, <1>2, ActCounts
<1>4. CourseTypes'
  BY <1>1, <1>2, <1>3 DEF CourseTypes
<1>5. QED
  BY <1>1, <1>4, AsideKeepsEdits

LEMMA LeftKeepsEdits ==
  ASSUME EditInv, Editing!Left
  PROVE  EditInv'
<1>1. /\ leaving > 0 /\ leaving' = leaving - 1
      /\ UNCHANGED <<shown, routed, edited, strayed, zones, frame, ops, selected, handlers, edits>>
      /\ UNCHANGED Editing!places /\ UNCHANGED Editing!store
  BY DEF Editing!Left, Editing!walk
<1>2. CourseTypes
  BY DEF EditInv, EditTypes
<1>3. leaving' \in Nat /\ leaving' <= edits'
  BY <1>1, <1>2 DEF CourseTypes
<1>4. CourseTypes'
  BY <1>1, <1>2, <1>3 DEF CourseTypes
<1>5. QED
  BY <1>1, <1>4, AsideKeepsEdits

LEMMA WalkKeepsEdits ==
  ASSUME EditInv, Editing!Swipe \/ Editing!Go \/ Editing!Follow
  PROVE  EditInv'
<1>1. CourseTypes
  BY DEF EditInv, EditTypes
<1>2. /\ shown' \in EditedPage /\ routed' \in EditedPage
      /\ UNCHANGED <<edited, strayed, zones, frame, ops, selected, handlers, leaving>>
      /\ UNCHANGED Editing!places /\ UNCHANGED Editing!store
  BY <1>1 DEF Editing!Swipe, Editing!Go, Editing!Follow, Editing!modes, Editing!history, CourseTypes
<1>3. Editing!Act \/ edits' = edits
  BY DEF Editing!Swipe, Editing!Go, Editing!Follow
<1>4. edits' \in Nat /\ edits <= edits' /\ edits' <= MaxEdits
  BY <1>1, <1>3, ActCounts DEF CourseTypes
<1>5. CourseTypes'
  <2>1. leaving' \in Nat /\ leaving' <= edits'
    BY <1>1, <1>2, <1>4 DEF CourseTypes
  <2>2. QED
    BY <1>1, <1>2, <1>4, <2>1 DEF CourseTypes
<1>6. QED
  BY <1>2, <1>5, AsideKeepsEdits

LEMMA FrameKeepsEdits ==
  ASSUME EditInv, Editing!Frame
  PROVE  EditInv'
<1>1. /\ frame # Editing!NoFrame /\ frame' = Editing!NoFrame
      /\ zones' = [p \in EditedPage |-> IF p = frame.page THEN zones[p] ELSE frame.mode = "on"]
      /\ ops' = Editing!Strip(EditedPage \ {frame.page})
      /\ UNCHANGED <<shown, routed, edited, strayed, selected, handlers, edits, leaving>>
      /\ UNCHANGED Editing!places /\ UNCHANGED Editing!store
  BY DEF Editing!Frame, Editing!history, Editing!walk
<1>2. CourseTypes /\ SelectedTypes /\ OpsTypes
  BY DEF EditInv, EditTypes
<1>3. CourseTypes'
  <2>1. zones' \in [EditedPage -> BOOLEAN]
    BY <1>1, <1>2 DEF CourseTypes
  <2>2. ops' # {} => ops # {}
    BY <1>1, StripNone
  <2>3. QED
    BY <1>1, <1>2, <2>1, <2>2 DEF CourseTypes
<1>4. OpsAlike /\ SelectedTypes'
  BY <1>1, <1>2 DEF OpsAlike, SelectedTypes
<1>5. ASSUME strayed' = FALSE
      PROVE  Locks' /\ SelectionFits'
  <2>1. strayed = FALSE /\ Locks /\ SelectionFits /\ UNCHANGED <<refs, area>>
    BY <1>1, <1>5 DEF EditInv, Course, Editing!places
  <2>2. SelectionFits'
    BY <1>1, <1>2, <1>4, <2>1, SelectionStays
  <2>3. ASSUME "editmode" \in handlers, NEW o2 \in ops', NEW a \in Claims(o2)'
        PROVE  <<edited, a>> \in o2.zones
    <3>1. frame.page = edited
      BY <1>1, <2>1, <2>3 DEF Locks
    <3>2. PICK op \in ops : Like(o2, op) /\ o2.zones = {z \in op.zones : z[1] \notin EditedPage \ {frame.page}}
      BY <1>1, <1>2, StripFacts
    <3>3. Claims(o2)' = Claims(o2) /\ Claims(o2) = Claims(op)
      BY <2>1, <3>2, LikeFacts DEF Claims
    <3>4. <<edited, a>> \in op.zones
      BY <2>1, <2>3, <3>3 DEF Locks
    <3>5. QED
      BY <3>1, <3>2, <3>4
  <2>4. Locks'
    BY <1>1, <2>3 DEF Locks
  <2>5. QED
    BY <2>2, <2>4
<1>6. QED
  BY <1>1, <1>3, <1>4, <1>5, ModeStep

-----------------------------------------------------------------------------
(* Gestures. What is touched no edit claims.                               *)
LEMMA TouchedIsClear ==
  ASSUME OpsTypes, Course, NEW z \in Editing!Zone, Editing!Touchable(z), z[1] = edited
  PROVE  /\ z = <<edited, z[2]>> /\ z[2] \in Area /\ z # Editing!NoZone
         /\ \A op \in ops : z[2] \notin Claims(op)
         /\ \A op \in ops : \A v \in Editing!At(z) : v \notin Views(op)
<1>1. z = <<z[1], z[2]>> /\ z[1] \in EditedPage /\ z[2] \in Area
  BY DEF Editing!Zone
<1>2. z # Editing!NoZone
  BY <1>1, EditConstants, EditNone
<1>3. ASSUME NEW op \in ops PROVE z[2] \notin Claims(op)
  BY <1>1 DEF Editing!Touchable, Editing!Locked, Course, Locks
<1>4. ASSUME NEW op \in ops, NEW v \in Editing!At(z) PROVE v \notin Views(op)
  <2>1. area[v] = z[2]
    BY DEF Editing!At
  <2>2. QED
    BY <1>1, <1>3, <2>1 DEF Claims
<1>5. QED
  BY <1>1, <1>2, <1>3, <1>4

LEMMA EditFacts ==
  ASSUME NEW k \in {"move", "swap", "remove", "choose"}, NEW v \in Editing!View \union {Editing!None},
         NEW a \in Spot, NEW w \in Editing!View \union {Editing!None}, NEW b \in Spot,
         NEW zs \in SUBSET (Editing!Zone \union {Editing!NoZone})
  PROVE  LET x == Editing!Edit(k, v, a, w, b, zs)
         IN /\ x \in OpType /\ x.kind = k /\ x.view = v /\ x.to = a /\ x.other = w
            /\ x.otherTo = b /\ x.zones = zs \ {Editing!NoZone}
<1> DEFINE ys == zs \ {Editing!NoZone}
<1>1. ys \in SUBSET Editing!Zone
  OBVIOUS
<1>2. Editing!Edit(k, v, a, w, b, zs) = [kind |-> k, view |-> v, to |-> a, other |-> w, otherTo |-> b,
                                   zones |-> ys]
  BY DEF Editing!Edit
<1> HIDE DEF ys
<1>3. LET x == Editing!Edit(k, v, a, w, b, zs)
      IN /\ x \in OpType /\ x.kind = k /\ x.view = v /\ x.to = a /\ x.other = w
         /\ x.otherTo = b /\ x.zones = ys
  BY <1>1, <1>2 DEF OpType
<1>4. QED
  BY <1>3 DEF ys

LEMMA AddTypes ==
  ASSUME OpsTypes, NEW x \in OpType, ops' = ops \union {x},
         x.kind = "remove" => x.view \in Editing!View,
         x.kind = "choose" => (x.to \in Area /\ x.view = Editing!None /\ x.other = Editing!None
                                 /\ x.otherTo = Editing!None),
         x.kind # "unveil"
  PROVE  OpsTypes'
<1>1. OpType' = OpType
  BY DEF OpType, Spot
<1>2. ASSUME NEW op \in ops'
      PROVE  /\ op \in OpType
             /\ op.kind = "remove" => op.view \in Editing!View
             /\ op.kind \in {"choose", "unveil"} =>
                  (op.to \in Area /\ op.view = Editing!None /\ op.other = Editing!None /\ op.otherTo = Editing!None)
  <2>1. CASE op \in ops
    BY <2>1 DEF OpsTypes
  <2>2. CASE op = x
    BY <2>2
  <2>3. QED
    BY <2>1, <2>2
<1>3. QED
  BY <1>1, <1>2, Zenon DEF OpsTypes

(* An edit that fits, about other views and areas, is one more.            *)
LEMMA AddKeepsCourse ==
  ASSUME Course, NEW x, ops' = ops \union {x}, Fits(x),
         UNCHANGED <<refs, area, edited, handlers, frame>>,
         \A op \in ops : Views(x) \intersect Views(op) = {} /\ Claims(x) \intersect Claims(op) = {},
         \A a \in Claims(x) : <<edited, a>> \in x.zones
  PROVE  (\A op \in ops : Fits(op))' /\ Apart' /\ Locks'
<1>1. ASSUME NEW op PROVE (Fits(op)' <=> Fits(op)) /\ Claims(op)' = Claims(op)
  BY DEF Fits, Free, Claims
<1>2. (\A op \in ops : Fits(op))'
  BY <1>1 DEF Course
<1>3. ASSUME NEW o2 \in ops', NEW o3 \in ops', o2 # o3
      PROVE  Views(o2) \intersect Views(o3) = {} /\ Claims(o2)' \intersect Claims(o3)' = {}
  <2>1. CASE o2 \in ops /\ o3 \in ops
    BY <2>1, <1>1, <1>3 DEF Course, Apart
  <2>2. CASE o2 = x /\ o3 \in ops
    BY <2>2, <1>1
  <2>3. CASE o3 = x /\ o2 \in ops
    BY <2>3, <1>1
  <2>4. QED
    BY <1>3, <2>1, <2>2, <2>3
<1>4. Apart'
  BY <1>3 DEF Apart, Views
<1>5. Locks'
  <2>1. ASSUME "editmode" \in handlers, NEW op \in ops', NEW a \in Claims(op)'
        PROVE  <<edited, a>> \in op.zones
    <3>1. CASE op \in ops
      BY <3>1, <2>1, <1>1 DEF Course, Locks
    <3>2. CASE op = x
      BY <3>2, <2>1, <1>1
    <3>3. QED
      BY <3>1, <3>2
  <2>2. QED
    BY <2>1 DEF Course, Locks
<1>6. QED
  BY <1>2, <1>4, <1>5

LEMMA CourseStays ==
  ASSUME Course, UNCHANGED <<ops, selected, refs, area, edited, handlers, frame>>
  PROVE  Course'
<1>1. ASSUME NEW op PROVE (Fits(op)' <=> Fits(op)) /\ Claims(op)' = Claims(op)
  BY DEF Fits, Free, Claims
<1>2. QED
  BY <1>1 DEF Course, Apart, Locks, SelectionFits, Views

LEMMA GestureStep ==
  ASSUME EditInv, Editing!Act, UNCHANGED Editing!places, UNCHANGED Editing!store, UNCHANGED Editing!modes,
         UNCHANGED <<Editing!walk, edited>>, "editmode" \in handlers,
         OpsTypes', selected' \in {Editing!Nothing} \union [zone : Editing!Zone \union {Editing!NoZone}, view : Editing!View],
         strayed' \in BOOLEAN, strayed' = FALSE => (strayed = FALSE /\ Course')
  PROVE  EditInv'
<1>1. PlaceTypes' /\ SelectedTypes'
  BY PlaceTypesStay DEF EditInv, EditTypes, SelectedTypes, Editing!modes
<1>2. CourseTypes'
  <2>1. CourseTypes
    BY DEF EditInv, EditTypes
  <2>2. edits' \in Nat /\ edits' = edits + 1 /\ edits' <= MaxEdits
    BY <2>1, ActCounts
  <2>3. UNCHANGED <<handlers, zones, leaving, shown, routed>>
    BY DEF Editing!modes, Editing!walk
  <2>4. leaving' \in Nat /\ leaving' <= edits'
    BY <2>1, <2>2, <2>3 DEF CourseTypes
  <2>5. QED
    BY <2>1, <2>2, <2>3, <2>4, Zenon DEF CourseTypes
<1>3. ASSUME strayed' = FALSE
      PROVE  Kept' /\ Alone' /\ Course'
  BY <1>3, KeptStays, AloneStays DEF EditInv
<1>4. QED
  BY <1>1, <1>2, <1>3 DEF EditInv, EditTypes

SelectedType == {Editing!Nothing} \union [zone : Editing!Zone \union {Editing!NoZone}, view : Editing!View]

LEMMA SelectedFacts ==
  ASSUME SelectedTypes
  PROVE  /\ selected \in SelectedType
         /\ selected.zone \in Editing!Zone \union {Editing!NoZone}
         /\ selected # Editing!Nothing => selected.view \in Editing!View
  BY EditNone, SMT DEF SelectedTypes, SelectedType

(* Where a gesture was: on a zone of the page edited, or astray.           *)
LEMMA AstrayFacts ==
  ASSUME EditInv, NEW z, Editing!Astray(z)
  PROVE  /\ strayed' \in BOOLEAN
         /\ strayed' = FALSE => (strayed = FALSE /\ z[1] = edited)
  BY DEF Editing!Astray, EditInv, EditTypes, CourseTypes

(* What a tap on a zone selects.                                           *)
LEMMA SelectKeeps ==
  ASSUME EditTypes, NEW z \in Editing!Zone, NEW v \in Editing!At(z), Editing!Select(z, v),
         UNCHANGED <<refs, area, edited, handlers, frame>>, Editing!Touchable(z)
  PROVE  /\ OpsTypes' /\ selected' \in SelectedType
         /\ (Course /\ z[1] = edited) => Course'
<1>1. selected = Editing!Nothing /\ selected' = [zone |-> z, view |-> v] /\ ops' = ops
  BY DEF Editing!Select
<1>2. v \in Editing!View /\ refs[v] = edited /\ area[v] = z[2]
  BY DEF Editing!At
<1>3. OpsTypes' /\ selected' \in SelectedType
  BY <1>1, <1>2 DEF EditTypes, OpsTypes, SelectedType, OpType, Spot
<1>4. ASSUME Course, z[1] = edited
      PROVE  Course'
  <2>1. ASSUME NEW op PROVE (Fits(op)' <=> Fits(op)) /\ Claims(op)' = Claims(op)
    BY DEF Fits, Free, Claims
  <2>2. /\ z = <<edited, z[2]>> /\ z[2] \in Area
        /\ \A op \in ops : z[2] \notin Claims(op)
        /\ \A op \in ops : v \notin Views(op)
    BY <1>4, TouchedIsClear DEF EditTypes
  <2>3. selected'.view = v /\ selected'.zone = z
    BY <1>1
  <2>4. SelectionFits'
    <3>1. ASSUME NEW op \in ops'
          PROVE  selected'.view \notin Views(op) /\ area'[selected'.view] \notin Claims(op)'
      BY <1>1, <1>2, <2>1, <2>2, <2>3, <3>1
    <3>2. /\ refs'[v] = edited' /\ area'[v] = z[2]
          /\ z = <<edited', area'[v]>> /\ area'[v] \in Area
      BY <1>2, <2>2
    <3>3. selected' # Editing!Nothing => selected'.zone # Editing!NoZone
      BY <2>2, <2>3, EditConstants, EditNone, <1>4, TouchedIsClear DEF EditTypes
    <3>4. QED
      BY <2>3, <3>1, <3>2, <3>3 DEF SelectionFits, Views
  <2>5. QED
    BY <1>1, <1>4, <2>1, <2>4 DEF Course, Apart, Locks, Views
<1>5. QED
  BY <1>3, <1>4

(* What was selected is where the gesture that uses it takes it from.      *)
LEMMA SelectedIsClear ==
  ASSUME EditTypes, Course, selected # Editing!Nothing
  PROVE  /\ selected.view \in Editing!View /\ refs[selected.view] = edited
         /\ area[selected.view] \in Spot
         /\ \A op \in ops : selected.view \notin Views(op) /\ area[selected.view] \notin Claims(op)
         /\ area[selected.view] \in Area =>
              (selected.zone = <<edited, area[selected.view]>> /\ selected.zone # Editing!NoZone)
<1>1. selected.view \in Editing!View
  BY SelectedFacts DEF EditTypes
<1>2. area[selected.view] \in Spot
  BY <1>1 DEF EditTypes, PlaceTypes
<1>3. QED
  BY <1>1, <1>2 DEF Course, SelectionFits

LEMMA ExchangeKeeps ==
  ASSUME EditTypes, NEW z \in Editing!Zone, NEW v \in Editing!At(z), Editing!Exchange(z, v),
         UNCHANGED <<refs, area, edited, handlers, frame>>, Editing!Touchable(z)
  PROVE  /\ OpsTypes' /\ selected' \in SelectedType
         /\ (Course /\ z[1] = edited) => Course'
<1>1. v \in Editing!View /\ refs[v] = edited /\ area[v] = z[2] /\ area[v] \in Spot
  BY DEF Editing!At, EditTypes, PlaceTypes
<1>2. CASE UNCHANGED <<selected, ops>>
  BY <1>2, CourseStays, SelectedFacts DEF EditTypes, OpsTypes, SelectedType, OpType, Spot
<1>3. CASE selected' = Editing!Nothing /\ ops' = ops
  <2>1. Course => Course'
    <3>1. ASSUME NEW op PROVE (Fits(op)' <=> Fits(op)) /\ Claims(op)' = Claims(op)
      BY DEF Fits, Free, Claims
    <3>2. QED
      BY <1>3, <3>1 DEF Course, Apart, Locks, SelectionFits, Views
  <2>2. QED
    BY <1>3, <2>1 DEF EditTypes, OpsTypes, SelectedType, OpType, Spot
<1>4. CASE /\ selected # Editing!Nothing /\ selected' = Editing!Nothing /\ selected.view # v
           /\ ops' = ops \union {Editing!Edit("swap", v, area[selected.view], selected.view, area[v],
                                        {z, selected.zone})}
  <2> DEFINE sv == selected.view
             x == Editing!Edit("swap", v, area[sv], sv, area[v], {z, selected.zone})
  <2>1. sv \in Editing!View /\ area[sv] \in Spot /\ selected.zone \in Editing!Zone \union {Editing!NoZone}
    BY <1>4, SelectedFacts DEF EditTypes, PlaceTypes
  <2> HIDE DEF sv
  <2>2. /\ x \in OpType /\ x.kind = "swap" /\ x.view = v /\ x.to = area[sv] /\ x.other = sv
        /\ x.otherTo = area[v] /\ x.zones = {z, selected.zone} \ {Editing!NoZone}
    BY <1>1, <2>1, EditFacts
  <2>3. ops' = ops \union {x}
    BY <1>4 DEF sv
  <2> HIDE DEF x
  <2>4. OpsTypes' /\ selected' \in SelectedType
    BY <1>4, <2>2, <2>3, AddTypes DEF EditTypes, SelectedType
  <2>5. ASSUME Course, z[1] = edited
        PROVE  Course'
    <3>1. /\ z = <<edited, z[2]>> /\ z[2] \in Area /\ z # Editing!NoZone
          /\ \A op \in ops : z[2] \notin Claims(op)
          /\ \A op \in ops : v \notin Views(op)
      BY <2>5, TouchedIsClear DEF EditTypes
    <3>2. /\ refs[sv] = edited
          /\ \A op \in ops : sv \notin Views(op) /\ area[sv] \notin Claims(op)
          /\ area[sv] \in Area => (selected.zone = <<edited, area[sv]>> /\ selected.zone # Editing!NoZone)
      BY <1>4, <2>5, SelectedIsClear DEF sv
    <3>3. Views(x) = {v, sv} /\ Claims(x) = {area[v], area[sv]} \intersect Area
      <4>1. v # Editing!None /\ sv # Editing!None
        BY <1>1, <2>1, EditConstants
      <4>2. QED
        BY <4>1, <2>2 DEF Views, Claims
    <3>4. Fits(x)
      BY <1>1, <1>4, <2>1, <2>2, <3>2, <3>3 DEF Fits, sv
    <3>5. ASSUME NEW a \in Claims(x)
          PROVE  <<edited, a>> \in x.zones
      BY <1>1, <2>2, <3>1, <3>2, <3>3
    <3>6. ASSUME NEW op \in ops
          PROVE  Views(x) \intersect Views(op) = {} /\ Claims(x) \intersect Claims(op) = {}
      BY <1>1, <3>1, <3>2, <3>3
    <3>7. (\A op \in ops : Fits(op))' /\ Apart' /\ Locks'
      BY <2>3, <2>5, <3>4, <3>5, <3>6, AddKeepsCourse
    <3>8. QED
      BY <1>4, <3>7 DEF Course, SelectionFits
  <2>6. QED
    BY <2>4, <2>5
<1>5. QED
  BY <1>2, <1>3, <1>4, Zenon DEF Editing!Exchange

LEMMA MoveKeeps ==
  ASSUME EditTypes, NEW z \in Editing!Zone, Editing!At(z) = {}, Editing!Move(z),
         UNCHANGED <<refs, area, edited, handlers, frame>>, Editing!Touchable(z)
  PROVE  /\ OpsTypes' /\ selected' \in SelectedType
         /\ (Course /\ z[1] = edited) => Course'
<1>1. CASE UNCHANGED <<selected, ops>>
  BY <1>1, CourseStays, SelectedFacts DEF EditTypes, OpsTypes, SelectedType, OpType, Spot
<1>2. CASE /\ selected # Editing!Nothing /\ selected' = Editing!Nothing
           /\ ops' = ops \union {Editing!Edit("move", selected.view, z[2], Editing!None, Editing!None,
                                        {z, selected.zone})}
  <2> DEFINE sv == selected.view
             x == Editing!Edit("move", sv, z[2], Editing!None, Editing!None, {z, selected.zone})
  <2>1. /\ sv \in Editing!View /\ selected.zone \in Editing!Zone \union {Editing!NoZone}
        /\ z[2] \in Spot /\ z[2] \in Area /\ Editing!None \in Spot
    BY <1>2, SelectedFacts DEF EditTypes, Editing!Zone, Spot
  <2>2. ops' = ops \union {x}
    BY <1>2
  <2> HIDE DEF sv
  <2>3. /\ x \in OpType /\ x.kind = "move" /\ x.view = sv /\ x.to = z[2] /\ x.other = Editing!None
        /\ x.otherTo = Editing!None /\ x.zones = {z, selected.zone} \ {Editing!NoZone}
    <3>1. /\ {z, selected.zone} \in SUBSET (Editing!Zone \union {Editing!NoZone})
          /\ sv \in Editing!View \union {Editing!None} /\ Editing!None \in Editing!View \union {Editing!None}
      BY <2>1
    <3>2. \A a \in Spot :
            LET y == Editing!Edit("move", sv, a, Editing!None, Editing!None, {z, selected.zone})
            IN /\ y \in OpType /\ y.kind = "move" /\ y.view = sv /\ y.to = a
               /\ y.other = Editing!None /\ y.otherTo = Editing!None
               /\ y.zones = {z, selected.zone} \ {Editing!NoZone}
      BY <2>1, <3>1, EditFacts
    <3>3. QED
      BY <2>1, <3>2, Zenon
  <2> HIDE DEF x
  <2>4. OpsTypes' /\ selected' \in SelectedType
    BY <1>2, <2>2, <2>3, AddTypes DEF EditTypes, SelectedType
  <2>5. ASSUME Course, z[1] = edited
        PROVE  Course'
    <3>1. /\ z = <<edited, z[2]>> /\ z # Editing!NoZone
          /\ \A op \in ops : z[2] \notin Claims(op)
      BY <2>5, TouchedIsClear DEF EditTypes
    <3>2. /\ refs[sv] = edited
          /\ \A op \in ops : sv \notin Views(op) /\ area[sv] \notin Claims(op)
          /\ area[sv] \in Area => (selected.zone = <<edited, area[sv]>> /\ selected.zone # Editing!NoZone)
      BY <1>2, <2>5, SelectedIsClear DEF sv
    <3>3. Views(x) = {sv} /\ Claims(x) = {z[2], area[sv]} \intersect Area
      BY <2>1, <2>3, EditConstants DEF Views, Claims
    <3>4. Fits(x)
      <4>1. Free(z[2])
        BY DEF Free, Editing!At
      <4>2. QED
        BY <4>1, <2>1, <2>3, <3>2, <3>3 DEF Fits
    <3>5. ASSUME NEW a \in Claims(x)
          PROVE  <<edited, a>> \in x.zones
      BY <2>3, <3>1, <3>2, <3>3
    <3>6. ASSUME NEW op \in ops
          PROVE  Views(x) \intersect Views(op) = {} /\ Claims(x) \intersect Claims(op) = {}
      BY <3>1, <3>2, <3>3
    <3>7. (\A op \in ops : Fits(op))' /\ Apart' /\ Locks'
      BY <2>2, <2>5, <3>4, <3>5, <3>6, AddKeepsCourse
    <3>8. QED
      BY <1>2, <3>7 DEF Course, SelectionFits
  <2>6. QED
    BY <2>4, <2>5
<1>3. QED
  BY <1>1, <1>2, Zenon DEF Editing!Move

LEMMA TapKeepsEdits ==
  ASSUME EditInv, Editing!Tap
  PROVE  EditInv'
<1>1. PICK z \in Editing!Zone :
        /\ Editing!Act /\ Editing!Touchable(z) /\ Editing!Astray(z)
        /\ \/ \E v \in Editing!At(z) : Editing!Select(z, v) \/ Editing!Exchange(z, v)
           \/ Editing!At(z) = {} /\ Editing!Move(z)
        /\ UNCHANGED <<Editing!places, Editing!store, Editing!modes, Editing!walk, edited, hasty>>
  BY DEF Editing!Tap
<1>2. UNCHANGED <<refs, area, edited, handlers, frame>> /\ EditTypes
  BY <1>1 DEF Editing!places, Editing!modes, EditInv
<1>3. /\ OpsTypes' /\ selected' \in SelectedType
      /\ (Course /\ z[1] = edited) => Course'
  BY <1>1, <1>2, SelectKeeps, ExchangeKeeps, MoveKeeps
<1>4. strayed' \in BOOLEAN /\ (strayed' = FALSE => (strayed = FALSE /\ z[1] = edited))
  BY <1>1, AstrayFacts
<1>5. strayed' = FALSE => (strayed = FALSE /\ Course')
  BY <1>3, <1>4 DEF EditInv
<1>6. "editmode" \in handlers
  BY <1>1 DEF Editing!Touchable
<1>7. QED
  BY <1>1, <1>3, <1>4, <1>5, <1>6, GestureStep DEF SelectedType

LEMMA TapOrphanKeepsEdits ==
  ASSUME EditInv, Editing!TapOrphan
  PROVE  EditInv'
<1>1. PICK v \in Editing!View :
        /\ Editing!Act /\ Editing!Orphan(v) /\ selected' = [zone |-> Editing!NoZone, view |-> v]
        /\ strayed' = (strayed \/ Editing!Loose(v))
        /\ UNCHANGED <<Editing!places, Editing!store, Editing!modes, Editing!walk, edited, ops, hasty>>
  BY DEF Editing!TapOrphan
<1>2. UNCHANGED <<refs, area, edited, handlers, frame>> /\ EditTypes
  BY <1>1 DEF Editing!places, Editing!modes, EditInv
<1>3. OpsTypes' /\ selected' \in SelectedType /\ "editmode" \in handlers
  BY <1>1, <1>2 DEF EditTypes, OpsTypes, SelectedType, OpType, Spot, Editing!Orphan
<1>4. Editing!Loose(v) \in BOOLEAN /\ strayed' \in BOOLEAN
        /\ (strayed' = FALSE => strayed = FALSE /\ ~Editing!Loose(v))
  BY <1>1, <1>2 DEF Editing!Loose, EditTypes, CourseTypes
<1>5. ASSUME strayed' = FALSE
      PROVE  Course'
  <2>1. Course /\ shown = edited /\ \A op \in ops : v \notin Views(op)
    BY <1>4, <1>5 DEF EditInv, Editing!Loose, Views
  <2>2. refs[v] = edited /\ area[v] \notin Area
    BY <1>1, <2>1 DEF Editing!Orphan
  <2>3. ASSUME NEW op PROVE (Fits(op)' <=> Fits(op)) /\ Claims(op)' = Claims(op)
    BY <1>2 DEF Fits, Free, Claims
  <2>4. selected'.view = v /\ selected'.zone = Editing!NoZone
    BY <1>1
  <2>5. SelectionFits'
    BY <1>1, <1>2, <2>1, <2>2, <2>3, <2>4 DEF SelectionFits, Views, Claims
  <2>6. QED
    BY <1>1, <1>2, <2>1, <2>3, <2>5 DEF Course, Apart, Locks, Views
<1>6. QED
  BY <1>1, <1>3, <1>4, <1>5, GestureStep DEF SelectedType

LEMMA RemoveFacts ==
  ASSUME NEW v \in Editing!View, NEW w \in Editing!View \union {Editing!None}, NEW b \in Spot,
         Editing!None \in Spot, NEW zs \in SUBSET (Editing!Zone \union {Editing!NoZone})
  PROVE  LET x == Editing!Edit("remove", v, Editing!None, w, b, zs)
         IN /\ x \in OpType /\ x.kind = "remove" /\ x.view = v /\ x.to = Editing!None /\ x.other = w
            /\ x.otherTo = b /\ x.zones = zs \ {Editing!NoZone}
<1> DEFINE ys == zs \ {Editing!NoZone}
<1>1. ys \in SUBSET Editing!Zone
  OBVIOUS
<1>2. Editing!Edit("remove", v, Editing!None, w, b, zs) =
        [kind |-> "remove", view |-> v, to |-> Editing!None, other |-> w, otherTo |-> b, zones |-> ys]
  BY DEF Editing!Edit
<1> HIDE DEF ys
<1>3. LET x == Editing!Edit("remove", v, Editing!None, w, b, zs)
      IN /\ x \in OpType /\ x.kind = "remove" /\ x.view = v /\ x.to = Editing!None /\ x.other = w
         /\ x.otherTo = b /\ x.zones = ys
  BY <1>1, <1>2 DEF OpType
<1>4. QED
  BY <1>3 DEF ys

LEMMA RemoveKeeps ==
  ASSUME EditTypes, NEW z \in Editing!Zone, NEW v \in Editing!At(z), Editing!Remove(z, v),
         UNCHANGED <<refs, area, edited, handlers, frame>>, Editing!Touchable(z)
  PROVE  /\ OpsTypes' /\ selected' \in SelectedType
         /\ (Course /\ z[1] = edited) => Course'
<1>1. v \in Editing!View /\ refs[v] = edited /\ area[v] = z[2] /\ area[v] \in Spot /\ Editing!None \in Spot
  BY DEF Editing!At, EditTypes, PlaceTypes, Spot
<1>2. CASE UNCHANGED <<selected, ops>>
  BY <1>2, CourseStays, SelectedFacts DEF EditTypes, OpsTypes, SelectedType, OpType, Spot
<1>3. CASE /\ selected = Editing!Nothing /\ selected' = Editing!Nothing
           /\ ops' = ops \union {Editing!Edit("remove", v, Editing!None, Editing!None, Editing!None, {z})}
  <2> DEFINE x == Editing!Edit("remove", v, Editing!None, Editing!None, Editing!None, {z})
  <2>1. /\ x \in OpType /\ x.kind = "remove" /\ x.view = v /\ x.to = Editing!None
        /\ x.other = Editing!None /\ x.otherTo = Editing!None /\ x.zones = {z} \ {Editing!NoZone}
    <3>1. PICK zs \in SUBSET (Editing!Zone \union {Editing!NoZone}) : zs = {z}
      OBVIOUS
    <3>2. PICK w \in Editing!View \union {Editing!None} : w = Editing!None
      OBVIOUS
    <3>3. x = Editing!Edit("remove", v, Editing!None, w, Editing!None, zs)
      BY <3>1, <3>2
    <3> HIDE DEF x
    <3>4. QED
      BY <1>1, <3>1, <3>2, <3>3, RemoveFacts
  <2>2. ops' = ops \union {x}
    BY <1>3
  <2> HIDE DEF x
  <2>3. OpsTypes' /\ selected' \in SelectedType
    BY <1>1, <1>3, <2>1, <2>2, AddTypes DEF EditTypes, SelectedType
  <2>4. ASSUME Course, z[1] = edited
        PROVE  Course'
    <3>1. /\ z = <<edited, z[2]>> /\ z # Editing!NoZone
          /\ \A op \in ops : z[2] \notin Claims(op)
          /\ \A op \in ops : v \notin Views(op)
      BY <2>4, TouchedIsClear DEF EditTypes
    <3>2. Views(x) = {v} /\ Claims(x) = {area[v]} \intersect Area
      BY <1>1, <2>1, EditConstants DEF Views, Claims
    <3>3. Fits(x)
      BY <1>1, <2>1, <3>2 DEF Fits
    <3>4. ASSUME NEW a \in Claims(x)
          PROVE  <<edited, a>> \in x.zones
      BY <1>1, <2>1, <3>1, <3>2
    <3>5. ASSUME NEW op \in ops
          PROVE  Views(x) \intersect Views(op) = {} /\ Claims(x) \intersect Claims(op) = {}
      BY <1>1, <3>1, <3>2
    <3>6. (\A op \in ops : Fits(op))' /\ Apart' /\ Locks'
      BY <2>2, <2>4, <3>3, <3>4, <3>5, AddKeepsCourse
    <3>7. QED
      BY <1>3, <3>6 DEF Course, SelectionFits
  <2>5. QED
    BY <2>3, <2>4
<1>4. CASE /\ selected # Editing!Nothing /\ selected' = Editing!Nothing
           /\ ops' = ops \union {Editing!Edit("remove", v, Editing!None, selected.view, area[v],
                                        {z, selected.zone})}
  <2> DEFINE sv == selected.view
             x == Editing!Edit("remove", v, Editing!None, sv, area[v], {z, selected.zone})
  <2>1. sv \in Editing!View /\ area[sv] \in Spot /\ selected.zone \in Editing!Zone \union {Editing!NoZone}
    BY <1>4, SelectedFacts DEF EditTypes, PlaceTypes
  <2>2. ops' = ops \union {x}
    BY <1>4
  <2> HIDE DEF sv
  <2>3. /\ x \in OpType /\ x.kind = "remove" /\ x.view = v /\ x.to = Editing!None
        /\ x.other = sv /\ x.otherTo = area[v] /\ x.zones = {z, selected.zone} \ {Editing!NoZone}
    <3>1. PICK zs \in SUBSET (Editing!Zone \union {Editing!NoZone}) : zs = {z, selected.zone}
      BY <2>1
    <3>2. PICK b \in Spot : b = area[v]
      BY <1>1
    <3>3. x = Editing!Edit("remove", v, Editing!None, sv, b, zs) /\ sv \in Editing!View \union {Editing!None}
      BY <2>1, <3>1, <3>2
    <3> HIDE DEF x
    <3>4. QED
      BY <1>1, <3>1, <3>2, <3>3, RemoveFacts
  <2> HIDE DEF x
  <2>4. OpsTypes' /\ selected' \in SelectedType
    BY <1>1, <1>4, <2>2, <2>3, AddTypes DEF EditTypes, SelectedType
  <2>5. ASSUME Course, z[1] = edited
        PROVE  Course'
    <3>1. /\ z = <<edited, z[2]>> /\ z # Editing!NoZone
          /\ \A op \in ops : z[2] \notin Claims(op)
          /\ \A op \in ops : v \notin Views(op)
      BY <2>5, TouchedIsClear DEF EditTypes
    <3>2. /\ refs[sv] = edited
          /\ \A op \in ops : sv \notin Views(op) /\ area[sv] \notin Claims(op)
          /\ area[sv] \in Area => (selected.zone = <<edited, area[sv]>> /\ selected.zone # Editing!NoZone)
      BY <1>4, <2>5, SelectedIsClear DEF sv
    <3>3. Views(x) = {v, sv} /\ Claims(x) = {area[v], area[sv]} \intersect Area
      <4>1. v # Editing!None /\ sv # Editing!None /\ Editing!None \notin Area
        BY <1>1, <2>1, EditConstants
      <4>2. QED
        BY <4>1, <2>3 DEF Views, Claims
    <3>4. Fits(x)
      BY <1>1, <2>1, <2>3, <3>2, <3>3 DEF Fits
    <3>5. ASSUME NEW a \in Claims(x)
          PROVE  <<edited, a>> \in x.zones
      BY <1>1, <2>3, <3>1, <3>2, <3>3
    <3>6. ASSUME NEW op \in ops
          PROVE  Views(x) \intersect Views(op) = {} /\ Claims(x) \intersect Claims(op) = {}
      BY <1>1, <3>1, <3>2, <3>3
    <3>7. (\A op \in ops : Fits(op))' /\ Apart' /\ Locks'
      BY <2>2, <2>5, <3>4, <3>5, <3>6, AddKeepsCourse
    <3>8. QED
      BY <1>4, <3>7 DEF Course, SelectionFits
  <2>6. QED
    BY <2>4, <2>5
<1>5. \/ UNCHANGED <<selected, ops>>
      \/ /\ selected = Editing!Nothing /\ selected' = Editing!Nothing
         /\ ops' = ops \union {Editing!Edit("remove", v, Editing!None, Editing!None, Editing!None, {z})}
      \/ /\ selected # Editing!Nothing /\ selected' = Editing!Nothing
         /\ ops' = ops \union {Editing!Edit("remove", v, Editing!None, selected.view, area[v],
                                      {z, selected.zone})}
  BY Zenon DEF Editing!Remove
<1>6. QED
  BY <1>2, <1>3, <1>4, <1>5, Zenon

LEMMA ChooseKeeps ==
  ASSUME EditTypes, NEW z \in Editing!Zone, Editing!At(z) = {}, Editing!Choose(z),
         UNCHANGED <<refs, area, edited, handlers, frame>>, Editing!Touchable(z)
  PROVE  /\ OpsTypes' /\ selected' \in SelectedType
         /\ (Course /\ z[1] = edited) => Course'
<1> DEFINE x == Editing!Edit("choose", Editing!None, z[2], Editing!None, Editing!None, {z})
<1>1. z[2] \in Spot /\ z[2] \in Area /\ Editing!None \in Spot
  BY DEF Editing!Zone, Spot
<1>2. ops' = ops \union {x} /\ selected' = selected
  BY DEF Editing!Choose
<1>3. /\ x \in OpType /\ x.kind = "choose" /\ x.view = Editing!None /\ x.to = z[2]
      /\ x.other = Editing!None /\ x.otherTo = Editing!None /\ x.zones = {z} \ {Editing!NoZone}
  <2>1. {z} \in SUBSET (Editing!Zone \union {Editing!NoZone}) /\ Editing!None \in Editing!View \union {Editing!None}
    OBVIOUS
  <2>2. \A a \in Spot :
          LET y == Editing!Edit("choose", Editing!None, a, Editing!None, Editing!None, {z})
          IN /\ y \in OpType /\ y.kind = "choose" /\ y.view = Editing!None /\ y.to = a
             /\ y.other = Editing!None /\ y.otherTo = Editing!None /\ y.zones = {z} \ {Editing!NoZone}
    BY <1>1, <2>1, EditFacts
  <2>3. QED
    BY <1>1, <2>2, Zenon
<1> HIDE DEF x
<1>4. OpsTypes' /\ selected' \in SelectedType
  <2>1. OpsTypes'
    BY <1>1, <1>2, <1>3, AddTypes DEF EditTypes
  <2>2. selected \in SelectedType
    BY SelectedFacts DEF EditTypes
  <2>3. QED
    BY <1>2, <2>1, <2>2
<1>5. ASSUME Course, z[1] = edited
      PROVE  Course'
  <2>1. /\ z = <<edited, z[2]>> /\ z # Editing!NoZone
        /\ \A op \in ops : z[2] \notin Claims(op)
    BY <1>5, TouchedIsClear DEF EditTypes
  <2>2. Views(x) = {} /\ Claims(x) = {z[2]}
    BY <1>1, <1>3, EditConstants DEF Views, Claims
  <2>3. Free(z[2])
    BY <1>5 DEF Free, Editing!At
  <2>4. Fits(x)
    BY <1>3, <2>2, <2>3 DEF Fits
  <2>5. ASSUME NEW a \in Claims(x)
        PROVE  <<edited, a>> \in x.zones
    BY <1>3, <2>1, <2>2
  <2>6. ASSUME NEW op \in ops
        PROVE  Views(x) \intersect Views(op) = {} /\ Claims(x) \intersect Claims(op) = {}
    BY <2>1, <2>2
  <2>7. (\A op \in ops : Fits(op))' /\ Apart' /\ Locks'
    BY <1>2, <1>5, <2>4, <2>5, <2>6, AddKeepsCourse
  <2>8. SelectionFits'
    <3>1. ASSUME selected # Editing!Nothing, NEW op \in ops'
          PROVE  selected.view \notin Views(op) /\ area[selected.view] \notin Claims(op)'
      <4>1. Claims(op)' = Claims(op)
        BY DEF Claims
      <4>2. CASE op \in ops
        BY <4>1, <4>2, <3>1, <1>5 DEF Course, SelectionFits
      <4>3. CASE op = x
        <5>1. selected.view \in Editing!View /\ refs[selected.view] = edited
          BY <3>1, <1>5, SelectedIsClear
        <5>2. area[selected.view] # z[2]
          BY <5>1, <2>3 DEF Free
        <5>3. QED
          BY <4>1, <4>3, <5>2, <2>2
      <4>4. QED
        BY <3>1, <4>2, <4>3, <1>2
    <3>2. QED
      BY <1>2, <1>5, <3>1 DEF Course, SelectionFits, Views
  <2>9. QED
    BY <2>7, <2>8 DEF Course
<1>6. QED
  BY <1>4, <1>5

LEMMA LongTapKeepsEdits ==
  ASSUME EditInv, Editing!LongTap
  PROVE  EditInv'
<1>1. PICK z \in Editing!Zone :
        /\ Editing!Act /\ Editing!Touchable(z) /\ Editing!Astray(z)
        /\ \/ \E v \in Editing!At(z) : Editing!Remove(z, v)
           \/ Editing!At(z) = {} /\ Editing!Choose(z)
        /\ UNCHANGED <<Editing!places, Editing!store, Editing!modes, Editing!walk, edited, hasty>>
  BY DEF Editing!LongTap
<1>2. UNCHANGED <<refs, area, edited, handlers, frame>> /\ EditTypes
  BY <1>1 DEF Editing!places, Editing!modes, EditInv
<1>3. /\ OpsTypes' /\ selected' \in SelectedType
      /\ (Course /\ z[1] = edited) => Course'
  BY <1>1, <1>2, RemoveKeeps, ChooseKeeps
<1>4. strayed' \in BOOLEAN /\ (strayed' = FALSE => (strayed = FALSE /\ z[1] = edited))
  BY <1>1, AstrayFacts
<1>5. strayed' = FALSE => (strayed = FALSE /\ Course')
  BY <1>3, <1>4 DEF EditInv
<1>6. "editmode" \in handlers
  BY <1>1 DEF Editing!Touchable
<1>7. QED
  BY <1>1, <1>3, <1>4, <1>5, <1>6, GestureStep DEF SelectedType

LEMMA LongTapOrphanKeepsEdits ==
  ASSUME EditInv, Editing!LongTapOrphan
  PROVE  EditInv'
<1>1. PICK v \in Editing!View :
        /\ Editing!Act /\ Editing!Orphan(v) /\ selected' = Editing!Nothing
        /\ ops' = ops \union {Editing!Edit("remove", v, Editing!None, Editing!None, Editing!None, {})}
        /\ strayed' = (strayed \/ Editing!Loose(v))
        /\ UNCHANGED <<Editing!places, Editing!store, Editing!modes, Editing!walk, edited, hasty>>
  BY DEF Editing!LongTapOrphan
<1>2. UNCHANGED <<refs, area, edited, handlers, frame>> /\ EditTypes
  BY <1>1 DEF Editing!places, Editing!modes, EditInv
<1> DEFINE x == Editing!Edit("remove", v, Editing!None, Editing!None, Editing!None, {})
<1>3. /\ x \in OpType /\ x.kind = "remove" /\ x.view = v /\ x.to = Editing!None
      /\ x.other = Editing!None /\ x.otherTo = Editing!None
  <2>1. {} \in SUBSET (Editing!Zone \union {Editing!NoZone}) /\ v \in Editing!View \union {Editing!None}
          /\ Editing!None \in Editing!View \union {Editing!None} /\ Editing!None \in Spot
    BY DEF Spot
  <2>2. QED
    BY <2>1, EditFacts
<1>4. ops' = ops \union {x}
  BY <1>1
<1> HIDE DEF x
<1>5. OpsTypes' /\ selected' \in SelectedType /\ "editmode" \in handlers
  <2>1. OpsTypes'
    BY <1>1, <1>2, <1>3, <1>4, AddTypes DEF EditTypes
  <2>2. QED
    BY <1>1, <2>1 DEF SelectedType, Editing!Orphan
<1>6. Editing!Loose(v) \in BOOLEAN /\ strayed' \in BOOLEAN
        /\ (strayed' = FALSE => strayed = FALSE /\ ~Editing!Loose(v))
  BY <1>1, <1>2 DEF Editing!Loose, EditTypes, CourseTypes
<1>7. ASSUME strayed' = FALSE
      PROVE  Course'
  <2>1. Course /\ shown = edited /\ \A op \in ops : v \notin Views(op)
    BY <1>6, <1>7 DEF EditInv, Editing!Loose, Views
  <2>2. refs[v] = edited /\ area[v] \notin Area
    BY <1>1, <2>1 DEF Editing!Orphan
  <2>3. Views(x) = {v} /\ Claims(x) = {}
    BY <1>1, <1>3, <2>2, EditConstants DEF Views, Claims
  <2>4. Fits(x)
    BY <1>1, <1>3, <2>2, <2>3 DEF Fits
  <2>5. \A op \in ops : Views(x) \intersect Views(op) = {} /\ Claims(x) \intersect Claims(op) = {}
    BY <2>1, <2>3
  <2>6. (\A op \in ops : Fits(op))' /\ Apart' /\ Locks'
    BY <1>2, <1>4, <2>1, <2>3, <2>4, <2>5, AddKeepsCourse
  <2>7. QED
    BY <1>1, <2>6 DEF Course, SelectionFits
<1>8. QED
  BY <1>1, <1>5, <1>6, <1>7, GestureStep DEF SelectedType

-----------------------------------------------------------------------------
(* What an edit does at last.                                              *)

LEMMA PlacedFacts ==
  ASSUME PlaceTypes, NEW v, NEW a \in Spot, NEW w, NEW b \in Spot
  PROVE  /\ Editing!Placed(v, a, w, b) \in [Editing!View -> Spot]
         /\ \A u \in Editing!View : Editing!Placed(v, a, w, b)[u] =
              IF u = v THEN a ELSE IF u = w THEN b ELSE area[u]
  BY DEF Editing!Placed, PlaceTypes

(* An edit that has been chosen for is one that shows what was chosen.     *)
Unveiling(op) == [op EXCEPT !.kind = "unveil"]

LEMMA UnveilingFacts ==
  ASSUME OpsTypes, NEW op \in ops, op.kind = "choose"
  PROVE  /\ Unveiling(op) \in OpType /\ Unveiling(op).kind = "unveil"
         /\ Unveiling(op).view = Editing!None /\ Unveiling(op).to = op.to /\ op.to \in Area
         /\ Unveiling(op).other = Editing!None /\ Unveiling(op).otherTo = Editing!None
         /\ Unveiling(op).zones = op.zones
         /\ op.view = Editing!None /\ op.other = Editing!None /\ op.otherTo = Editing!None
<1>1. op \in OpType /\ op.to \in Area /\ op.view = Editing!None /\ op.other = Editing!None
        /\ op.otherTo = Editing!None
  BY DEF OpsTypes
<1>2. QED
  BY <1>1 DEF Unveiling, OpType

LEMMA EffectTypes ==
  ASSUME EditTypes, NEW op \in ops, UNCHANGED Editing!modes,
         UNCHANGED <<Editing!walk, edited, selected, edits>>, strayed' \in BOOLEAN,
         \/ ops' = ops \ {op}
         \/ op.kind = "choose" /\ ops' = (ops \ {op}) \union {Unveiling(op)}
  PROVE  OpsTypes' /\ CourseTypes' /\ SelectedTypes'
<1>1. OpType' = OpType
  BY DEF OpType, Spot
<1>2. ASSUME NEW o2 \in ops'
      PROVE  /\ o2 \in OpType
             /\ o2.kind = "remove" => o2.view \in Editing!View
             /\ o2.kind \in {"choose", "unveil"} =>
                  (o2.to \in Area /\ o2.view = Editing!None /\ o2.other = Editing!None /\ o2.otherTo = Editing!None)
  <2>1. CASE o2 \in ops
    BY <2>1 DEF EditTypes, OpsTypes
  <2>2. CASE op.kind = "choose" /\ o2 = Unveiling(op)
    BY <2>2, UnveilingFacts DEF EditTypes
  <2>3. QED
    BY <2>1, <2>2
<1>3. OpsTypes'
  BY <1>1, <1>2, Zenon DEF OpsTypes
<1>4. CourseTypes' /\ SelectedTypes'
  BY DEF EditTypes, CourseTypes, SelectedTypes, Editing!modes, Editing!walk
<1>5. QED
  BY <1>3, <1>4

(***************************************************************************)
(* An effect is about the views of its edit, or a new one, and puts them   *)
(* where the edit claims: what is said of the other edits and of what is   *)
(* selected lasts.                                                         *)
(***************************************************************************)
Effect(op, U, S) ==
  /\ ops' = (ops \ {op}) \union S
  /\ \A x \in S : /\ Views(x) = {} /\ Claims(x) \subseteq Claims(op)
                  /\ x.kind = "unveil" /\ x.zones = op.zones
  /\ \A x, y \in S : x = y
  /\ U \subseteq Editing!View
  /\ \A u \in Editing!View \ U : refs'[u] = refs[u] /\ area'[u] = area[u]
  /\ \A u \in U : /\ refs'[u] \in {Editing!None, edited}
                  /\ area'[u] \in Area => area'[u] \in Claims(op)
  /\ \A o2 \in ops \ {op} : U \intersect Views(o2) = {}
  /\ selected # Editing!Nothing => selected.view \notin U
  /\ UNCHANGED <<edited, handlers, frame, selected>>

LEMMA EffectKeepsCourse ==
  ASSUME EditTypes, Course, NEW op \in ops, NEW U, NEW S, Effect(op, U, S)
  PROVE  Course'
<1>1. ASSUME NEW o2 \in ops \ {op}
      PROVE  /\ Views(o2) \subseteq Editing!View \ U /\ Claims(o2)' = Claims(o2)
             /\ \A v \in Views(o2) : refs'[v] = refs[v] /\ area'[v] = area[v]
             /\ Claims(o2) \intersect Claims(op) = {}
  <2>1. Fits(o2)
    BY DEF Course
  <2>2. Views(o2) \subseteq Editing!View \ U
    BY <2>1 DEF Effect, Fits
  <2>3. \A v \in Views(o2) : refs'[v] = refs[v] /\ area'[v] = area[v]
    BY <2>2 DEF Effect
  <2>4. {area'[v] : v \in Views(o2)} = {area[v] : v \in Views(o2)}
    BY <2>3
  <2>5. Claims(o2)' = Claims(o2)
    BY <2>4 DEF Claims, Views
  <2>6. Claims(o2) \intersect Claims(op) = {}
    BY DEF Course, Apart
  <2>7. QED
    BY <2>2, <2>3, <2>5, <2>6
<1>2. ASSUME NEW x \in S
      PROVE  Views(x) = {} /\ Claims(x)' = Claims(x) /\ Claims(x) \subseteq Claims(op)
               /\ x.zones = op.zones /\ x.kind = "unveil"
  BY DEF Effect, Claims, Views
<1>3. ASSUME NEW o2 \in ops', NEW a, a = o2.to, a \in Area, o2 \in ops \ {op}, Free(a)
      PROVE  Free(a)'
  <2>1. a \in Claims(o2) /\ a \notin Claims(op)
    BY <1>1, <1>3 DEF Claims
  <2>2. ASSUME NEW v \in Editing!View, refs'[v] = edited', area'[v] = a
        PROVE  FALSE
    <3>1. CASE v \in U
      BY <3>1, <2>1, <2>2, <1>3 DEF Effect
    <3>2. CASE v \notin U
      BY <3>2, <2>2, <1>3 DEF Effect, Free
    <3>3. QED
      BY <3>1, <3>2
  <2>3. QED
    BY <2>2 DEF Free
<1>4. ASSUME NEW o2 \in ops'
      PROVE  Fits(o2)'
  <2>1. CASE o2 \in ops \ {op}
    <3>1. Fits(o2) /\ o2 \in OpType
      BY <2>1 DEF Course, EditTypes, OpsTypes
    <3>2. \A v \in Views(o2) : v \in Editing!View /\ refs'[v] = edited'
      BY <1>1, <2>1, <3>1 DEF Fits, Effect
    <3>3. o2.kind = "move" => (o2.view \in Editing!View /\ o2.other = Editing!None /\ o2.to \in Area
                                 /\ Free(o2.to)')
      BY <1>3, <2>1, <3>1 DEF Fits
    <3>4. o2.kind = "swap" =>
            (o2.view \in Editing!View /\ o2.other \in Editing!View /\ o2.view # o2.other
               /\ o2.to = area'[o2.other] /\ o2.otherTo = area'[o2.view])
      <4>1. ASSUME o2.kind = "swap"
            PROVE  o2.view \in Views(o2) /\ o2.other \in Views(o2)
        BY <4>1, <3>1, EditConstants DEF Fits, Views
      <4>2. QED
        BY <4>1, <1>1, <2>1, <3>1 DEF Fits
    <3>5. o2.kind = "remove" =>
            (o2.to = Editing!None /\ (o2.other # Editing!None => o2.otherTo = area'[o2.view]))
      <4>1. ASSUME o2.kind = "remove"
            PROVE  o2.view \in Views(o2)
        BY <4>1, <2>1, EditConstants DEF EditTypes, OpsTypes, Views
      <4>2. QED
        BY <4>1, <1>1, <2>1, <3>1 DEF Fits
    <3>6. o2.kind = "choose" => Free(o2.to)'
      <4>1. o2.kind = "choose" => o2.to \in Area
        BY <2>1 DEF EditTypes, OpsTypes
      <4>2. QED
        BY <4>1, <1>3, <2>1, <3>1 DEF Fits, Effect
    <3>7. QED
      BY <3>2, <3>3, <3>4, <3>5, <3>6 DEF Fits, Views
  <2>2. CASE o2 \in S
    BY <1>2, <2>2 DEF Fits, Views
  <2>3. QED
    BY <2>1, <2>2 DEF Effect
<1>5. ASSUME NEW o2 \in ops', NEW o3 \in ops', o2 # o3
      PROVE  Views(o2) \intersect Views(o3) = {} /\ Claims(o2)' \intersect Claims(o3)' = {}
  <2>1. CASE o2 \in ops \ {op} /\ o3 \in ops \ {op}
    BY <2>1, <1>1, <1>5 DEF Course, Apart
  <2>2. CASE o2 \in ops \ {op} /\ o3 \in S
    BY <2>2, <1>1, <1>2
  <2>3. CASE o2 \in S /\ o3 \in ops \ {op}
    BY <2>3, <1>1, <1>2
  <2>4. CASE o2 \in S /\ o3 \in S
    BY <2>4, <1>5 DEF Effect
  <2>5. QED
    BY <2>1, <2>2, <2>3, <2>4 DEF Effect
<1>6. Locks'
  <2>1. ASSUME "editmode" \in handlers, NEW o2 \in ops', NEW a \in Claims(o2)'
        PROVE  <<edited, a>> \in o2.zones
    <3>1. CASE o2 \in ops \ {op}
      BY <3>1, <2>1, <1>1 DEF Course, Locks
    <3>2. CASE o2 \in S
      BY <3>2, <2>1, <1>2 DEF Course, Locks
    <3>3. QED
      BY <3>1, <3>2 DEF Effect
  <2>2. QED
    BY <2>1 DEF Effect, Course, Locks
<1>7. SelectionFits'
  <2> SUFFICES ASSUME selected # Editing!Nothing PROVE SelectionFits'
    BY DEF Effect, SelectionFits
  <2>1. selected.view \in Editing!View \ U
    BY SelectedFacts DEF EditTypes, Effect
  <2>2. refs'[selected.view] = refs[selected.view] /\ area'[selected.view] = area[selected.view]
    BY <2>1 DEF Effect
  <2>3. ASSUME NEW o2 \in ops'
        PROVE  selected.view \notin Views(o2) /\ area[selected.view] \notin Claims(o2)'
    <3>1. \A o1 \in ops : selected.view \notin Views(o1) /\ area[selected.view] \notin Claims(o1)
      BY DEF Course, SelectionFits
    <3>2. CASE o2 \in ops \ {op}
      BY <3>1, <3>2, <1>1
    <3>3. CASE o2 \in S
      BY <3>1, <3>3, <1>2
    <3>4. QED
      BY <3>2, <3>3 DEF Effect
  <2>4. QED
    BY <2>2, <2>3 DEF Course, SelectionFits, Effect, Views
<1>8. QED
  BY <1>4, <1>5, <1>6, <1>7 DEF Course, Apart, Views

(* The views of the effect stand alone where it puts them.                 *)
LEMMA EffectKeepsAlone ==
  ASSUME Alone, NEW op \in ops, NEW U, NEW S, Effect(op, U, S), edited \in EditedPage,
         NEW V, \A u \in V : u \in Editing!View /\ refs[u] = edited,
         \A u \in U : (refs'[u] = edited /\ area'[u] \in Area) =>
           /\ \A w \in U : (w # u /\ refs'[w] = edited) => area'[w] # area'[u]
           /\ Free(area'[u]) \/ \E w \in V \intersect U : area'[u] = area[w]
  PROVE  Alone'
<1>1. ASSUME NEW u \in U, NEW x \in Editing!View \ U, refs'[u] = refs'[x], refs'[u] # Editing!None,
             area'[u] = area'[x], area'[u] \in Area
      PROVE  FALSE
  <2>1. refs'[u] = edited /\ refs[x] = edited /\ area[x] = area'[u]
    BY <1>1 DEF Effect
  <2>2. CASE Free(area'[u])
    BY <2>1, <2>2 DEF Free
  <2>3. CASE \E w \in V \intersect U : area'[u] = area[w]
    <3>1. PICK w \in V \intersect U : area'[u] = area[w]
      BY <2>3
    <3>2. w # x /\ w \in Editing!View /\ refs[w] = edited
      BY <3>1
    <3>3. edited # Editing!None
      BY EditConstants
    <3>4. QED
      BY <1>1, <2>1, <3>1, <3>2, <3>3 DEF Alone
  <2>4. QED
    BY <1>1, <2>1, <2>2, <2>3
<1>2. ASSUME NEW v \in Editing!View, NEW w \in Editing!View, v # w, refs'[v] = refs'[w], refs'[v] # Editing!None,
             area'[v] = area'[w], area'[v] \in Area
      PROVE  FALSE
  <2>1. CASE v \in U /\ w \in U
    BY <1>2, <2>1 DEF Effect
  <2>2. CASE v \in U /\ w \notin U
    BY <1>1, <1>2, <2>2
  <2>3. CASE v \notin U /\ w \in U
    BY <1>1, <1>2, <2>3
  <2>4. CASE v \notin U /\ w \notin U
    BY <1>2, <2>4 DEF Effect, Alone
  <2>5. QED
    BY <2>1, <2>2, <2>3, <2>4
<1>3. QED
  BY <1>2 DEF Alone

(* What saveToStore of views makes of their areas.                         *)
AreasKept ==
  /\ \A t \in areas : \E v \in Editing!View : refs[v] # Editing!None /\ t = <<refs[v], v, area[v]>>
  /\ \A v \in Editing!View : refs[v] # Editing!None =>
       (<<refs[v], v, area[v]>> \in areas \/ (v \in Static /\ area[v] = HomeArea[v]))

LEMMA HomeIsListed ==
  ASSUME Kept, NEW v \in Editing!View, refs[v] # Editing!None
  PROVE  Editing!Home(v) = refs[v]
  BY EditConstants DEF Kept, Editing!Home

LEMMA SavedAreasKeep ==
  ASSUME Kept, NEW vs \in SUBSET Editing!View, NEW r, \A v \in vs : refs[v] # Editing!None,
         areas' = Editing!SavedAreas(vs, area', r),
         \A v \in Editing!View \ vs : refs'[v] = refs[v] /\ area'[v] = area[v],
         \A v \in vs \ r : refs'[v] = refs[v],
         \A v \in vs \intersect r : refs'[v] = Editing!None
  PROVE  AreasKept'
<1>1. areas' = {t \in areas : t[2] \notin vs} \union {<<Editing!Home(v), v, area'[v]>> : v \in vs \ r}
  BY DEF Editing!SavedAreas
<1>2. \A v \in vs : Editing!Home(v) = refs[v]
  BY HomeIsListed
<1>3. ASSUME NEW t \in areas'
      PROVE  \E v \in Editing!View : refs'[v] # Editing!None /\ t = <<refs'[v], v, area'[v]>>
  <2>1. CASE t \in areas /\ t[2] \notin vs
    <3>1. PICK v \in Editing!View : refs[v] # Editing!None /\ t = <<refs[v], v, area[v]>>
      BY <2>1 DEF Kept
    <3>2. v \notin vs
      BY <2>1, <3>1
    <3>3. QED
      BY <3>1, <3>2
  <2>2. CASE t \in {<<Editing!Home(v), v, area'[v]>> : v \in vs \ r}
    <3>1. PICK v \in vs \ r : t = <<Editing!Home(v), v, area'[v]>>
      BY <2>2
    <3>2. QED
      BY <3>1, <1>2
  <2>3. QED
    BY <1>1, <2>1, <2>2
<1>4. ASSUME NEW v \in Editing!View, refs'[v] # Editing!None
      PROVE  <<refs'[v], v, area'[v]>> \in areas' \/ (v \in Static /\ area'[v] = HomeArea[v])
  <2>1. CASE v \in vs
    <3>1. v \in vs \ r
      BY <1>4, <2>1
    <3>2. <<Editing!Home(v), v, area'[v]>> \in areas'
      BY <1>1, <3>1
    <3>3. QED
      BY <1>2, <3>1, <3>2
  <2>2. CASE v \notin vs
    <3>1. refs'[v] = refs[v] /\ area'[v] = area[v]
      BY <2>2
    <3>2. CASE v \in Static /\ area[v] = HomeArea[v]
      BY <3>1, <3>2
    <3>3. CASE <<refs[v], v, area[v]>> \in areas
      <4>1. <<refs[v], v, area[v]>>[2] \notin vs
        BY <2>2
      <4>2. QED
        BY <1>1, <3>1, <3>3, <4>1
    <3>4. QED
      BY <1>4, <3>1, <3>2, <3>3 DEF Kept
  <2>3. QED
    BY <2>1, <2>2
<1>5. QED
  BY <1>3, <1>4 DEF AreasKept

(* The parts of Kept that the effects must establish.                      *)
RecordsKept ==
  /\ gone \subseteq EditedPage \X Static
  /\ \A v \in Static : /\ refs[v] \in {Editing!None, HomePage[v]}
                       /\ refs[v] = Editing!None <=> <<HomePage[v], v>> \in gone
  /\ \A v \in Fresh : /\ refs[v] # Editing!None => v \in custom
                      /\ \A p \in EditedPage : /\ <<v, p>> \in customs <=> refs[v] = p
                                               /\ <<p, v>> \in marks <=> refs[v] = p

PresentKept == \A v \in Editing!View : refs[v] # Editing!None => v \notin removed /\ area[v] \in Area \union {Out}

LEMMA KeptParts ==
  /\ Kept <=> RecordsKept /\ AreasKept /\ PresentKept
  /\ Kept' <=> RecordsKept' /\ AreasKept' /\ PresentKept'
<1>1. Kept <=> RecordsKept /\ AreasKept /\ PresentKept
  BY Zenon DEF Kept, RecordsKept, AreasKept, PresentKept
<1>2. Kept' <=> RecordsKept' /\ AreasKept' /\ PresentKept'
  BY Zenon DEF Kept, RecordsKept, AreasKept, PresentKept
<1>3. QED
  BY <1>1, <1>2

(* The views of an edit.                                                   *)
LEMMA EditedViews ==
  ASSUME EditTypes, Kept, Course, NEW op \in ops
  PROVE  /\ op \in OpType /\ edited \in EditedPage /\ edited # Editing!None
         /\ Views(op) \subseteq Editing!View
         /\ op.other \in Editing!View \union {Editing!None}
         /\ \A v \in Views(op) : /\ v \in Editing!View /\ refs[v] = edited /\ refs[v] # Editing!None
                                 /\ v \notin removed /\ area[v] \in Area \union {Out}
                                 /\ area[v] \in Area => area[v] \in Claims(op)
         /\ \A o2 \in ops \ {op} : Views(op) \intersect Views(o2) = {}
         /\ selected # Editing!Nothing => selected.view \notin Views(op)
<1>1. op \in OpType /\ edited \in EditedPage
  BY DEF EditTypes, OpsTypes, CourseTypes
<1>2. edited # Editing!None
  BY <1>1, EditConstants
<1>3. ASSUME NEW v \in Views(op)
      PROVE  /\ v \in Editing!View /\ refs[v] = edited
  BY DEF Course, Fits
<1>4. op.other \in Editing!View \union {Editing!None}
  BY <1>1 DEF OpType
<1>5. ASSUME NEW v \in Views(op)
      PROVE  v \notin removed /\ area[v] \in Area \union {Out}
               /\ (area[v] \in Area => area[v] \in Claims(op))
  BY <1>2, <1>3 DEF Kept, Claims
<1>6. \A o2 \in ops \ {op} : Views(op) \intersect Views(o2) = {}
  BY DEF Course, Apart
<1>7. selected # Editing!Nothing => selected.view \notin Views(op)
  BY DEF Course, SelectionFits
<1>8. Views(op) \subseteq Editing!View
  BY <1>3
<1>9. QED
  BY <1>1, <1>2, <1>3, <1>4, <1>5, <1>6, <1>7, <1>8

LEMMA MovedKeeps ==
  ASSUME EditTypes, Kept, Alone, Course, NEW op \in ops, op.kind \in {"move", "swap"},
         area' = Editing!Placed(op.view, op.to, op.other, op.otherTo),
         areas' = Editing!SavedAreas({op.view} \union Editing!Others(op), area', removed),
         gone' = Editing!SavedGone({op.view} \union Editing!Others(op), removed, custom),
         marks' = Editing!SavedMarks({op.view} \union Editing!Others(op), removed),
         ops' = ops \ {op},
         UNCHANGED <<refs, custom, removed, customs, edited, handlers, frame, selected>>
  PROVE  Kept' /\ Alone' /\ Course'
<1> DEFINE U == Views(op)
<1>1. /\ op \in OpType /\ edited \in EditedPage /\ edited # Editing!None
      /\ U \subseteq Editing!View /\ op.other \in Editing!View \union {Editing!None}
      /\ \A v \in U : /\ v \in Editing!View /\ refs[v] = edited /\ refs[v] # Editing!None
                      /\ v \notin removed /\ area[v] \in Area \union {Out}
                      /\ area[v] \in Area => area[v] \in Claims(op)
      /\ \A o2 \in ops \ {op} : U \intersect Views(o2) = {}
      /\ selected # Editing!Nothing => selected.view \notin U
  BY EditedViews, Zenon
<1>2. Fits(op) /\ op.view \in Editing!View /\ op.view # Editing!None
  BY EditConstants DEF Course, Fits
<1>3. U = {op.view} \union Editing!Others(op)
  BY <1>2 DEF Views, Editing!Others
<1>4. op.to \in Spot /\ op.otherTo \in Spot /\ PlaceTypes
  BY <1>1 DEF OpType, EditTypes
<1>5. \A u \in Editing!View : area'[u] = IF u = op.view THEN op.to
                                   ELSE IF u = op.other THEN op.otherTo ELSE area[u]
  BY DEF Editing!Placed
<1>6. op.view \in U /\ (op.other # Editing!None => op.other \in U) /\ (\A u \in U : u \in {op.view, op.other})
  BY <1>2 DEF Views
<1> HIDE DEF U
<1>7. \A u \in Editing!View \ U : refs'[u] = refs[u] /\ area'[u] = area[u]
  <2>1. op.other \notin Editing!View \ U
    BY <1>1, <1>6, EditConstants
  <2>2. QED
    BY <1>5, <1>6, <2>1
<1>8. ASSUME NEW u \in U
      PROVE  area'[u] \in Area \union {Out} /\ (area'[u] \in Area => area'[u] \in Claims(op))
  <2>1. CASE op.kind = "move"
    <3>1. u = op.view /\ area'[u] = op.to /\ op.to \in Area
      BY <1>1, <1>2, <1>5, <1>6, <2>1, EditConstants DEF Fits
    <3>2. QED
      BY <3>1 DEF Claims
  <2>2. CASE op.kind = "swap"
    <3>1. op.view \in U /\ op.other \in U /\ op.to = area[op.other] /\ op.otherTo = area[op.view]
      BY <1>2, <1>6, <2>2, EditConstants DEF Fits
    <3>2. area'[u] \in {area[op.view], area[op.other]}
      BY <1>1, <1>5, <1>6, <3>1
    <3>3. QED
      BY <1>1, <3>1, <3>2
  <2>3. QED
    BY <2>1, <2>2
<1>9. Effect(op, U, {})
  <2>1. \A u \in U : refs'[u] \in {Editing!None, edited} /\ (area'[u] \in Area => area'[u] \in Claims(op))
    BY <1>1, <1>8
  <2>2. QED
    BY <1>1, <1>7, <2>1 DEF Effect
<1>10. Course'
  BY <1>9, EffectKeepsCourse
<1>11. ASSUME NEW u \in U, area'[u] \in Area
       PROVE  /\ \A w \in U : w # u => area'[w] # area'[u]
              /\ Free(area'[u]) \/ \E w \in U : area'[u] = area[w]
  <2>1. CASE op.kind = "move"
    <3>1. op.other = Editing!None /\ Free(op.to)
      BY <1>2, <2>1 DEF Fits
    <3>2. \A w \in U : w = op.view
      BY <1>1, <1>6, <3>1, EditConstants
    <3>3. QED
      BY <1>1, <1>5, <3>1, <3>2
  <2>2. CASE op.kind = "swap"
    <3>1. op.view \in U /\ op.other \in U /\ op.to = area[op.other] /\ op.otherTo = area[op.view]
            /\ op.view # op.other
      BY <1>2, <1>6, <2>2, EditConstants DEF Fits
    <3>2. area'[op.view] = area[op.other] /\ area'[op.other] = area[op.view]
      BY <1>1, <1>5, <3>1
    <3>3. area[op.view] = area[op.other] => area[op.view] \notin Area
      BY <1>1, <3>1 DEF Alone
    <3>4. QED
      BY <1>6, <1>11, <3>1, <3>2, <3>3
  <2>3. QED
    BY <2>1, <2>2
<1>12. Alone'
  BY <1>1, <1>9, <1>11, EffectKeepsAlone
<1>13. U \intersect removed = {}
  BY <1>1
<1>14. gone' = gone /\ marks' = marks
  BY <1>3, <1>13 DEF Editing!SavedGone, Editing!SavedMarks
<1>15. AreasKept'
  <2>1. areas' = Editing!SavedAreas(U, area', removed)
    BY <1>3
  <2>2. \A v \in U \ removed : refs'[v] = refs[v]
    OBVIOUS
  <2>3. QED
    BY <1>1, <1>7, <1>13, <2>1, <2>2, SavedAreasKeep
<1>16. RecordsKept' /\ PresentKept'
  <2>1. RecordsKept /\ PresentKept
    BY KeptParts
  <2>2. RecordsKept'
    BY <1>14, <2>1 DEF RecordsKept
  <2>3. PresentKept'
    BY <1>7, <1>8, <2>1 DEF PresentKept
  <2>4. QED
    BY <2>2, <2>3
<1>17. QED
  BY <1>10, <1>12, <1>15, <1>16, KeptParts

LEMMA RemovedKeeps ==
  ASSUME EditTypes, Kept, Alone, Course, NEW op \in ops, op.kind = "remove",
         removed' = Editing!Terminated(op.view),
         area' = Editing!Placed(op.other, op.otherTo, Editing!None, Editing!None),
         areas' = Editing!SavedAreas({op.view} \union Editing!Others(op), area', removed'),
         gone' = Editing!SavedGone({op.view} \union Editing!Others(op), removed', custom),
         marks' = Editing!SavedMarks({op.view} \union Editing!Others(op), removed'),
         customs' = Editing!Unlisted(op.view),
         refs' = Editing!Delisted(op.view, edited),
         ops' = ops \ {op},
         UNCHANGED <<custom, edited, handlers, frame, selected>>
  PROVE  Kept' /\ Alone' /\ Course'
<1> DEFINE U == Views(op)
<1>1. /\ op \in OpType /\ edited \in EditedPage /\ edited # Editing!None
      /\ U \subseteq Editing!View /\ op.other \in Editing!View \union {Editing!None}
      /\ \A v \in U : /\ v \in Editing!View /\ refs[v] = edited /\ refs[v] # Editing!None
                      /\ v \notin removed /\ area[v] \in Area \union {Out}
                      /\ area[v] \in Area => area[v] \in Claims(op)
      /\ \A o2 \in ops \ {op} : U \intersect Views(o2) = {}
      /\ selected # Editing!Nothing => selected.view \notin U
  BY EditedViews, Zenon
<1>2. /\ op.view \in Editing!View /\ op.view # Editing!None
      /\ op.other # Editing!None => op.otherTo = area[op.view]
  BY EditConstants DEF EditTypes, OpsTypes, Course, Fits
<1>3. /\ U = {op.view} \union Editing!Others(op) /\ op.view \in U
      /\ op.other # Editing!None => op.other \in U
      /\ \A u \in U : u \in {op.view, op.other}
  BY <1>2 DEF Views, Editing!Others
<1>4. /\ PlaceTypes /\ RecordsKept /\ PresentKept
      /\ removed' = removed \union {op.view}
  BY KeptParts DEF EditTypes, Editing!Terminated
<1> DEFINE v == op.view
<1>5. refs' = [refs EXCEPT ![v] = Editing!None] /\ refs \in [Editing!View -> EditedPage \union {Editing!None}]
  BY <1>1, <1>3, <1>4 DEF Editing!Delisted, PlaceTypes
<1>6. refs'[v] = Editing!None /\ \A u \in Editing!View \ {v} : refs'[u] = refs[u]
  BY <1>2, <1>5
<1>7. \A u \in Editing!View : area'[u] = IF u = op.other THEN op.otherTo ELSE area[u]
  BY EditConstants DEF Editing!Placed
<1>8. v \in U /\ v \in Editing!View /\ refs[v] = edited /\ area[v] \in Area \union {Out}
  BY <1>1, <1>3
<1>9. \A u \in U : area'[u] = area[v]
  <2>1. ASSUME NEW u \in U PROVE area'[u] = area[v]
    <3>1. u \in Editing!View /\ u \in {op.view, op.other} /\ u # Editing!None
      BY <1>1, <1>3, EditConstants
    <3>2. CASE u = op.other
      BY <1>2, <1>7, <3>1, <3>2
    <3>3. CASE u # op.other
      BY <1>7, <3>1, <3>3
    <3>4. QED
      BY <3>2, <3>3
  <2>2. QED
    BY <2>1
<1>10. U \intersect removed' = {v}
  BY <1>1, <1>3, <1>4
<1> HIDE DEF U
<1>11. \A u \in Editing!View \ U : refs'[u] = refs[u] /\ area'[u] = area[u]
  <2>1. op.other \notin Editing!View \ U
    BY <1>1, <1>3, EditConstants
  <2>2. QED
    BY <1>6, <1>7, <1>8, <2>1
<1>12. Effect(op, U, {})
  <2>1. \A u \in U : refs'[u] \in {Editing!None, edited}
    BY <1>1, <1>6
  <2>2. \A u \in U : area'[u] \in Area => area'[u] \in Claims(op)
    BY <1>1, <1>8, <1>9
  <2>3. QED
    BY <1>1, <1>11, <2>1, <2>2 DEF Effect
<1>13. Course'
  BY <1>12, EffectKeepsCourse
<1>14. Alone'
  <2>1. ASSUME NEW u \in U, refs'[u] = edited, area'[u] \in Area
        PROVE  /\ \A w \in U : (w # u /\ refs'[w] = edited) => area'[w] # area'[u]
               /\ Free(area'[u]) \/ \E w \in U \intersect U : area'[u] = area[w]
    <3>1. \A w \in U : refs'[w] = edited => w = op.other
      BY <1>1, <1>3, <1>6
    <3>2. area'[u] = area[v]
      BY <1>9
    <3>3. QED
      BY <1>8, <2>1, <3>1, <3>2
  <2>2. QED
    BY <1>1, <1>12, <2>1, EffectKeepsAlone
<1>15. AreasKept'
  <2>1. areas' = Editing!SavedAreas(U, area', removed')
    BY <1>3
  <2>2. \A u \in U \ removed' : refs'[u] = refs[u]
    BY <1>1, <1>6, <1>10
  <2>3. \A u \in U \intersect removed' : refs'[u] = Editing!None
    BY <1>6, <1>10
  <2>4. QED
    BY <1>1, <1>11, <2>1, <2>2, <2>3, SavedAreasKeep
<1>16. PresentKept'
  <2>1. ASSUME NEW u \in Editing!View, refs'[u] # Editing!None
        PROVE  u \notin removed' /\ area'[u] \in Area \union {Out}
    <3>1. u # v /\ refs[u] # Editing!None
      BY <1>6, <2>1
    <3>2. u \notin removed /\ area[u] \in Area \union {Out}
      BY <1>4, <3>1 DEF PresentKept
    <3>3. CASE u \in U
      BY <1>4, <1>8, <1>9, <3>1, <3>2, <3>3
    <3>4. CASE u \notin U
      BY <1>4, <1>11, <3>1, <3>2, <3>4
    <3>5. QED
      BY <3>3, <3>4
  <2>2. QED
    BY <2>1 DEF PresentKept
<1>17. /\ gone' = gone \union {<<Editing!Home(u), u>> : u \in {v} \ custom}
       /\ marks' = {t \in marks : t[2] # v}
       /\ customs' = IF v \in custom THEN {t \in customs : t[1] # v} ELSE customs
       /\ Editing!Home(v) = edited
  <2>1. gone' = gone \union {<<Editing!Home(u), u>> : u \in (U \intersect removed') \ custom}
    BY <1>3 DEF Editing!SavedGone
  <2>2. marks' = {t \in marks : t[2] \notin U \intersect removed'}
    BY <1>3 DEF Editing!SavedMarks
  <2>3. customs' = IF v \in custom THEN {t \in customs : t[1] # v} ELSE customs
    BY DEF Editing!Unlisted
  <2>4. Editing!Home(v) = edited
    BY <1>1, <1>8, HomeIsListed
  <2>5. QED
    BY <1>10, <2>1, <2>2, <2>3, <2>4
<1>18. RecordsKept'
  <2>1. CASE v \in Static
    <3>1. v \notin custom /\ HomePage[v] = edited /\ v \notin Fresh
      BY <1>4, <1>8, <1>1, <2>1, EditConstants DEF PlaceTypes, RecordsKept
    <3>2. gone' = gone \union {<<HomePage[v], v>>} /\ customs' = customs
      BY <1>17, <3>1
    <3>3. gone' \subseteq EditedPage \X Static
      <4>1. <<HomePage[v], v>> \in EditedPage \X Static
        BY <1>1, <2>1, <3>1
      <4>2. gone \subseteq EditedPage \X Static
        BY <1>4 DEF RecordsKept
      <4>3. QED
        BY <3>2, <4>1, <4>2, Zenon
    <3>4. ASSUME NEW s \in Static
          PROVE  /\ refs'[s] \in {Editing!None, HomePage[s]}
                 /\ refs'[s] = Editing!None <=> <<HomePage[s], s>> \in gone'
      <4>1. CASE s = v
        BY <4>1, <1>6, <3>2
      <4>2. CASE s # v
        <5>1. refs'[s] = refs[s]
          BY <4>2, <1>6, EditConstants
        <5>2. <<HomePage[s], s>> \in gone' <=> <<HomePage[s], s>> \in gone
          BY <3>2, <4>2
        <5>3. QED
          BY <5>1, <5>2, <1>4 DEF RecordsKept
      <4>3. QED
        BY <4>1, <4>2
    <3>5. ASSUME NEW f \in Fresh
          PROVE  /\ refs'[f] # Editing!None => f \in custom'
                 /\ \A p \in EditedPage : /\ <<f, p>> \in customs' <=> refs'[f] = p
                                          /\ <<p, f>> \in marks' <=> refs'[f] = p
      <4>1. f # v /\ refs'[f] = refs[f]
        BY <1>6, <3>1, EditConstants
      <4>2. QED
        BY <4>1, <3>2, <1>4, <1>17 DEF RecordsKept
    <3>6. QED
      BY <3>3, <3>4, <3>5 DEF RecordsKept
  <2>2. CASE v \in Fresh
    <3>1. v \in custom /\ v \notin Static
      BY <1>1, <1>4, <1>8, <2>2, EditConstants DEF RecordsKept
    <3>2. gone' = gone /\ customs' = {t \in customs : t[1] # v}
      BY <1>17, <3>1
    <3>3. ASSUME NEW s \in Static
          PROVE  refs'[s] = refs[s]
      BY <1>6, <3>1, EditConstants
    <3>4. ASSUME NEW f \in Fresh
          PROVE  /\ refs'[f] # Editing!None => f \in custom'
                 /\ \A p \in EditedPage : /\ <<f, p>> \in customs' <=> refs'[f] = p
                                          /\ <<p, f>> \in marks' <=> refs'[f] = p
      <4>1. CASE f = v
        BY <4>1, <1>6, <1>17, <3>2, EditConstants
      <4>2. CASE f # v
        <5>1. refs'[f] = refs[f]
          BY <4>2, <1>6, EditConstants
        <5>2. QED
          BY <4>2, <5>1, <3>2, <1>4, <1>17 DEF RecordsKept
      <4>3. QED
        BY <4>1, <4>2
    <3>5. QED
      BY <1>4, <3>2, <3>3, <3>4 DEF RecordsKept
  <2>3. QED
    BY <1>8, <2>1, <2>2, EditConstants
<1>19. QED
  BY <1>13, <1>14, <1>15, <1>16, <1>18, KeptParts

LEMMA ChosenKeeps ==
  ASSUME EditTypes, Kept, Alone, Course, NEW op \in ops, NEW v \in Fresh, op.kind = "choose",
         Editing!Unused(v), refs' = Editing!Listed(v, routed), routed = edited, customs' = customs \union {<<v, edited>>},
         custom' = custom \union {v}, area' = Editing!Placed(v, op.to, Editing!None, Editing!None),
         marks' = marks \union {<<routed, v>>}, areas' = areas \union {<<routed, v, op.to>>},
         ops' = (ops \ {op}) \union {Unveiling(op)},
         UNCHANGED <<removed, gone, edited, handlers, frame, selected>>
  PROVE  Kept' /\ Alone' /\ Course'
<1> DEFINE x == Unveiling(op)
<1>1. /\ x.kind = "unveil" /\ x.view = Editing!None /\ x.to = op.to /\ op.to \in Area
      /\ x.other = Editing!None /\ x.otherTo = Editing!None /\ x.zones = op.zones
      /\ op.view = Editing!None /\ op.other = Editing!None /\ op.otherTo = Editing!None
  BY UnveilingFacts DEF EditTypes
<1> HIDE DEF x
<1>2. Views(x) = {} /\ Claims(x) = {op.to} /\ Claims(op) = {op.to}
  BY <1>1, EditConstants DEF Views, Claims
<1>3. Free(op.to) /\ routed = edited
  BY DEF Course, Fits
<1>4. edited \in EditedPage /\ edited # Editing!None
  BY EditConstants DEF EditTypes, CourseTypes
<1>5. v \in Editing!View /\ v \notin Static /\ refs[v] = Editing!None /\ v \notin removed
  BY EditConstants DEF Editing!Unused
<1>6. PlaceTypes /\ RecordsKept /\ AreasKept /\ PresentKept
  BY KeptParts DEF EditTypes
<1>7. refs'[v] = edited /\ \A u \in Editing!View \ {v} : refs'[u] = refs[u]
  BY <1>3, <1>5, <1>6 DEF Editing!Listed, PlaceTypes
<1>8. area'[v] = op.to /\ \A u \in Editing!View \ {v} : area'[u] = area[u]
  BY <1>5, EditConstants DEF Editing!Placed
<1>9. Effect(op, {v}, {x})
  <2>1. \A o2 \in ops \ {op} : {v} \intersect Views(o2) = {}
    BY <1>4, <1>5 DEF Course, Fits
  <2>2. selected # Editing!Nothing => selected.view \notin {v}
    BY <1>4, <1>5 DEF Course, SelectionFits
  <2>3. \A y, z \in {x} : y = z
    OBVIOUS
  <2>4. \A u \in {v} : refs'[u] \in {Editing!None, edited} /\ (area'[u] \in Area => area'[u] \in Claims(op))
    BY <1>2, <1>7, <1>8
  <2>5. \A y \in {x} : /\ Views(y) = {} /\ Claims(y) \subseteq Claims(op)
                       /\ y.kind = "unveil" /\ y.zones = op.zones
    BY <1>1, <1>2
  <2>6. ops' = (ops \ {op}) \union {x}
    BY DEF x
  <2>7. QED
    BY <1>5, <1>7, <1>8, <2>1, <2>2, <2>3, <2>4, <2>5, <2>6 DEF Effect
<1>10. Course'
  BY <1>9, EffectKeepsCourse
<1>11. Alone'
  <2> DEFINE Q == {w \in Editing!View : refs[w] = edited}
  <2>1. \A u \in {v} : (refs'[u] = edited /\ area'[u] \in Area) =>
          /\ \A w \in {v} : (w # u /\ refs'[w] = edited) => area'[w] # area'[u]
          /\ Free(area'[u]) \/ \E w \in Q \intersect {v} : area'[u] = area[w]
    BY <1>3, <1>8
  <2>2. \A u \in Q : u \in Editing!View /\ refs[u] = edited
    BY DEF Q
  <2> HIDE DEF Q
  <2>3. QED
    BY <1>4, <1>6, <1>9, <2>1, <2>2, EffectKeepsAlone
<1>12. AreasKept'
  <2>1. ASSUME NEW t \in areas'
        PROVE  \E w \in Editing!View : refs'[w] # Editing!None /\ t = <<refs'[w], w, area'[w]>>
    <3>1. CASE t \in areas
      <4>1. PICK w \in Editing!View : refs[w] # Editing!None /\ t = <<refs[w], w, area[w]>>
        BY <3>1, <1>6 DEF AreasKept
      <4>2. w # v
        BY <4>1, <1>5
      <4>3. QED
        BY <4>1, <4>2, <1>7, <1>8
    <3>2. CASE t = <<routed, v, op.to>>
      BY <3>2, <1>3, <1>4, <1>5, <1>7, <1>8
    <3>3. QED
      BY <3>1, <3>2
  <2>2. ASSUME NEW w \in Editing!View, refs'[w] # Editing!None
        PROVE  <<refs'[w], w, area'[w]>> \in areas' \/ (w \in Static /\ area'[w] = HomeArea[w])
    <3>1. CASE w = v
      BY <3>1, <1>3, <1>7, <1>8
    <3>2. CASE w # v
      <4>1. refs'[w] = refs[w] /\ area'[w] = area[w]
        BY <3>2, <1>7, <1>8
      <4>2. <<refs[w], w, area[w]>> \in areas \/ (w \in Static /\ area[w] = HomeArea[w])
        BY <4>1, <2>2, <1>6 DEF AreasKept
      <4>3. QED
        BY <4>1, <4>2
    <3>3. QED
      BY <3>1, <3>2
  <2>3. QED
    BY <2>1, <2>2 DEF AreasKept
<1>13. PresentKept'
  BY <1>1, <1>5, <1>6, <1>7, <1>8 DEF PresentKept
<1>14. RecordsKept'
  <2>1. ASSUME NEW s \in Static
        PROVE  refs'[s] = refs[s]
    BY <1>5, <1>7, EditConstants
  <2>2. ASSUME NEW f \in Fresh
        PROVE  /\ refs'[f] # Editing!None => f \in custom'
               /\ \A p \in EditedPage : /\ <<f, p>> \in customs' <=> refs'[f] = p
                                        /\ <<p, f>> \in marks' <=> refs'[f] = p
    <3>1. CASE f = v
      <4>1. \A p \in EditedPage : <<v, p>> \notin customs /\ <<p, v>> \notin marks
        BY <1>5, <1>6, EditConstants DEF RecordsKept
      <4>2. QED
        BY <3>1, <4>1, <1>3, <1>4, <1>7
    <3>2. CASE f # v
      <4>1. refs'[f] = refs[f]
        BY <3>2, <1>7, EditConstants
      <4>2. QED
        BY <3>2, <4>1, <1>6 DEF RecordsKept
    <3>3. QED
      BY <3>1, <3>2
  <2>3. QED
    BY <1>6, <2>1, <2>2 DEF RecordsKept
<1>15. QED
  BY <1>10, <1>11, <1>12, <1>13, <1>14, KeptParts

(* A step that takes an edit out, whatever its effect.                     *)
LEMMA EffectStep ==
  ASSUME EditInv, NEW op \in ops, UNCHANGED Editing!modes,
         UNCHANGED <<Editing!walk, edited, selected, edits>>, strayed' \in BOOLEAN,
         \/ ops' = ops \ {op}
         \/ op.kind = "choose" /\ ops' = (ops \ {op}) \union {Unveiling(op)},
         PlaceTypes', strayed' = FALSE => (Kept' /\ Alone' /\ Course')
  PROVE  EditInv'
  BY EffectTypes DEF EditInv, EditTypes

LEMMA MovedKeepsEdits ==
  ASSUME EditInv, Editing!Moved
  PROVE  EditInv'
<1>1. PICK op \in ops :
        /\ op.kind \in {"move", "swap"}
        /\ area' = Editing!Placed(op.view, op.to, op.other, op.otherTo)
        /\ areas' = Editing!SavedAreas({op.view} \union Editing!Others(op), area', removed)
        /\ gone' = Editing!SavedGone({op.view} \union Editing!Others(op), removed, custom)
        /\ marks' = Editing!SavedMarks({op.view} \union Editing!Others(op), removed)
        /\ ops' = ops \ {op}
        /\ UNCHANGED <<refs, custom, removed, customs, Editing!modes, Editing!walk, edited, selected, edits,
                       Editing!history>>
  BY DEF Editing!Moved
<1>2. EditTypes /\ UNCHANGED <<handlers, frame, strayed>> /\ strayed' \in BOOLEAN
  BY <1>1 DEF EditInv, EditTypes, CourseTypes, Editing!modes, Editing!history
<1>3. PlaceTypes'
  <2>1. op.to \in Spot /\ op.otherTo \in Spot
    BY <1>2 DEF EditTypes, OpsTypes, OpType
  <2>2. area' \in [Editing!View -> Spot]
    BY <1>1, <1>2, <2>1 DEF Editing!Placed, EditTypes, PlaceTypes
  <2>3. marks' \subseteq marks
    BY <1>1 DEF Editing!SavedMarks
  <2>4. QED
    BY <1>1, <1>2, <2>2, <2>3 DEF EditTypes, PlaceTypes, Spot
<1>4. strayed = FALSE => (Kept' /\ Alone' /\ Course')
  BY <1>1, <1>2, MovedKeeps DEF EditInv
<1>5. QED
  BY <1>1, <1>2, <1>3, <1>4, EffectStep

LEMMA RemovedKeepsEdits ==
  ASSUME EditInv, Editing!Removed
  PROVE  EditInv'
<1>1. PICK op \in ops :
        /\ op.kind = "remove"
        /\ removed' = Editing!Terminated(op.view)
        /\ area' = Editing!Placed(op.other, op.otherTo, Editing!None, Editing!None)
        /\ areas' = Editing!SavedAreas({op.view} \union Editing!Others(op), area', removed')
        /\ gone' = Editing!SavedGone({op.view} \union Editing!Others(op), removed', custom)
        /\ marks' = Editing!SavedMarks({op.view} \union Editing!Others(op), removed')
        /\ customs' = Editing!Unlisted(op.view)
        /\ refs' = Editing!Delisted(op.view, edited)
        /\ ops' = ops \ {op}
        /\ UNCHANGED <<custom, Editing!modes, Editing!walk, edited, selected, edits, Editing!history>>
  BY DEF Editing!Removed
<1>2. EditTypes /\ UNCHANGED <<handlers, frame, strayed>> /\ strayed' \in BOOLEAN
  BY <1>1 DEF EditInv, EditTypes, CourseTypes, Editing!modes, Editing!history
<1>3. PlaceTypes'
  <2>1. op.otherTo \in Spot /\ Editing!None \in Spot /\ op.view \in Editing!View
    BY <1>1, <1>2 DEF EditTypes, OpsTypes, OpType, Spot
  <2>2. area' \in [Editing!View -> Spot]
    BY <1>1, <1>2, <2>1 DEF Editing!Placed, EditTypes, PlaceTypes
  <2>3. marks' \subseteq marks /\ customs' \subseteq customs /\ removed' \subseteq Editing!View
    BY <1>1, <1>2, <2>1 DEF Editing!SavedMarks, Editing!Unlisted, Editing!Terminated, EditTypes, PlaceTypes
  <2>4. refs' \in [Editing!View -> EditedPage \union {Editing!None}]
    BY <1>1, <1>2 DEF Editing!Delisted, EditTypes, PlaceTypes
  <2>5. QED
    BY <1>1, <1>2, <2>2, <2>3, <2>4 DEF EditTypes, PlaceTypes, Spot
<1>4. strayed = FALSE => (Kept' /\ Alone' /\ Course')
  BY <1>1, <1>2, RemovedKeeps DEF EditInv
<1>5. QED
  BY <1>1, <1>2, <1>3, <1>4, EffectStep

LEMMA ChosenKeepsEdits ==
  ASSUME EditInv, Editing!Chosen
  PROVE  EditInv'
<1>1. PICK op \in ops, v \in Fresh :
        /\ op.kind = "choose" /\ Editing!Unused(v)
        /\ refs' = Editing!Listed(v, routed)
        /\ customs' = customs \union {<<v, edited>>}
        /\ custom' = custom \union {v}
        /\ area' = Editing!Placed(v, op.to, Editing!None, Editing!None)
        /\ marks' = marks \union {<<routed, v>>}
        /\ areas' = areas \union {<<routed, v, op.to>>}
        /\ ops' = (ops \ {op}) \union {Unveiling(op)}
        /\ strayed' = (strayed \/ routed # edited)
        /\ UNCHANGED <<removed, gone, Editing!modes, Editing!walk, edited, selected, edits>>
  BY DEF Editing!Chosen, Unveiling
<1>2. EditTypes /\ UNCHANGED <<handlers, frame>> /\ strayed' \in BOOLEAN
        /\ (strayed' = FALSE => strayed = FALSE /\ routed = edited)
  BY <1>1 DEF EditInv, EditTypes, CourseTypes, Editing!modes
<1>3. PlaceTypes'
  <2>1. /\ op.to \in Spot /\ Editing!None \in Spot /\ edited \in EditedPage /\ routed \in EditedPage
    BY <1>1, <1>2 DEF EditTypes, OpsTypes, OpType, CourseTypes, Spot
  <2>2. area' \in [Editing!View -> Spot]
    BY <1>1, <1>2, <2>1 DEF Editing!Placed, EditTypes, PlaceTypes
  <2>3. refs' \in [Editing!View -> EditedPage \union {Editing!None}]
    BY <1>1, <1>2, <2>1 DEF Editing!Listed, EditTypes, PlaceTypes
  <2>4. marks' \subseteq EditedPage \X Fresh /\ customs' \subseteq Fresh \X EditedPage
    BY <1>1, <1>2, <2>1 DEF EditTypes, PlaceTypes
  <2>5. QED
    BY <1>1, <1>2, <2>2, <2>3, <2>4 DEF EditTypes, PlaceTypes, Spot
<1>4. strayed' = FALSE => (Kept' /\ Alone' /\ Course')
  BY <1>1, <1>2, ChosenKeeps DEF EditInv
<1>5. QED
  BY <1>1, <1>2, <1>3, <1>4, EffectStep

LEMMA DroppedKeepsEdits ==
  ASSUME EditInv, Editing!Dropped
  PROVE  EditInv'
<1>1. PICK op \in ops :
        /\ ops' = ops \ {op}
        /\ UNCHANGED <<Editing!places, Editing!store, Editing!modes, Editing!walk, edited, selected, edits, Editing!history>>
  BY DEF Editing!Dropped
<1>2. EditTypes /\ UNCHANGED <<handlers, frame, strayed, refs, area>> /\ strayed' \in BOOLEAN
  BY <1>1 DEF EditInv, EditTypes, CourseTypes, Editing!modes, Editing!history, Editing!places
<1>3. PlaceTypes'
  BY <1>1, <1>2, PlaceTypesStay DEF EditTypes
<1>4. strayed = FALSE => (Kept' /\ Alone' /\ Course')
  <2> SUFFICES ASSUME strayed = FALSE PROVE Kept' /\ Alone' /\ Course'
    OBVIOUS
  <2>1. Effect(op, {}, {})
    BY <1>1, <1>2 DEF Effect
  <2>2. Course'
    BY <1>2, <2>1, EffectKeepsCourse DEF EditInv
  <2>3. QED
    BY <1>1, <2>2, KeptStays, AloneStays DEF EditInv
<1>5. QED
  BY <1>1, <1>2, <1>3, <1>4, EffectStep

-----------------------------------------------------------------------------
(* Loaded again, the page shows what it showed.                            *)
LEMMA ReloadKeepsEdits ==
  ASSUME EditInv, Editing!Reload
  PROVE  EditInv'
<1>1. /\ Editing!Act
      /\ refs' = [v \in Editing!View |-> Editing!LoadedRef(v)]
      /\ area' = [v \in Editing!View |-> Editing!LoadedArea(v)]
      /\ custom' = Editing!LoadedCustom
      /\ removed' = {v \in Editing!View : <<Editing!LoadedPage(v), v>> \in gone}
      /\ handlers' = {} /\ leaving' = 0 /\ zones' = [p \in EditedPage |-> FALSE]
      /\ edited' = Editing!None /\ selected' = Editing!Nothing /\ ops' = {}
      /\ UNCHANGED <<areas, gone, marks, customs, routed, strayed>> /\ shown' = routed
  BY DEF Editing!Reload, Editing!store
<1>2. EditTypes /\ PlaceTypes /\ CourseTypes
  BY DEF EditInv, EditTypes
<1>3. PlaceTypes'
  <2>1. Editing!LoadedCustom \subseteq Fresh
    BY <1>2 DEF Editing!LoadedCustom, PlaceTypes
  <2>2. QED
    BY <1>1, <1>2, <2>1, LoadedTypes DEF PlaceTypes, Spot
<1>4. OpsTypes' /\ SelectedTypes'
  BY <1>1 DEF OpsTypes, SelectedTypes
<1>5. CourseTypes'
  <2>1. edits' \in Nat /\ edits' = edits + 1 /\ edits' <= MaxEdits
    BY <1>1, <1>2, ActCounts
  <2>2. zones' \in [EditedPage -> BOOLEAN]
    BY <1>1, Zenon
  <2>3. leaving' \in Nat /\ leaving' <= edits'
    BY <1>1, <2>1
  <2>4. QED
    BY <1>1, <1>2, <2>1, <2>2, <2>3, Zenon DEF CourseTypes
<1>6. ASSUME strayed = FALSE
      PROVE  Kept' /\ Alone' /\ Course'
  <2>1. Kept /\ Alone
    BY <1>6 DEF EditInv
  <2>9. \A v \in Editing!View : refs'[v] = refs[v]
    BY <1>1, <1>2, <2>1, LoadedIsListed
  <2>10. ASSUME NEW v \in Editing!View, refs[v] # Editing!None
         PROVE  area'[v] = area[v] /\ v \notin removed' /\ (v \in custom' <=> v \in custom)
    BY <1>1, <1>2, <2>1, <2>10, LoadedIsListed, LoadedIsThere
  <2>2. \A v \in Editing!View : refs[v] # Editing!None =>
          (area'[v] = area[v] /\ v \notin removed' /\ (v \in custom' <=> v \in custom))
    BY <2>10
  <2>3. Alone'
    BY <2>1, <2>2, <2>9 DEF Alone
  <2>4. Course'
    BY <1>1 DEF Course, Apart, Locks, SelectionFits
  <2>5. RecordsKept'
    <3>1. RecordsKept
      BY <2>1, KeptParts
    <3>2. ASSUME NEW v \in Static PROVE refs'[v] = refs[v]
      BY <2>9, EditConstants
    <3>3. ASSUME NEW f \in Fresh
          PROVE  refs'[f] = refs[f] /\ (refs[f] # Editing!None => f \in custom')
      <4>1. f \in Editing!View
        BY EditConstants
      <4>2. QED
        BY <2>2, <2>9, <3>1, <4>1 DEF RecordsKept
    <3>4. QED
      BY <1>1, <3>1, <3>2, <3>3 DEF RecordsKept
  <2>6. AreasKept'
    <3>1. AreasKept
      BY <2>1, KeptParts
    <3>2. ASSUME NEW t \in areas
          PROVE  \E v \in Editing!View : refs'[v] # Editing!None /\ t = <<refs'[v], v, area'[v]>>
      <4>1. PICK v \in Editing!View : refs[v] # Editing!None /\ t = <<refs[v], v, area[v]>>
        BY <3>1 DEF AreasKept
      <4>2. QED
        BY <4>1, <2>2, <2>9
    <3>3. ASSUME NEW v \in Editing!View, refs'[v] # Editing!None
          PROVE  <<refs'[v], v, area'[v]>> \in areas \/ (v \in Static /\ area'[v] = HomeArea[v])
      BY <3>1, <3>3, <2>2, <2>9 DEF AreasKept
    <3>4. QED
      BY <1>1, <3>2, <3>3 DEF AreasKept
  <2>7. PresentKept'
    <3>1. PresentKept
      BY <2>1, KeptParts
    <3>2. QED
      BY <2>2, <2>9, <3>1 DEF PresentKept
  <2>8. QED
    BY <2>3, <2>4, <2>5, <2>6, <2>7, KeptParts
<1>7. QED
  BY <1>1, <1>3, <1>4, <1>5, <1>6 DEF EditInv, EditTypes

LEMMA EditStutters ==
  ASSUME EditInv, UNCHANGED Editing!vars
  PROVE  EditInv'
<1>1. UNCHANGED Editing!places /\ UNCHANGED Editing!store /\ UNCHANGED Editing!modes
        /\ UNCHANGED <<edited, strayed, selected, ops, shown, routed, edits>>
  BY DEF Editing!vars, Editing!history, Editing!walk
<1>2. UNCHANGED <<handlers, frame, zones, leaving>>
  BY <1>1 DEF Editing!modes
<1>3. CourseTypes'
  BY <1>1, <1>2 DEF EditInv, EditTypes, CourseTypes
<1>4. QED
  BY <1>1, <1>2, <1>3, AsideKeepsEdits

LEMMA EditNext == EditInv /\ [Editing!Next]_Editing!vars => EditInv'
  BY OnKeepsEdits, OffKeepsEdits, ConfigurateOnKeepsEdits, ConfigurateOffKeepsEdits,
     LeftKeepsEdits, FrameKeepsEdits, WalkKeepsEdits, TapKeepsEdits, TapOrphanKeepsEdits,
     LongTapKeepsEdits, LongTapOrphanKeepsEdits, MovedKeepsEdits, RemovedKeepsEdits,
     ChosenKeepsEdits, DroppedKeepsEdits, ReloadKeepsEdits, EditStutters, Zenon
     DEF Editing!Next

LEMMA EditInvHolds == EditInv => EditsHold
<1> SUFFICES ASSUME EditInv PROVE EditsHold
  OBVIOUS
<1>1. PlaceTypes /\ CourseTypes
  BY DEF EditInv, EditTypes
<1>2. Editing!TypeOK
  <2>1. leaving \in 0 .. MaxEdits
    BY <1>1, EditConstants DEF CourseTypes
  <2>2. Spot = Area \union {Out, Editing!None}
    BY DEF Spot
  <2>3. QED
    BY <1>1, <2>1, <2>2, Zenon DEF Editing!TypeOK, PlaceTypes, CourseTypes
<1>3. strayed # FALSE => strayed
  BY <1>1 DEF CourseTypes
<1>4. Editing!OnePerArea
  BY <1>3 DEF EditInv, Alone, Editing!OnePerArea
<1>5. Editing!ReloadShows
  <2>1. ASSUME strayed = FALSE, NEW v \in Editing!View
        PROVE  /\ Editing!LoadedRef(v) = refs[v]
               /\ refs[v] # Editing!None =>
                    Editing!LoadedArea(v) = area[v] /\ (v \in Editing!LoadedCustom <=> v \in custom)
    BY <2>1, <1>1, LoadedIsListed, LoadedIsThere DEF EditInv
  <2>2. QED
    BY <1>3, <2>1 DEF Editing!ReloadShows
<1>6. QED
  BY <1>2, <1>4, <1>5 DEF EditsHold, Editing!EditsHold

(* The edit mode: no two views of a page are in one area, whatever edits   *)
(* overlap, and at any time a start would show the page as it is. Excepted *)
(* is what comes after an edit got past the locks of the zones, or after a *)
(* view was added to one page and recorded on another.                     *)
THEOREM EditsAreKept == Editing!Spec => []EditsHold
<1>1. Editing!Spec => Editing!Init /\ [][Editing!Next]_Editing!vars
  BY PTL DEF Editing!Spec
<1>2. QED
  BY <1>1, EditInitial, EditNext, EditInvHolds, PTL
=============================================================================
