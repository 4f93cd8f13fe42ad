----------------------------- MODULE Navigation -----------------------------
(***************************************************************************)
(* From the address to the page on the screen and back: the router and the *)
(* swiper of resource/lib.js as resource/index.js wires them. An address   *)
(* leads to a page, the pages of a screen lie side by side under the       *)
(* swiper, and a swipe writes the address of the page it ends on. The      *)
(* browser tells changes of the address by queued events, the ends of      *)
(* transitions by events of their own, and runs the rest when idle.        *)
(***************************************************************************)
EXTENDS Integers, Sequences

CONSTANTS
  Page,
  Path,      \* addresses, of which each page is one: its data-abs
  Lead,      \* [Path -> Page]: the route an address has, or the 404's
  ScreenOf,  \* [Page -> Seq(Page)]: the screen a route belongs to
  MaxActs    \* bound: what the user does, and the callbacks that run out of
             \* time, in one behaviour

None == "none"

(* Values of the container's style: no transform yet, one that is the      *)
(* place of no page, or the number of the page whose place it is.          *)
Empty == -1
Elsewhere == 0
Place == Nat \union {Empty}

Pages(s) == {s[n] : n \in DOMAIN s}

(* Other addresses lead to the default page or the 404's, which are on no  *)
(* screen with others (index.html).                                        *)
ASSUME RoutesAssumption ==
  /\ Page \subseteq Path /\ None \notin Path
  /\ Lead \in [Path -> Page] /\ \A p \in Page : Lead[p] = p
  /\ \A e \in Path \ Page : Len(ScreenOf[Lead[e]]) = 1
  /\ ScreenOf \in [Page -> Seq(Page)]
  /\ \A p \in Page : p \in Pages(ScreenOf[p])
                       /\ \A q \in Pages(ScreenOf[p]) : ScreenOf[q] = ScreenOf[p]
  /\ MaxActs \in Nat

VARIABLES
  hash,      \* window.location.hash
  events,    \* hashchange events not yet delivered: the new addresses
  current,   \* the router's notion of the address
  update,    \* routerUpdate: the address an idle callback will write
  screen,    \* currentScreen, the pages under the swiper
  index,     \* i of the swiper
  held,      \* locked: a finger is on the swiper
  transform, \* the place of the container
  eased,     \* its transition has a duration
  nextTransform, nextTransition,  \* what the next frame makes of them
  moving,    \* the transition of the swiper's container runs
  ends,      \* how many listeners wait for a transition's end after a change of page
  timeouts,  \* the pages of swipes that had nowhere to move to, which timers end
  page,      \* currentPage, None for undefined
  active,    \* pages whose controls are active
  awake,     \* pages not suspended
  naps,      \* pages an idle callback will suspend
  frames,    \* the pager's dots to light with the next frame, in their order
  dot,       \* the dot lit
  bread,     \* the address the breadcrumbs were built for
  acts,      \* what the user has done so far
  overtaken, \* history: a screen was left while a swipe on it was unsettled
  misled,    \* history: when last swiped, the container was due elsewhere
  belated,   \* history: a timer ended a swipe to a page left since
  lost       \* history: currentPage has been undefined

vars == <<hash, events, current, update, screen, index, held, transform, eased, nextTransform,
          nextTransition, moving, ends, timeouts, page, active, awake, naps, frames, dot, bread,
          acts, overtaken, misled, belated, lost>>
router == <<hash, events, current, update>>
style == <<transform, eased, moving>>
nextStyle == <<nextTransform, nextTransition, misled>>
listeners == <<ends, timeouts>>
swiper == <<screen, index, held, style, nextStyle, listeners, overtaken, belated>>
pages == <<page, active, awake, naps, lost>>
header == <<frames, dot, bread>>

Init ==
  /\ hash \in Path
  /\ events = <<hash>>  \* router.begin(true)
  /\ current = None /\ update = None
  /\ screen = <<>> /\ index = 1
  /\ held = FALSE /\ transform = Empty /\ eased = FALSE /\ moving = FALSE
  /\ nextTransform = Empty /\ nextTransition = None
  /\ ends = 0 /\ timeouts = <<>>
  /\ page = None /\ active = {} /\ awake = Page /\ naps = {}
  /\ frames = <<>> /\ dot = 1 /\ bread = None
  /\ acts = 0
  /\ overtaken = FALSE /\ misled = FALSE /\ belated = FALSE /\ lost = FALSE

(* The route of an address, and its place on its screen.                   *)
Route(e) == Lead[e]

At(p) == CHOOSE n \in DOMAIN ScreenOf[p] : ScreenOf[p][n] = p

-----------------------------------------------------------------------------
(* transferPage to p, which is undefined if p is the page already.         *)
Transfer(p, asleep) ==
  /\ page' = IF p = page THEN None ELSE p
  /\ awake' = (awake \ asleep) \union (IF p = page THEN {} ELSE {p})
  /\ naps' = naps \union ({page} \intersect (awake \ (asleep \union {p})))
  /\ lost' = (lost \/ p = page)

(* transferScreen: the pages of the old screen go, then those of the new   *)
(* one come; some may be both. Its mutant takes the other order.           *)
TransferScreenFirst(new, old) == active' = (active \union new) \ old
TransferScreen(new, old) == active' = (active \ old) \union new

(* swipeToIndex, afterTransitionStart: the index changes at once, the dot  *)
(* with the next frame, and currentPage when the transition has ended.     *)
(* The container that has its place already gets no frame: a timer stands  *)
(* for the transition, and a frame due for another place stays due.        *)
SwipeTo(n, transition) ==
  /\ index' = n
  /\ \/ /\ n # transform
        /\ nextTransform' = n /\ nextTransition' = transition /\ misled' = FALSE
        /\ ends' = IF n = index THEN ends ELSE ends + 1
        /\ UNCHANGED timeouts
     \/ /\ n = transform
        /\ misled' = (nextTransform \notin {Empty, n})
        /\ timeouts' = IF n = index THEN timeouts ELSE Append(timeouts, n)
        /\ UNCHANGED <<nextTransform, nextTransition, ends>>
  /\ frames' = Append(frames, n)
  /\ UNCHANGED <<screen, style, overtaken, belated, dot, bread>>
  /\ UNCHANGED pages

(* setIndex, to another index: without a transition, which it cuts short.  *)
SetIndex(n) ==
  /\ index' = n
  /\ IF n = index THEN UNCHANGED nextStyle
     ELSE nextTransform' = n /\ nextTransition' = "initial" /\ misled' = FALSE

(* The dots and the breadcrumbs of a new screen are drawn at once.         *)
BuildHeader(n) ==
  /\ dot' = n
  /\ bread' = hash
  /\ UNCHANGED frames

(* buildScreen puts all pages of the new screen to sleep.                  *)
Rebuild(p) ==
  /\ screen' = ScreenOf[p]
  /\ SetIndex(At(p))
  /\ BuildHeader(At(p))
  /\ TransferScreen(Pages(ScreenOf[p]), Pages(screen))
  /\ Transfer(p, Pages(ScreenOf[p]))
  /\ overtaken' = (overtaken \/ update # None \/ ends > 0 \/ timeouts # <<>> \/ frames # <<>>)
  /\ UNCHANGED <<style, listeners, belated>>

Resolve(p) ==
  IF Len(screen) = 1 \/ p \notin Pages(screen) THEN Rebuild(p) ELSE SwipeTo(At(p), "ease-out")

(* hashHandler: an address the router knows already is suppressed.         *)
Suppressed(e) == e = current

Deliver ==
  /\ events # <<>>
  /\ events' = Tail(events)
  /\ LET e == Head(events) IN
       \/ /\ Suppressed(e)
          /\ UNCHANGED <<current, screen, index, style, nextStyle, listeners, overtaken, belated,
                         pages, header>>
       \/ ~Suppressed(e) /\ current' = e /\ Resolve(Route(e))
  /\ UNCHANGED <<hash, update, held, acts>>

-----------------------------------------------------------------------------
Acts == acts < MaxActs /\ acts' = acts + 1

(* Following a link, going back or typing an address.                      *)
Go ==
  /\ Acts
  /\ \E p \in Path \ {hash} :
       /\ hash' = p
       /\ events' = Append(events, p)
  /\ UNCHANGED <<current, update, swiper, pages, header>>

(* swipeLocker: a screen of one page cannot be swiped.                     *)
Swipeable == Len(screen) > 1

(* lock: a frame that is due is given up.                                  *)
Touch ==
  /\ Acts
  /\ Swipeable /\ ~held
  /\ held' = TRUE
  /\ nextTransform' = Empty /\ nextTransition' = "initial"
  /\ UNCHANGED <<router, screen, index, style, misled, listeners, overtaken, belated, pages,
                 header>>

(* drag: the container follows the finger, as far as to a neighbour.       *)
Drag ==
  /\ Acts
  /\ Swipeable /\ held
  /\ \E n \in {Elsewhere} \union {m \in DOMAIN screen : m - index \in {-1, 0, 1}} :
       nextTransform' = n
  /\ UNCHANGED <<router, screen, index, held, style, nextTransition, misled, listeners, overtaken,
                 belated, pages, header>>

(* move, leave: on to a neighbour, or back; at once when the finger stayed *)
(* where it was, or went the whole way.                                    *)
Swipe ==
  /\ Swipeable /\ held
  /\ held' = FALSE
  /\ \E n \in DOMAIN screen, transition \in {"initial", "ease-out"} :
       n - index \in {-1, 0, 1} /\ SwipeTo(n, transition)
  /\ UNCHANGED <<router, acts>>

(* The window is resized: the index is set anew, and where the container   *)
(* was is another place now, but for the first page's.                     *)
Resize ==
  /\ Acts
  /\ Swipeable
  /\ held' = FALSE
  /\ nextTransform' = index /\ nextTransition' = "initial" /\ misled' = FALSE
  /\ \/ UNCHANGED transform
     \/ transform > 1 /\ transform' \in {Elsewhere} \union (DOMAIN screen \ {1})
  /\ UNCHANGED <<router, screen, index, eased, moving, listeners, overtaken, belated, pages, header>>

(* animationFrame: a new place starts a transition, if it has a duration,  *)
(* and cuts short the one that runs.                                       *)
Restyle ==
  /\ nextTransform' = Empty /\ nextTransition' = None
  /\ eased' = IF nextTransition = None THEN eased ELSE nextTransition = "ease-out"
  /\ transform' = IF nextTransform = Empty THEN transform ELSE nextTransform
  /\ \/ transform' = transform /\ UNCHANGED moving
     \/ (transform' # transform \/ nextTransform = Elsewhere) /\ moving' = eased'

(* The pager's callbacks of a frame: the last dot there is is lit.         *)
LightDot ==
  LET there == {k \in DOMAIN frames : frames[k] \in DOMAIN screen} IN
  /\ frames' = <<>>
  /\ \/ there = {} /\ UNCHANGED dot
     \/ \E k \in there : (\A j \in there : j <= k) /\ dot' = frames[k]

Due == nextTransform # Empty \/ nextTransition # None

Frame ==
  /\ frames # <<>> \/ Due
  /\ LightDot
  /\ Restyle
  /\ UNCHANGED <<router, screen, index, held, misled, listeners, overtaken, belated, pages, bread,
                 acts>>

-----------------------------------------------------------------------------
(* Every listener left by a swipe calls afterEnd with the page there is    *)
(* now: the second of two finds that page current already, and so on.      *)
TransferEach(p) ==
  /\ page' = IF (page = p) = (ends % 2 = 0) THEN p ELSE None
  /\ awake' = awake \union (IF page = p /\ ends = 1 THEN {} ELSE {p})
  /\ naps' = naps \union ({page} \intersect (awake \ {p}))
  /\ lost' = (lost \/ page = p \/ ends > 1)
  /\ UNCHANGED active

(* An address not yet written is given up.                                 *)
AfterEnd ==
  /\ ends > 0
  /\ ends' = 0
  /\ update' = screen[index]
  /\ TransferEach(screen[index])
  /\ UNCHANGED <<hash, events, current, screen, index, held, transform, eased, nextStyle, timeouts,
                 overtaken, belated, header, acts>>

TransitionEnd ==
  /\ moving
  /\ moving' = FALSE
  /\ \/ AfterEnd
     \/ /\ ends = 0
        /\ UNCHANGED <<router, screen, index, held, transform, eased, nextStyle, listeners, overtaken,
                       belated, pages, header, acts>>

(* The end of a transition of some control inside bubbles up to them.      *)
InnerEnd == AfterEnd /\ UNCHANGED moving

(* The timer of a swipe without a transition calls afterEnd with the page  *)
(* it was to.                                                              *)
Timeout ==
  /\ timeouts # <<>>
  /\ timeouts' = Tail(timeouts)
  /\ LET n == Head(timeouts) IN
       \/ n \notin DOMAIN screen /\ UNCHANGED <<update, belated, pages>>
       \/ /\ n \in DOMAIN screen
          /\ update' = screen[n]
          /\ Transfer(screen[n], {}) /\ UNCHANGED active
          /\ belated' = (belated \/ (n # index /\ ends = 0))
  /\ UNCHANGED <<hash, events, current, screen, index, held, style, nextStyle, ends, overtaken, header,
                 acts>>

(* The idle callback of afterEnd runs when no event waits, or when 100 ms  *)
(* are over. The mutant does not wait.                                     *)
IdleAtOnce == UNCHANGED acts

Idle ==
  \/ events = <<>> /\ UNCHANGED acts
  \/ events # <<>> /\ Acts

(* The router does not listen meanwhile, but the event of its own writing  *)
(* comes later.                                                            *)
RouterUpdate ==
  /\ update # None /\ Idle
  /\ hash' = update
  /\ events' = IF hash = update THEN events ELSE Append(events, update)
  /\ current' = update
  /\ update' = None
  /\ bread' = update
  /\ UNCHANGED <<swiper, pages, frames, dot>>

(* The idle callback of transferPage looks again at the page shown.        *)
Nap ==
  \E p \in naps :
    /\ naps' = naps \ {p}
    /\ awake' = IF p = page THEN awake ELSE awake \ {p}
    /\ UNCHANGED <<router, swiper, page, active, lost, header, acts>>

Next ==
  \/ Go \/ Touch \/ Drag \/ Swipe \/ Resize \/ Frame
  \/ Deliver \/ TransitionEnd \/ InnerEnd \/ Timeout \/ RouterUpdate \/ Nap

Fairness ==
  /\ WF_vars(Deliver) /\ WF_vars(TransitionEnd) /\ WF_vars(Timeout) /\ WF_vars(RouterUpdate)
  /\ WF_vars(Nap) /\ WF_vars(Frame)

Spec == Init /\ [][Next]_vars /\ Fairness

-----------------------------------------------------------------------------
TypeOK ==
  /\ hash \in Path /\ events \in Seq(Path)
  /\ current \in Path \union {None} /\ update \in Page \union {None}
  /\ screen \in {<<>>} \union {ScreenOf[p] : p \in Page}
  /\ index \in Nat \ {0} /\ ends \in Nat /\ acts \in 0 .. MaxActs
  /\ held \in BOOLEAN /\ moving \in BOOLEAN /\ eased \in BOOLEAN
  /\ transform \in Place /\ nextTransform \in Place
  /\ nextTransition \in {None, "initial", "ease-out"}
  /\ timeouts \in Seq(Nat \ {0})
  /\ page \in Page \union {None}
  /\ active \subseteq Page /\ awake \subseteq Page /\ naps \subseteq Page
  /\ frames \in Seq(Nat \ {0}) /\ dot \in Nat \ {0} /\ bread \in Path \union {None}
  /\ overtaken \in BOOLEAN /\ misled \in BOOLEAN /\ belated \in BOOLEAN /\ lost \in BOOLEAN

Started == screen # <<>>
Quiet == Started /\ events = <<>> /\ update = None /\ ~moving /\ naps = {} /\ frames = <<>>
                 /\ ~Due /\ timeouts = <<>>
Calm == Quiet /\ ends = 0

(* The container is where the page of the index is before the user.        *)
InPlace == transform = index \/ (transform = Empty /\ index = 1)

(* Once all is delivered, the page before the user is the one the address  *)
(* leads to, and the router, the breadcrumbs and the pager agree: a link,  *)
(* a swipe and the address that swipe writes never end up apart. Excepted  *)
(* are a screen left by a link while a swipe on it was not yet settled,    *)
(* whose late write stays, and a swipe that a timer ended when its page    *)
(* was left. The container alone may be elsewhere under a finger, and when *)
(* the last swipe was to the page it had not left yet.                     *)
AddressIsShown ==
  Calm /\ ~overtaken /\ ~belated =>
    /\ current = hash /\ bread = hash /\ dot = index /\ screen[index] = Lead[hash]
    /\ InPlace \/ held \/ misled

(* The pages whose controls animate.                                       *)
Running == active \intersect awake

(* The controls that are active are those of the screen, all of them.      *)
ActiveIsScreen == active = Pages(screen)

(* Once all is delivered, the page shown, and no other, is awake; so the   *)
(* animations of no other page go on. Excepted is everything after         *)
(* currentPage was undefined, by two swipes within one transition or an    *)
(* address that leads to the page there is, or was set by a late timer.    *)
OneAwake == Calm /\ ~lost /\ ~belated => page = screen[index] /\ Running = {page}

(* What buildScreen says of its pages, "start it suspended to prevent       *)
(* costly animation if have": no page but the one shown animates. After    *)
(* two swipes within one transition this does not hold, even without a     *)
(* late timer.                                                             *)
OnlyShownRuns == Calm /\ ~belated => Running \subseteq {screen[index]}

(* Between the router and the swiper, each of which moves the other, no    *)
(* movement goes round for ever: once the user, and callbacks that run out *)
(* of time, leave them alone, all is settled but for the listeners of a    *)
(* transition that was cut short.                                          *)
Settles == <>[]Quiet

(* Router, swiper and pages agree on the page that is shown, active and    *)
(* awake.                                                                  *)
NavigationAgrees ==
  TypeOK /\ AddressIsShown /\ ActiveIsScreen /\ OneAwake
=============================================================================
