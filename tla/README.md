# Verification of WebKeyboard (TLA+)

WebKeyboard is the firmware of an ESP32 board and the browser application it
serves. Browsers on the same WiFi show controls of a game; the board turns what
they send over a WebSocket into reports of a USB keyboard, mouse and joystick.
This directory holds TLA+ models of the firmware's own logic and of the browser
application, the TLC
configurations that check them, and proofs checked by TLAPS. Paths below are
relative to `src/`.

## The system

### Tasks

| Task | Runs | Shares |
| --- | --- | --- |
| httpd (ESP-IDF, one task) | every request, every WebSocket message, queued work, closing of sockets | sessions, control map, scheduler, queue of reports, joystick state |
| keyboard task (`hid/compositeTask.h`) | takes reports off the queue and sends them over USB | joystick and mouse state, USB endpoint |
| scheduler task (`scheduler.h`) | "server gc" (`main.cpp:461`), "socket gc" (`main.cpp:469`), handlers of repeated commands | all of the above |
| TinyUSB task | transfers, the keyboard's lights (`ledStatusChange.h`) | control map, notifications |

### Components, their state and operations

| Component | State | Operations | What is hard | What makes it correct |
| --- | --- | --- | --- | --- |
| session manager `http/session/manager.h`, `sessionManager.cpp` | array of shared pointers, `count`, index generator | `open` (new, by identifier), `renew`, `close`, `fromIndex`, `collect` | two locks for one decision, clocks read before a lock, events emitted after it, `count` that drifts | every session in one place, its end announced once, never out of the array before its time |
| session `session.h`, `http/session/session.h` | identifier, expiry mark, flags, WebSocket | `update`, `renew`, `invalidate`, `setWebSocket` | flags read and written in separate critical sections by two tasks | others hear once that a client left |
| HID task `hid/compositeTask.h` | queue, dangling commands, device states, two mutexes | `push_back`, execution of a report, direct access | keys held across commands, direct access between two steps, one endpoint for all devices | what the host sees down is what should be |
| report packing `hid/report*.h`, writers | 32-bit words with several fields | `pack_back`, `repack`, `unpack_front`, `flush` | lengths, boundaries, dropped reports | unpacking returns what was packed |
| scheduler `scheduler.h` | `units`, `unitsShadow`, notification | `schedule`, `unschedule`, the loop | clients interleave with the loop, part of which holds no mutex | runs as asked, none lost, none late |
| control map `ctrlmap.h` | values, position of each control's value, threshold | `nextState`, `collect`, iteration | positions reused while shared | each control has its last state |
| notifications `notification.h`, lights `ledStatusChange.h` | messages queued to httpd | `notify`, `notifyExcept` | snapshot at sign-in against live updates | clients agree with the server in the end |
| WebSocket protocol `wsproto.h` | none of its own | sign-in, ping, leave, commands, axes, repeats | flags of the session, reconnection | no command before sign-in, sign-out announced once |
| server and sockets `http/server.cpp`, `http/socket` | contexts, descriptors | open, upgrade, close, queued jobs | descriptors reused between queueing and running | a job reaches the socket it was meant for |
| critical section `syncing/critical_shared.h` | counter, saved interrupt state | shared and exclusive locking | saved state shared between locks | exclusion |
| parser, interpreter, packers | none | text to commands, messages | grammar of combinations | |
| browser: socket `lib.js` | the socket, its status, promises under way, timers | sign-in, sign-off, reconnection, renewal of the session, recovery from sleep | several causes to reconnect, handlers that read the current socket for an older one's event, sleep | one connection at a time, every loss noticed and retried |
| browser: controls `lib.js` | state of each control, locks, intervals and timers, messages under way | taps, long taps, states from the server, repetitions, locks, reconnection | two pages act at once, groups, late timers and answers | pages and server agree in the end, one of a group is on, no interval is lost |
| browser: gestures `lib.js` | press under way, timers | press, move, release, second finger, cancel, lock | events lost while a control is disabled, late timers | one press acts once, nothing stays begun |
| browser: navigation `lib.js`, `widget.js`, `index.js` | address, router, swiper, screens, active and sleeping pages | links, swipes, ends of transitions, idle callbacks | router and swiper move each other | all agree once at rest, only the page shown is awake |
| browser: edit mode `index.js` | views, areas, zones, store, edits under way | moving, removing, adding, choosing, the two modes, reload | edits overlap with animations, exits and reloads | no area with two views, no edit kept by half |
| browser: windows `lib.js`, `index.js` | windows showing and awaited, modal layer, forms, attributes, store | open, type, submit, cancel, search, reload | two forms of one attribute, windows that hide late | layer and windows agree, no value comes back |
| browser: canvas widgets `widget.js`, `index.js` | widgets with frames, events, refreshes; pads, shield | build, animate, suspend, refresh, free; touches | everything is queued on frames and promises | a widget does what its page does |
| browser: joystick and limiters `index.js` | axis, owner, values of the views, list to synchronise | drag, send, receive, reset, change | each view may move what all show | all show the axis |
| browser: overlay `widget.js`, `index.js` | cache, evaluations, pair to draw, callbacks | select, draw, invalidate, answers of the worker | answers to what has changed meanwhile | what is shown is current |
| storage, WiFi, DNS, resources, hashing | | | mostly input and output | |

Interactions: httpd calls the session manager for every request and the
scheduler task calls its `collect`; both then emit CLOSE events that reach
`wsproto::handleEvents`, which tells the other clients and closes the socket.
Commands go from httpd, or from a repeated handler on the scheduler task,
through parser and interpreter into the queue of the keyboard task; axes of a
joystick widget bypass the queue by direct access. States of controls go to the
control map and, by notification, to the other clients.

`PROJECT.json` lists the hazards of this code with the lines where they bite
and the properties that cover them.

## Modules

| Module | Models |
| --- | --- |
| `SessionManager` | `http/session/manager.h` as `sessionManager.cpp` instantiates it |
| `SessionLifecycle` | its abstract specification: unmade, open, removed, closed |
| `SessionManagerProofs` | theorems about `SessionManager` |
| `WsSession` | flags and sockets of sessions: `session.h`, sign-in, leave and events in `wsproto.h`, ends of sockets in `http/server.cpp`, `http/socket` |
| `WsSessionProofs` | theorems about `WsSession` |
| `CompositeTask` | `hid/compositeTask.h` with direct access from `wsproto.h` |
| `Scheduler` | `scheduler.h` |
| `CtrlMap`, `ControlStates` | `ctrlmap.h` and what it promises |
| `ClientSocket` | the socket of the browser client: `wsocket` in `resource/lib.js` as `resource/index.js` uses it |
| `ClientSocketProofs` | theorems about `ClientSocket` |
| `KeyboardProofs` | theorems about `CompositeTask`, for any commands and, for dangling keys, for a user of the keyboard alone (`MCKeyboard`) |
| `ServicesProofs` | theorems about `Scheduler` and `CtrlMap` |
| `ControlsProofs` | theorems about `Controls` |
| `TouchProofs` | theorems about `Gestures`, `Shield`, `Pads`, `Limiter`, `Overlay` and `Widgets` |
| `PageProofs` | theorems about `Navigation`, `Editing` and `Configuration` |
| `Controls` | controls, groups, locks and repetitions of `resource/lib.js` with `index.js` and the server between the pages |
| `Gestures` | the handlers of touches and buttons of `resource/lib.js` |
| `Navigation` | `Router`, `Swiper`, `Pager` as `index.js` wires them |
| `Editing` | the edit mode of `index.js`, its zones and its store |
| `Configuration` | `WindowModal` and four windows of `lib.js`, attributes and their inheritance, the store |
| `Widgets` | the life of `PDSWidgetsPad`, `ShieldWidget` and of the views that hold them |
| `Pads`, `Shield` | their gestures |
| `Limiter` | `Joystick` and `LimiterControlWidget` of `index.js` |
| `Overlay` | `Overlay` of `widget.js` as `index.js` uses it |
| `MCKeyboard`, `MCServices`, `MCTouch`, `MCPage` | several components, or users, side by side for one run |
| other `MC...` | one component |

The side by side modules extend one component and instantiate the others. The
components of one such module share no state, so that interleaving them shows
nothing: a variable `part`, chosen at the start, says which of them the
behaviour is about, and the others stay where they began. A property of one
component is checked in the behaviours that are about it, and holds trivially
in the others. Where the components do meet in the code (a lock that disables a
control and frees a widget's handlers, a page that is swiped away and puts
widgets to sleep, an edit that invalidates regions), each takes the other's
calls as inputs that may come at any moment: `Lock` in `Gestures`, `Pads` and
`Shield`, `Suspend`, `Shut`, `Enter`, `Leave` in `Widgets`, `Edit`, `Resolve`,
`SwipeStart` in `Overlay`. That is more than the composition allows.

### SessionManager

`data`, `count` and `next` are `storage.data`, `storage.count` and the index
generator; `sid`, `upd`, `valid` are the fields of every session object, an
object being named by its index. `closes` counts the CLOSE events of each.
`pc`, `ts`, `sess`, `attempt`, `owed` are the locals of the calls: where the
task stands, the instant it read, the pointer it holds, the loop counter of
`open`, and the pointers it took out of the array and has not invalidated yet.

Each section under the mutex is one action, and so is each thing done outside
it: `Lookup` reads the clock, `FindSid`/`FindIndex` search under the shared
lock, `Evict` comes back with the exclusive lock, `CollectBegin` reads `count`
and the clock, `CollectSweep` sweeps, `Invalidate` invalidates one removed
object and emits its event. `Attach` is a request whose socket context still
locks its weak pointer; `KeepAlive` writes the expiry mark without the
manager's lock, also for a session that is no longer stored, and so may revive
an expired one between a collector's reading of the clock and its sweep;
`Finds` includes the shortcut
for `count = 0`. `removeBy` leaves `count` alone, as in the code: it only ever
errs upwards, which is what `CountCoversSlots` says.

Abstracted: identifiers are members of a small set (so that collisions happen),
`validateSession` may refuse anything, the reason of a CLOSE event and the
OPEN event are left out, and `renew`, `outdated` keep only the identifier.
`open` is begun only if all its attempts fit the bound `MaxSessions`; the clock
stops at `MaxTime`.

### WsSession

`flags` are the session's flags (`DISCONNECTED_NOTE_SENT` is `NOTE_SENT`),
`sock` is `_socket`, `conn` the weak pointer in the context of each socket,
`closing` the close jobs in httpd's queue. `at`, `on`, `seen` and `owed` are
the locals of the handlers: where each task stands, the session it handles, its
copy of the flags, and the removed sessions whose CLOSE it has still to handle.
`present` are the clients the others were last told are connected. Two
variables are history: `signed` (the client signed in since its socket last
changed) and `late` (its sign-in was announced after its departure had been
told, see Known divergences).

A handler is cut at every section in which it reads or writes the flags and at
the notification between them: sign-in is `Message`, `SignIn`, `Welcome`; a
ping, which is answered before a change of socket is looked at, is `Ping`,
`Pong`; the
end of a socket `HangUp` or `RunClose`, then `Lost`, `LostRead`, `LostTell`,
`LostSet`; the end of a session `Dismiss`, `Leave` or `Collect`, then
`CloseRead`, `CloseTell`, `CloseSet`, `CloseSocket`. The last four run on
whichever task removed the session, so that httpd may handle WS_CLOSE, a
sign-in or another CLOSE between any two of them. `RunClose` ends whatever
connection uses the descriptor when the job runs, as in the code.

Abstracted: the array of sessions is a set (`SessionManager` models it); any
stored session may be removed at any time, since time is not modelled; an
upgrade finds its session and stores the socket in one step (the lookup has
just prolonged it); notifications reach everyone at once; the time of the
heartbeat, which a ping writes, and "socket gc" (compiled out by default), which
reads it, are left out.

### CompositeTask

A command holds buttons, moves axes, or types; keys of the three devices
are members of one small set. `pc` walks the loop of the keyboard task: wait,
collect (axis by axis, with the joystick's mutex), the flushes of the plan
(lock `flushMutex`; for each device set the buttons, wait for the endpoint,
hand the report over), finish. `plan` is what `executeCommand` decided. `host`
and `hostAxis` are the last reports that got through. `direct` walks
`directJoystick`, both the access that gives up at once (`ctr` messages) and
the one that waits (sign-in). `Report` is `tud_hid_report`: lost if the
endpoint is busy, with no caller looking.

Abstracted: modifiers behave as keys that always fit a report, the wheel and
the mouse's position are left out (no direct access reaches them from a
message), delays are left out (where the task waits, the others may step), and
the order of keycodes within a report is a set, with the array's quirks kept
where they show: keys that do not fit are dropped, and the terminator of a
full array is the first byte of the joystick's buttons. A command that names
nothing (`compositeTask.h:746`) is executed without a flush.

`MCKeyboard` adds who it is about: a user of the keyboard alone, whose commands
(`KeyboardCommands`) are of the keyboard and who moves no widget, or anyone. What
dangling keys show is stated of the first, since the divergences below take the
second away from it.

### Scheduler

Time is in ticks of FreeRTOS (10 ms in this build), the precision of the
task's sleep. A unit keeps the ticks left until it is due instead of the
instant it was invoked, so the clock needs no bound. Time passes while the task
sleeps and while a handler runs (up to `MaxRun` ticks); the rest of the loop
takes none. `Begin` and `Call` are two steps because the erase mark is read
before the handler is called and outside the mutex; `EndHandler` and `Retire`
are two because the last run and the removal are. `LoadAssumption` says that
the handlers fit into every interval; without it the loop would never sleep and
never merge new units, see the hazard at `scheduler.h:104`. Client intervals
are at least a tick and at most an hour (`packers.cpp`), so the multiplication
by 1000 does not overflow and is not modelled.

### CtrlMap

`m` and `v` as in the code, positions from 0. `Collect` follows the loop over
the hash map in every order a hash map may have. A string moved onto itself is
left empty or as it was (the standard leaves that open). If controls that share
a value outnumber the values, the loop writes at `v[v.size()]` and beyond, where
no string is: that is undefined, and `Collect` leaves any contents then. Two
variables are history: `overrun` says that this has happened, `given` what each
control was given last, of those no collection has touched since. The clients
shipped with the firmware store only "switched-on", so that a collection is out
of their reach (the threshold is 25 distinct values); the server accepts any
value.

### ClientSocket

`context` is `privateCtx.context`, `ws` the `readyState` of each socket,
`status` the context's status (that of an older socket is never read again),
`lastCode` the code of `lastDisconnectReason`. `watched` are the sockets whose
closed promise leads to `monitorHelper`. `task` is where each promise chain
stands and which socket it waits for: one for each socket (`connectTask`), one
for the `disconnectTask` of `end()` and one for that of the recovery from sleep,
one for the sign-in that "authfail" sets off. `recovering` counts the requests
to `/renew` under way, `timers` the timers of 3 s, each by the socket that was
the context when it was set; `ticking`, `late` and `wasSignedIn` stand for the
clock of `keepAlive`.

A browser runs one event to its end, promise callbacks included, before the
next. The model keeps that order: events (`Opened`, `Closed`, an answer, a timer,
`Tick`, `End`) wait until no callback is due (`Quiet`); of the callbacks
`Monitor` comes first, because `monitorHelper` hangs on the promise that
`socketCloseHandler` settled, then the error handlers of the tasks in any order,
since how many promises lie between differs from path to path. Which handlers
belong to which socket is not kept where the code does not keep it: the open and
close handlers of any socket read and write the current context.

Abstracted: the identity is computed before the socket opens; `connect()`,
`reconnect()` and the abort signal are not used by `index.js`; close codes are
kept by what `monitorHelper` does with them; sleep is a tick that comes more
than two intervals late; one sign-in after "authfail" and one recovery from
sleep at a time. The server may close, refuse, or stay silent at any moment.

### Controls

`on` is the class "switched-on" of each control on each page, `srv` the server's
map of states, `up` and `down` the messages between them, in order for each
page. `task` is `RepeatControl`'s task: `live` until it is finished, `held`
while its handle is that of a running interval, `leaked` the intervals whose
handle was overwritten. `timers` counts the timeouts of a simplified switch
(250 ms) or of a finished task (0 ms), `asked` the answers `sendConf` waits for.

`Tap` is `click` of each class down to the messages `index.js` sends;
`notifyGroupMembers` is part of it, as is what it says in whose silence. The
server's part is the handlers of "kb" and "repeat" with the notification of the
others. `Authorize` is `onauthorize`: controls are reset, unlocked, and told
the server's states, in any order. `Disconnect` loses what is under way.

Users act whenever their page is not locked, also while messages are under way.
Two of them who act on one control, or on one group, at once may end up apart
for ever, because each page applies what the other did: page 1 shows what page 2
said and the other way round. `apart` is the history of that: what a user or a
timer does on a page *meets* a message about the control or a mate of its group
that the page has not heard yet (`Met`, `Unheard`), or a timer turns off what
another page is just turning on (`Crossed`). A long tap, which changes only its
own page by intention, sets it as well. `Covered` are the controls of which the
groups are told: switches and oneshots, and whatever is in no group; repetitions
and memos turn their groups off in silence, and the server tells nobody when a
remote repetition ends.

### Gestures, Shield, Pads

One button, or up to two fingers, on one element, for each kind of handler (a
control, a memo, a direct control, `touchEventHelper`). Handlers hear touches
and the mouse alike. Of a touch whose events no handler prevented a browser
makes mouse events: `compat` says that a mousedown is due (`CompatPress`, before
or after the touchend, in either of the orders that `lib.js:1494` names) or that
its mouseup is (`CompatRelease`); `StartPrevented` and `EndPrevented` say which
handlers prevent them, which those of a direct control never do. A timer has
ticks left and may fire late. `armed` says that a press was begun whose call is
not yet made, `strayed` that a release or a start was missed because the control
was disabled or the element does not hear that event, `parted` that one release
has let go a direct control that another finger still holds.

`Shield`: two thumbs; `timer` is that of 500 ms, `complete` that moves are
ignored, `chain` that a transition is attached which ends that. `Pads`: a row
of heads, with `at` the canvas' `touchToWidgetIndex`, `activations` its count,
and `body`, `hold` those of a head. A frame moves what is rendered; where the
head is caught is kept apart (`body`), as in the code.

### Navigation

`hash`, `current`, `screen`, `index` and `page` are `window.location.hash`, the
router's path, `currentScreen`, the swiper's index, and `currentPage`. Changes
of the address are events queued by the browser. `ends` counts the listeners of
`transitionend`: each change of page adds one and all run at the end of the
transition, or at that of an inner element (`InnerEnd`). `update` is the idle
callback that writes the address; it ends and begins the router around it.

The swiper's container has a place of its own: `transform` is the one it has,
`nextTransform` and `nextTransition` what the next frame makes of it
(`animationFrame`), `moving` that the transition to it runs, `held` the lock of
a finger, whose `Drag` moves the container too. A swipe to where the container
already is asks for no frame and no transition: `timeouts` are the timers that
call `afterEnd` in their stead (`lib.js:4513`), and what was due for the next
frame stays due. The lock that the user sets on the swiper
("user_choice"), under which a resize is not heard either, is not modelled, nor
is the underlay, which follows the container.

### Editing

A view is on a page (`refs`), in an area, perhaps added or removed by the user;
`areas`, `gone`, `marks`, `customs` are the rubrics of the store. Each edit is a
record in `ops` from its tap to the end of its animation, and changes places
and store then; `selected`, `zones` and the handlers on the document are the
closure's. `shown` is the page on the screen, `routed` that of `router.path`: a
swipe changes the first (`Swipe`), the Back button or a link the second (`Go`),
and either comes after the other some time later (`Follow`), at any moment of
the edits, open windows included. `edited` is the router's page when the mode was
entered, which its handlers use whatever page is shown then, but for the page a
view is added to, which is the router's once the window is closed. `strayed` is
the history of two things: an edit that may have got past the locks of the zones,
and a view added to one page and recorded on another. `LoadedRef`, `LoadedArea`, `LoadedCustom` say what a
reload would build, from the store and the declarations only.

### Configuration

`showing`, `waiting`, `heard`, `hides` are the four stages of a window: on the
page, awaited by who opened it, with its own handlers, with timers that hide
it. Attributes are one attribute of a control and of its views, with the view's
own value or none (the prototype chain). `form` holds both forms of the
control's window with the flag of what was typed. A search runs in batches.

### Widgets, Limiter, Overlay

`Widgets`: n-th activation, n-th widget; `queue` is what waits on the promise,
`flushes` the callbacks nobody cancels, `frame` and `draws` tell the number of
the next frame from the frame itself, `sets` counts handlers on the canvas.
`Limiter`: `js` the joysticks with owner and due `sendState`, `net` the values
last heard of, `list`, `stale`, `due` of the synchronisation. `Overlay`: a
region is the version of the layout it was computed from; `asked` the
evaluations in the worker's order, `tasks` the callbacks due. `reworks` and
`configured` are the measurings under way after a change of layout and after the
configuration of a control (`Configure`), which may have views on other pages;
its end (`Configured`) invalidates the page there is by then. Measuring is cut
short by the next one (`Measure`), also when another screen is built, and what
it would have invalidated is not.

## Runs

| Run | Result | Instance | Shows |
| --- | --- | --- | --- |
| `sessions` | passes | 2 slots, 2 identifiers, 1 collector, 4 objects, instants 0..3, timeout 1 s | `OneHome`, `NoLostClose`, `CountCoversSlots`, the lifecycle refinement, `OwedIsClosed`, `ExpiredLeaves` |
| `keyboard` | passes | 3 keys, reports of 2 keys, 2 dangling commands, queue of 2; a joystick button, 2 axes and a widget | `KeyboardShowsDangling`, `AxesHeld`, `TaskGoesOn` |
| `services` | passes | 2 tags and anonymous units, 3 units, interval 3, runs of 0 or 1 tick; 3 controls, 3 values, threshold in steps of 1 | `TagsHold`, `Punctual`, `RunsAsAsked`, `NoneStarves`; `MapHolds` |
| `ws_session` | passes | 1 session object, 3 descriptors, both tasks | `NoStaleSignIn`, `NoteIsDue`, `DepartureIsTold`, `EndedIsCut` |
| `client_socket` | passes | 3 socket names, 1 recovery from sleep, server with keep-alive | `OneSocket`, `Watched`, `AvailableIsReal`, `LostIsRetried` |
| `controls` | passes | 2 pages, 7 controls: a group of two switches, one of a switch, a simplified one and a oneshot, 3 in no group; a message under way when a user acts | `StatesAgree`, `OneOfGroup`, `NoGhostRepeats`, `RepeatsGoOn` |
| `touch` | passes | 4 ticks to a long tap, 2 of delay; 2 thumbs, 2 parts, 6 inputs; 2 fingers, 2 pads, 5 events; 2 widgets, 7 moves; 2 views, 2 joysticks, 6 steps; 2 pages, 4 acts | `GesturesHold`, `PressActsOnce`; `ShieldHolds`; `PadsHold`; `WidgetsFollow`; `ShowsAxis`; `ShownIsCurrent` |
| `page` | passes | 4 pages on 2 screens, 5 addresses, 3 acts; 2 pages, 3 areas, 5 views, 5 acts; 2 views, 3 values, 6 layouts, 2 controls to select, 7 acts | `NavigationAgrees`, `WalksSettle`; `EditsHold`, `ModesFollow`, `ControlsReturn`; `WindowsHold`, `StaysInherited` |
| `stuck_key` | violated | a key is held, a joystick button pressed | `HostShowsDangling` |
| `control_collected` | violated | 2 controls, threshold 1 | `ImplementsStates` |
| `control_overrun` | violated | 3 controls, threshold 1 | `RealIndices` |
| `page_awake` | violated | as `page` | `OnlyShownRuns` |

Several invariants of one component are conjoined under one name
(`NavigationAgrees == TypeOK /\ AddressIsShown /\ ActiveIsScreen /\ OneAwake`);
each is defined and commented on its own in the component's module. Types of
`SessionManager`, `WsSession` and `ClientSocket`, and `OnlyExpiredLeave`, are
proved and no longer run.

Exceptions. Some properties carry a history variable that remembers a situation
in which the code does not keep them (`late`, `overrun`, `given`, `apart`,
`strayed`, `parted`, `hasty`, `lost`, `overtaken`, `misled`, `belated`,
`renewed`, `broken`, `skipped`, `kept`, `reused`, `failed`, `halved`). Each is set at the step where it happens, is named in the comment of
the property, and listed under Known divergences below: outside of it the
property holds for every order of events. The models take those steps as the
code does; nothing is left out of them to make a property hold.

Why the bounds are enough. Sessions: a hazard needs an expired session, the one
that takes its slot, a revived or renewed one with the same identifier, and an
attempt that fails; four objects in two slots give all of these, and with a
timeout of one second and four instants a session can expire, be prolonged and
expire again. Keyboard: two dangling commands that overlap, overflow a report,
and share it with a press need three keys and reports of two; a queue of two
holds a command behind the one executed. Scheduler: with three units, one can
run while a second is late and a third waits in `unitsShadow`, and an erased
unit can coexist with two live ones. Control map: three controls are enough for
a value that two share and a third one that is overwritten. WebSocket sessions:
the properties speak of one session each, and sessions meet only in
descriptors; three descriptors allow a socket that replaces another, a queued
close, and a third one that takes a closed one's place, and the session's name
is used again for a new session once the old object is gone. Client socket: a
second socket at once comes only of a recovery from sleep, and a third name
serves the connection that replaces either; a name is used again once nothing
refers to it. With a second recovery the same situations repeat. The theorems
make the safety part of `sessions`, `ws_session` and `client_socket`
independent of the bounds.

Controls: a page that acts and one that hears, in either direction; a group with
a control of each kind that turns others off, one repetition here and one on the
server. One message may be under way when a user acts (`MaxQueue = 2`), which is
what a user can meet; what the act causes is not bounded. The pages are alike
(SYMMETRY), the controls are used in the sets of `Used`: controls that share no
group never touch each other's state, and are used one after the other. For
pages, controls, groups and messages under way of any number there are the
theorems. Touch: a late timer must be able to be overtaken by another press,
hence a delay of a double tap's time; two fingers and two pads give every
exchange between neighbours. What is drawn, in `touch`: a widget freed and its
successor on the same canvas; two views of which one owns the axis; the page
shown and another, and four acts: turn, change, turn back, resize. Page: a
screen with neighbours on both sides, two addresses for one page; an edit
exchanges two views, a third comes from the list of orphans, a fourth stands on
the neighbouring page, and five acts allow two edits to overlap and an exit and
an entry between their halves; seven acts open a window over another, close
both, and open one again.

Deadlock is checked in `sessions`, `keyboard`, `services`, `ws_session` and
`controls`. A page whose session was closed for good (3002), or that has ended,
waits for nothing, and in `touch` and `page` the bounds on what the
user does end every behaviour.

### Known divergences

Four runs expect a violation, of something the repository says:

* `stuck_key`: `executeCommand` pushes the reports of the command's devices
  only, and notes all the same that dangling keys are no longer shown. Dangling
  keys of a device the command does not touch stay down while it is executed,
  against README.md:508, and if "up" comes before the task has been idle for
  30 ms, the key is taken off the list and nothing is reported: it stays down.
* `control_collected`: `collect` overwrites values that are still referred to.
* `control_overrun`: of more controls than values, which share them, `collect`
  gives the last ones positions from `v.size()` on and writes there before it
  resizes (`ctrlmap.h:160`, 165), against the comment in 36.
* `page_awake`: `transferPage` returns nothing if the page is the one before.
  Two swipes that end in one transition call it twice for the same page,
  `currentPage` is undefined, and the page shown in between is never put to
  sleep (`index.js:1450`, against the comment in 1271).

Others came up while the models were written. They are in the models; the
properties except them as said above, or a smaller instance shows them.

* Keyboard. For an axis and a mouse button in one combination the press type is
  read from the joystick, where there is none: the button is pressed and not
  released, against release.md:179-180 (`compositeTask.h:648`). The guardian of
  a rejected direct access flushes all the same, may take the endpoint between
  the task's wait and its report, and the release of a key is dropped
  (`compositeTask.h:459`).
* Sessions. The CLOSE handler looks only for the mark of a note sent, so the end
  of a session that never signed in is announced as the departure of a client
  without a name (`wsproto.h:570`). A sign-in that httpd has begun when the
  scheduler removes the session and tells its departure is announced all the same
  (`wsproto.h:225-247`): the others believe in that client for ever. `late` is
  the history of it. A ping is the one message that does not look for a change
  of socket (`wsproto.h:169-182`): on a new socket it is answered as if the client
  had signed in there, until the first other message.
* Socket. A page timed out in its sleep may never connect again
  (`lib.js:557-561`), a recovery from sleep may leave two sockets (763), a timer
  may open a socket after `end()` (547).
* Controls. A repeat control in a group turns the others off in silence: other
  pages learn it only by the group's rule, and the server keeps them all as on
  and tells a page that signs in of them all. `sendConf`'s timeout turns a remote
  repetition off here while it goes on there; the end of a counted one is told to
  nobody. Two users who act on one group at once, or one who turns a counted
  repetition on while the page that counted it reports its end, leave the pages
  apart until one of them signs in again: nothing compares what they show with
  what the server holds. `callCtrl` reads an empty name
  (`substring(sep + 1, sep)`) and throws for every "call:id.action".
* Gestures. A direct control ignores its release while it is locked, and prevents
  no default (`lib.js:3080-3095`): after a touch the mouse events a browser makes
  of it may press its key a second time, once the finger is gone, or let it go
  while another finger holds it, as does the release of a second finger. The
  memo's tap may be overtaken by its own late timer.
* Navigation. A link that leaves a screen while a swipe on it is unsettled is
  overwritten by the late address of the swipe (`index.js:2013`). Two changes of
  the address within a frame, to another page of the screen and back, leave the
  container on the other page while all else is on the first: the second swipe
  finds the container where it should be and does not take back what is due
  (`lib.js:4494`). The timer of such a swipe uses the page it was for, also when
  the swiper has gone on (4513). A link to a page without neighbours, followed
  while a finger holds the swiper, removes the handlers that would let it go
  (4555): it stays locked until the swiper is resized.
* Editing. If the Back button or a link changes the router's page while the window
  that chooses a control is open, the view is added to that page and recorded for
  the page the mode was entered on, where a reload shows it (`index.js:3050-3064`).
  An exit and a new entry within the animation of the exit
  unlock the new mode (3281); a page without controls never unlocks it (3277);
  an orphan picked while one is on its way shares an area with it.
* Configuration. A size of the font in rem, which the window takes
  (`index.html:4201`), makes the setter throw after half the layout was set
  (`lib.js:3853`); a value marked as "owned" is lost by a reload if the control
  has the same value then; a window shown again while it hides vanishes; the
  control's window, opened while it is showing, builds its forms for the other
  view and gives the result to the first.
* Widgets. A flush that enables handlers cannot be cancelled, so unlocking and
  locking within a frame leaves them on a locked control; a page put to sleep
  or woken during a refresh ends with the wrong animation (`widget.js:4160`); a
  widget freed during a refresh moves again once its page is shown.
* Pads. A finger that slides straight to the neighbour makes the new pad, not
  the old, let go (4246), and a lock tells "mouseleave" without an identifier,
  which releases nothing (4354).
* Shield. The reserved part may be chosen by a selection, `activate` throws and
  the selection stays begun (`index.js:450`); a lock during the 500 ms leaves a
  selection behind; a refresh leaves moves ignored.
* Limiter. A reset does not tell the view that last moved the axis (129); a view
  let go unmoved after a change passed it by shows its old value; a
  synchronisation within the 20 ms of a local change, or a return to a joystick
  within the 20 ms of its own send, writes the older value.
* Overlay. `invalidate` looks for an evaluation by the page's name among keys
  that are numbers of requests (`widget.js:4560`), so that an outdated one is
  used; a page left in edit mode keeps its old regions. The configuration of a
  control invalidates the page there is when the control has been measured, and
  no other that shows it (`index.js:2762`); measuring that begins before another
  has ended cancels the invalidation due after the first (1326).

## Fairness

* SessionManager: a call once begun runs to its end (weak fairness of its
  steps), and "server gc" runs for ever (`main.cpp:461`, repeat -1), which
  `Scheduler`'s `NoneStarves` supports. Requests and time are not fair.
* WsSession: a handler once begun runs to its end (weak fairness of the steps
  of each handler), and a close job is run however many messages come (strong
  fairness of `RunClose`): httpd serves its queue of jobs in every turn of its
  loop. Clients, requests and the collector are not fair.
* CompositeTask: weak fairness of the task's own steps, of the transfer (the
  host polls the endpoint) and of a direct access once begun. The steps that
  need a mutex or a ready endpoint (`CollectAxis`, `LockFlush`, `AwaitReady`)
  are strongly fair: the task asks for the mutex in a blocking call, which
  FreeRTOS grants to the highest waiting task when it is released, and polls
  the endpoint far more often than a widget sends.
* ClientSocket: callbacks that are due run, timers of 3 s and the tick expire
  (weak fairness): the browser's event loop. Neither the server, the network,
  the user nor `/renew` need ever act; sleep delays timers, it does not stop
  them.
* Scheduler: weak fairness of the task (the highest priority of the
  application's tasks) and of time.
* Navigation: queued events are delivered, transitions end, timers and idle
  callbacks run (the latter have a `timeout`), frames come. Links and touches are
  not fair, nor is the lifting of a finger from the swiper.
* Editing: an animation ends (`animationFinished` has a deadline of 5 s) and
  frames come.

In `services` and `page` these conditions are guarded by `part`, so that they
ask nothing of the component that stands still. All other properties of the
browser's components are safety properties and need no fairness.

## Proofs

`SessionManagerProofs` proves, for every number of slots, identifiers,
collectors, sessions and instants, from the named ASSUMEs of `SessionManager`
(there is a slot; httpd is not a collector; the bounds are natural numbers):

* `TypeCorrect`, `CountIsSafe`: `TypeOK` and `CountCoversSlots` are invariants.
  `count` needs that each call agrees with what it holds (`CallsAgree`) and a
  lemma that emptying a set of slots lowers both sides alike.
* `LeavingIsDue`: the action property `OnlyExpiredLeave`. The point of the proof
  is `CallsAgree`: a session seen to be expired is still expired when the lookup
  comes back for it with the exclusive lock, because only httpd prolongs and
  httpd is the task that looks.
* `OneHomeEach`, `CloseIsNeverLost`: from the inductive invariant `IInv` of
  theorem `Ownership`. `OneHome` alone is not inductive: that a session about
  to be placed is nowhere yet needs `MadeOnly` (nothing refers to an index not
  given out), and that what a task owes is owed by no other needs both parts of
  `OneHome` at once. The step is split by action; removals share one lemma.
* `LifecycleImplemented`: under the mapping of `SessionManager`, initial states
  are those of `SessionLifecycle` and every step is one of its steps or changes
  nothing it sees. Most actions leave the stage of every session alone
  (`StageUnchanged`); removals, placements and `Invalidate` have a lemma each,
  all under `IInv`, which the mapping needs: a session announced as closed must
  have been removed before, and by this task.

`WsSessionProofs` proves, for any sessions and descriptors, from the ASSUMEs of
`WsSession` (the two tasks differ, `None` is neither a session nor a socket):

* `Agreement`: the inductive invariant. `SignInsHold` says when the flag
  AUTHORIZE can be trusted, `HandlersHold` that a task handling CLOSE holds a
  session no longer stored, `NotesHold` what is known between a sign-in and its
  announcement and between the two halves of WS_CLOSE. `NoteIsDue` is not
  inductive without the last two: it is because the sections of the scheduler
  touch only sessions that are no longer stored that they cannot come between
  httpd's. A copy of the flags that a ping has read may hold a sign-in of an
  earlier socket: what is said of it is that SOCKET_CHANGE is still set, which
  only a message of the same task could clear.
* `TypeCorrect`, `SignInIsFresh`, `DepartureCanBeTold`: the invariants of the
  run `ws_session`, from `Agreement`.

`ClientSocketProofs` proves, for any socket names, any number of recoveries and
servers with and without keep-alive, from the ASSUMEs of `ClientSocket` (names
of sockets, of chains and `None` differ):

* `Invariance`: the inductive invariant. `Alone` says that until the first
  recovery the context is the only socket, and that what would make another (a
  close `monitorHelper` has to look at, a renewal under way, a timer set for the
  current context) is due only when the context is dead, and one at a time: this
  is why the three ways to reconnect exclude each other. `Asked` and `Parting`
  say that no sign-in is under way that could be answered once `end()` has taken
  the session's callbacks away; without them `AvailableIsReal` is not inductive.
* `TypeCorrect`, `OneAtATime`, `NoLossUnseen`, `AvailableHolds`: the invariants
  of the run `client_socket`.

`ControlsProofs` proves, for any pages, controls, classes, groups, counts and
numbers of messages under way, from the ASSUMEs of `Controls` (each control has a
class and a count, simplified ones are switches, there are finitely many):

* `TasksFollow`: the inductive invariant. `OneOfGroup` is inductive by itself,
  since whatever turns a control on turns the rest of its group off in the same
  call (`GroupsKept`). `NoGhostRepeats` and `RepeatsGoOn` are not: they need
  that a repetition under way is always shown as on (or turning it off would not
  find its interval), that its interval is there exactly while the page is not
  locked, and that only remote controls wait for answers, because a lost
  connection turns off what waits without stopping any task (`AskedRemote`). The
  delicate step is `Authorize`: states are reset before controls are enabled, so
  that nothing is resumed whose control has just been turned off. All uses of
  `switchTo` share the lemma `SwitchedHolds`. Messages need no types for it.
* `GroupsAreExclusive`, `NoRepeatIsLost`, `RepeatsAreResumed`: the invariants
  `OneOfGroup`, `NoGhostRepeats` and `RepeatsGoOn` of the run `controls`.
* `PagesKeepInStep`, `PagesAgree`: `StatesAgree`. It speaks of the moments when
  nothing is under way, so the inductive invariant (`InStep`) has to say at every
  moment what the messages under way will do: `Turns(s, n, c, X, Y)`, the first
  `n` messages of `s` take `c` from its state in `X` to its state in `Y`. A page
  that has said everything it had to say of a control will show what the server
  holds (`ReadersFollow`); while it has not, what others said does not touch the
  control there (`SpeakersAreLeft`), and the last thing it said is what it shows
  (`SaidIsShown`). Groups need the rest: "switched-on" also turns off the rivals
  at whoever reads it, and that is not announced by it. It is by what comes
  before it: in every queue all rivals that are on at its reader are turned off
  first (`ServerTurnsOffFirst`, `PagesTurnOffFirst`, and `ServerHoldsOne` for the
  replay at sign-in, which comes in any order). For a new message to keep this,
  nobody else may be turning the same control or a rival on (`OneTurnsOn`,
  `NobodyAnswers`), which is what `apart` tells. One lemma per action
  (`...Agrees`); sequences are handled by the lemmas about `Turns` (nothing,
  appending, taking the head). `ControlsAssumption` (finitely many controls) is
  needed because a group is announced, and the states are sent, one by one.

`KeyboardProofs` is about `CompositeTask`, from its ASSUMEs (commands name
buttons and positions, a button belongs to a device, reports hold at least one
key, what sits in the low byte of the joystick's buttons is a joystick button):

* `AxesAreHeld`: `AxesHeld` of the run `keyboard`, whatever commands clients
  send and whatever direct access does between two steps. The inductive
  invariant says who holds the joystick's mutex (`Locks`), and that of the axes
  a command moves, those no longer left to write are where it puts them and
  stay there while the task holds the mutex (`Written`).
* `KeyboardIsShown`: `KeyboardShowsDangling` of the same run, for any commands
  of someone who uses the keyboard only. What the host shows is carried through
  the whole of a command: `Shown` says what the report built so far and the
  host have in common at each point of the loop, `Planned` and `Flushed` what
  the flushes that are left will still change. The steps of the plan are few,
  but a typed text is any sequence of keys; what its flushes leave is shown by
  looking at the last of them that matters, which exists because a set of
  naturals has a least element (`LeastOfNats`, from the library's
  well-foundedness of the naturals).

`ServicesProofs` proves, for any tags, intervals and numbers of units, from
`TagAssumption` and `IntervalAssumption`, of `Scheduler`:

* `ListsAgree`: the inductive invariant of the lists. `OneLivePerTag` is of the
  two lists put together, which a merge leaves alone, but every other step works
  on one of them: `LiveOnce` says the same within each list and between the two.
  `CallIsFirst` says that a unit about to be called has not yet run since it was
  unscheduled; it is what makes the late run the only one, since the next time
  the unit is due its mark is seen. `Shape` has the position the task keeps while
  its handler runs inside the list: units leave it only by the task itself.
* `TagsAreSafe`: `TagsHold` of the run `services`.
* `PunctualIsSafe`: `Punctual`, which is about how late a unit may get. What
  bounds it is the sum of the runs of the others since the task woke, so that
  the proof counts the units that have had their turn and those that have not
  (a set of positions whose cardinality an erase or a merge moves), and needs
  `LoadAssumption`: what has run is not due again before the task sleeps.
* `RunsAreAsAsked`: the action property `RunsAsAsked`. Its invariant `Counts`
  ties what a unit has left to what it has run, and says that a unit with
  nothing left is the one the task is about to retire.

and of `CtrlMap`, for any controls, values and steepness:

* `MapIsSafe`: `MapHolds`, which is `ThresholdStays` and, until a collection has
  written beyond the values, `PositionsHold` and `GivenHolds`. The positions need
  that the order of a collection reaches every control, which follows by counting;
  that a control keeps the state it was given while others are added, share it or
  go needs that a value is added only if there is none like it (`Position`,
  `Known`); the threshold is not inductive: from a threshold of one and a
  half steps the code would go down to half a step. It never stands there because
  it moves by whole steps (`WholeSteps`). That each turn of the loop of a
  collection leaves values and positions of their types is shown for the first
  turn that would not, again by `LeastOfNats`.

`TouchProofs` proves, from `TimesAssumption` (a double tap is shorter than a
long one) and `PadsAssumption` (fingers are not named 0, as in the code, where 0
is no finger):

* `TimersAreKnown`: the inductive invariant of `Gestures`. That one press acts
  once cannot be seen from the press: a timer of an earlier one could act later,
  since a timer that its variable no longer refers to is not cleared.
  `TimersKnown` says that there is none and that a timer means a press in
  progress, `ProgressIsArmed` that a press in progress may still act, and
  `TimersTell` that the long timer means a finger that is down and the timer of a
  short tap one that is up. A memo whose second tap comes after the double tap's
  time but before its late timer is where this ends, which the history variable
  `strayed` records.
* `GesturesAreEnded`, `PressesActOnce`: `GesturesHold` and `PressActsOnce` of the
  run `touch`, for any times and any delay of timers; the second is an action
  property, from the invariant. A direct control has no timer; what it shows
  follows from the fingers and from the mouse events still to come of them.
* `FlagsAgree`, `ShieldIsSafe`: `ShieldHolds`, for any thumbs and parts. A second
  thumb's end clears the timer of the first only if the timer runs exactly while
  a thumb rests (`OneAtATime`), and only while the handlers are on the canvas.
* `PadsAreSafe`: `PadsHold`, for any fingers, pads and values. It has both an
  invariant (a head is held by a finger that is on its pad, the canvas counts
  those that are) and a step: one push presses one key. An event goes through up
  to three heads' handlers, as leave, enter and itself, so that the proof follows
  the heads from one handler to the next and shows that one of them changes, and
  that one once.
* `AxisIsAlwaysShown`: `ShowsAxis`, for any views, joysticks and values (`Top` is a
  natural number, `LimiterAssumption`). When something is due a view may show
  nearly anything, so that the invariant compares a view with what will be shown
  to it: the axis it owns until its send is due, the value last heard of after
  that, and for a view that owns neither the latter as soon as nothing is due
  (`ViewsShow`); the value last heard of is the axis unless a send is due
  (`NetFollows`), and the list of a synchronisation is of the views that move
  (`ListFollows`). What moves is counted (`AwakeCounted`), or the timer of the
  synchronisation would not be set. The proof found a case that six steps do not
  show: a control that goes to another joystick and comes back within the 20 ms of
  its own send finds the older value in `netValues` and writes it to its view.
  `kept` now names this case too.
* `QuietOverlayIsCurrent`: `ShownIsCurrent`, for any pages, layouts and number of
  changes. An evaluation of an older layout may be in the cache or on its way
  only while something is left that clears it: the page is being edited, an
  invalidation of it waits, a configuration of it is being measured, or it is one of the exceptions (`CacheCurrent`,
  `AskedCurrent`). `Coming` says what brings the page asked for last to the
  screen at each moment: a selection that waits, an evaluation, a callback, or it
  is there.
* `WidgetsAlwaysFollow`: `WidgetsFollow`, for any number of activations, moves,
  locks and resizes. A widget is built two frames after its page is active, and
  what the page does until then waits on its promise. The invariant says of the
  queue that its last nap is the page's (`LastNap`), of the flushes that each
  finds its widget at the stage it is for, and that two of one widget mean a hasty
  lock (`FlushesAgree`), and of a refresh that the animation it will restore is the
  page's (`Naps`). Building runs the whole queue at once, hence an
  argument along the queue (`After`), made without induction: of the positions
  where it fails there would be a least one.

`PageProofs` is about the three parts of the page, for any routes, screens,
views, areas, values, layouts and names:

* `NavigationIsAgreed`: `NavigationAgrees`. Address, router, swiper and pages
  agree only when nothing is under way, which says nothing of the steps before.
  The invariant says of each queue what it ends with: the last event still to be
  delivered is the address (`AddressComes`), the last frame draws the swiper's
  index (`DotComes`) and brings the container to it unless a finger holds it or
  it was misled (`ContainerComes`), the last timer is for the page of the index
  where nothing else is due to bring it (`TimerComes`), the ends of transitions and the idle callback leave the
  page the address leads to (`PlaceComes`), and every page but the one shown has
  been put to sleep or will be (`SleepComes`). From `RoutesAssumption`: a page is
  on its screen, each once, and an address that is no page leads to a page alone
  on its screen (the default page and that of the 404, `index.html:4090`, 4141).
* `WindowsAreKept`, `ViewsStayInherited`: `WindowsHold` and the action property
  `StaysInherited`. The proof looked for a hypothesis that was not there: a
  control's window that is told to show another view while it shows one takes
  the form of the view it was told, while the result goes to whoever awaited the
  first (`index.js:2733`, `lib.js:4878`, 6126). `StaysInherited` therefore speaks
  of windows that show the form of the view they were opened for.
* `ModesAreFollowed`, `EditsAreKept`: `ModesFollow` and `EditsHold`. An edit that
  was begun and has not ended claims the areas its views leave and those they go
  to. `Alone` says that no two edits claim one area (the lock of a zone is held
  from the gesture to the end of the animation), `Course` that what an edit will
  do when its animation ends meets the page as the gesture found it, and `Kept`
  that the store, loaded, gives the page as it is. `strayed` excepts an edit that
  got past the locks of the zones (`index.js:3281`, 3277) and a view added to one
  page and recorded on another (3050-3064). From `EditingAssumption`:
  a page declares at most one view per area, which `validatePageArea`
  (`index.js:1195`) demands.

Only model-checked: liveness (`OwedIsClosed`, `ExpiredLeaves`, `LostIsRetried`,
`DepartureIsTold`, `EndedIsCut`, `TaskGoesOn`, `NoneStarves`, `WalksSettle`,
`ControlsReturn`), since neither fairness nor ENABLED is in the prover's reach.
Every safety property of the passing runs is stated by a theorem. A loop the code
runs over data of any length (`Position` of a control in its list, the flushes of
a text) is proved by least counterexamples where it is proved (`Position`, the
queue of a widget); what a fold computes is not.

## Plan

Done: the core of the board (sessions, sockets, scheduler, control map, keyboard
task) and the browser's logic (socket, controls, gestures, canvas, joystick,
overlay, navigation, editing, windows), with the proofs above.

Left, in this order:

1. the spin lock below the critical sections (`critical_shared.h`) and the
   queue of notifications with those that cannot be written;
2. the count of a session's sockets and the contexts of plain requests;
3. in the browser, the windows of lists and the validation of inputs.

## Not modelled

On the board: the heartbeat that pings write, the collector of idle sockets, plain requests
and the count of a session's sockets, the queue of notifications itself and
those that cannot be written, the keyboard's lights, the spin lock below the
critical sections, packing of reports, the grammar of commands, text of messages
and pages, hashing of identifiers, compression and cache headers, storage in
flash, WiFi, the DNS server (vendored from examples of ESP-IDF), and the ESP-IDF
itself other than by what its calls do to the state above.

In the browser: rendering (canvas, styles, animations other than by their
frames and ends), the geometry of `overlay.js` (boxes, clusters, borders: a pure
computation over pixels), notifications on the screen, clock, statistics and
translation, parsing of page descriptions, validation of inputs, the buttons of
the joystick, resetting a page to its declaration, switching the overlay off,
and the parts of the toolbar that only show or hide something.
