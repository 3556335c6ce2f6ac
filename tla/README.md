# A TLA+ model of the bathroom and toilet controller

The repository is the firmware of an ESP32 that runs the light and the fan of a
bathroom ("Bath") and of a toilet ("Rest"): motion and distance sensors, a
humidity sensor, two wall switches, four relays and a web page served over a
websocket. The program is a dozen FreeRTOS tasks that share one table of
parameters and talk through short queues which drop what does not fit. This
directory holds TLA+ modules for those tasks, TLC configurations that check
them on small instances, and TLAPS proofs, for every size of the queues, of all
their safety properties and of what the tasks of a room achieve together.

All file names below are those of `src/main/`.

## 1. The system

### Shared state

* `DataParmTable` (`BathInitGlobal.h`): 31 parameters; statuses, sensor values
  and settings. Guarded by `DataParmTableMutex`, which every task holds only for
  a few assignments and never across another blocking call. A critical section
  is therefore one action of a module.
* Control queues, one per relay (`BathLightSendToCtrl`, `BathVentSendToCtrl`,
  `RestLightSendToCtrl`, `RestVentSendToCtrl`) and sensor queues (`IrIsrQueue`,
  `MvIsrQueue`, `DistIsrQueue`, `HumIsrQueue`, `BathLightIsrQueue`,
  `RestLightIsrQueue`): two places each. Every `xQueueSend` passes a timeout of
  zero and its result is ignored: **a message that finds the queue full is
  dropped**. This is the source of most of what is hard here.
* `SendWsQueue`: ten places, requests to refresh web pages; likewise dropping.
* `SocketArgDb`: the sockets of open pages with the handle of their server,
  written by `SendWsData` alone. `server` in `app_main`: the handle of the web
  server, shared without a lock by `app_main` and two event handlers.

### Components

| Component | Code | State | Operations | Talks to |
|---|---|---|---|---|
| Bathroom light controller | `BathHW.c` `BathLightControl` | light status, relay | serve a message: recompute the light from the table, drive the relay | fan timer, pages |
| Motion detectors | `BathIrMvGPIO.c`, `CheckIrMove`, `CheckMvMove` | last reading, switch-off delay | interrupt, reception, timeout | bathroom light |
| Light-to-fan timers | `CheckBathLightOnOff`, `CheckRestLightOnOff` | light heard of, fan asked for, delay | reception, timeout | fan controllers |
| Fan controllers | `BathVentControl`, `RestVentControl` | fan status, relay | serve a message | pages |
| Toilet light | `RestLightControl`, `CheckDistMove`, `DistIsrSetup` | light status; own idea of presence | sample, compare, sleep, report; serve a message | fan timer, pages |
| Wall switches | `BathRestSwGPIO.c` | debounced level, flips counted | interrupt, debounce, count, decide | light controllers |
| Parameter protocol | `BathMain.c` `echo_handler` | none | announce a new socket; store a parameter, post to its controller, echo it | all controllers, publisher |
| Humidity | `CheckBathHum`, `HumIsrSetup` | fan asked for | sample, hysteresis, rewrite a bad threshold | bathroom fan |
| Page publisher | `BathJson.c` `SendWsData` | socket table, refresh timeout | greet a socket with the whole table, send a change to all, refresh statuses after five quiet seconds; a failed send takes the socket out | web pages |
| Web server life cycle | `BathMain.c` `app_main`, `connect_handler`, `disconnect_handler` | server handle | start at boot, stop and start on Wi-Fi events | page publisher |
| JSON encoding | `BathJson.c`, vendored `jsmn.h` | none | pure functions | |
| Sensor drivers | `BathHumGPIO.c`, `BathDistGPIO.c` | none | I2C and RMT transactions | |

`BathTestEmu.c` and `not_used_AP.c` are not compiled into the firmware, and
`README.md`, `ws_server_example_test.py` belong to the example the project was
started from.

### What is hard

1. *Write, then post.* Each writer changes the table in one critical section
   and announces it afterwards. Other writers and the controller come between,
   and the announcement may be dropped. Is the relay right in the end?
2. *Merged and dropped edges.* Interrupt handlers read the pin when they run.
3. *Timeouts as clocks.* Delays are timeouts of queue receptions: a message
   restarts or replaces the delay, or arrives just as it runs out.
4. *Two deciders.* The toilet's light is decided by `CheckDistMove`, which
   reports only changes, and by `RestLightControl`, with its own comparison.
5. *Messages that fall through.* The fan controllers decide by which cases of a
   `switch` do not apply.
6. *Raw against debounced.* The flip counter samples the pin, not the level the
   debouncer accepted.

7. *Stale handles.* Socket numbers are reused, servers stopped and started at
   the same address, and nobody tells the table of sockets.
8. *Slow calls under no lock.* `httpd_start` and `httpd_stop` block while the
   handle they concern is shared.

`PROJECT.json` lists every hazard with its line and the properties aimed at it.

### What makes each component correct

* Lights: when nothing is under way, the relay is what the table asks: the
  sensors in automatic mode, the switch in manual mode; what is asked for
  persistently is given; in manual mode sensors change nothing.
* Detectors: never stuck at "motion"; see motion; the delay only runs for "no
  motion".
* Fan timers: the fan is asked for only in the light, or in the moment between the
  light going out and the timer being told; it runs in it, and stops after it.
* Fan controllers: manual means the switch; automatic means the last command of
  a source in use.
* Wall switches: no flip lost, none invented, flips counted exactly.
* Humidity: hysteresis whatever is done to the thresholds; lasting air noticed.
* Publisher: a page in the table shows every setting whose last change was posted
  and not dropped, whoever made it, and, whenever five seconds pass without a
  message, comes to show every status, posted or not; an open page is not taken
  out for another one; closed sockets disappear.
* Web server: no server is stopped twice; once the events are handled there is a
  server exactly when there is a connection.

## 2. The modules

Each module starts with a comment that says what it covers. State variables
carry the name of the C variable or parameter they stand for; `pc`-like
variables name the points between two critical sections or blocking calls.
History variables, marked as such, only record; no action reads them.

| Module | Models | Notes |
|---|---|---|
| `RtosQueue` | FreeRTOS queues as used here | external code; a full queue drops |
| `BathLight` | `BathLightControl`; writers `CheckIrMove`, `CheckMvMove`, `echo_handler`, `QuickBathLightSw`; reader `CheckBathLightOnOff` | `WriteVol`, `WebWrite`, `SwitchWrite` are the critical sections of the writers, `Send` their posts; `Receive`, `Decide`, `Actuate`, `Notify` the four phases of the controller |
| `MotionSensor` | one detector from pin to table | `Edge` is the world, `Isr` the handler, one action for each branch of the task |
| `VentTimer` | one fan timer between its two queues | `LightSwitch` and `LightPost` are the controller's relay and the post that follows it; `Timeout` toggles, as the code does |
| `VentControl` | a fan controller and its senders | `Room` selects `BathVentControl` or `RestVentControl`; the commands' senders are free to change their minds |
| `RestLight` | `RestLightControl`, `CheckDistMove`, samples, writers | `Measure` and `SamplePost` are the meter's write and its post; `Take`, `Near`, `Far`, `DelayOver`, `Post` the phases of `CheckDistMove` |
| `Humidity` | `CheckBathHum`, the loop of `HumIsrSetup`, the page as writer of thresholds | the command to the fan is `VentControl`'s `Command("HumData")` |
| `WallSwitch` | a switch: handler, debouncer, flip counter | the post to the light is `Send` of `BathLight`/`RestLight` |
| `Follower` | abstract: an output that follows an input in its own time | implemented by the debouncer of `WallSwitch` |
| `WsPublisher` | `SendWsData` and `SocketArgDb`, all writers of settings and of statuses, pages that come and go | `Receive`, `Greet`, `All`, `Timeout`, `Status` are the branches of the task, one send each; `WsStart` and `WsSetting` the handler, `SwitchStores` a wall switch, `Post` the posts of either (`toPost` holds what they still owe), `ThresholdRewritten` `CheckBathHum`, `StatusChanges` and `StatusPosts` all other tasks; `page` and `stale` the browsers |
| `WebServer` | `app_main`'s start, `connect_handler`, `disconnect_handler` | `httpd_start` and `httpd_stop` are steps apart from the assignment of their result |
| `Bathroom` | the bathroom from sensors, switch and air to both relays | composes `BathLight`, `VentTimer`, `Humidity` and `VentControl`; a step of two components, such as the timer's post to the fan, is one action |
| `Toilet` | the toilet from distance meter and switch to both relays | composes `RestLight`, `VentTimer` and `VentControl` |
| `*_proofs` | theorems about the module they extend | `Bathroom_proofs` also holds those of `BathLight` and `Humidity`, which `Bathroom` extends, and `Toilet_proofs` those of `RestLight` |

How the modules meet: `MotionSensor`'s writes of `vol` and its posts are
`BathLight`'s `WriteVol` and `Send`, there unconstrained (any value at any
time); `WallSwitch`'s decisions are `SwitchWrite` in the lights' modules and
`SwitchStores` in `WsPublisher`; `BathLight`'s `Actuate` and `Notify` are
`VentTimer`'s `LightSwitch` and `LightPost`; `VentTimer`'s `Timeout` is
`VentControl`'s `Command("LightData")`; `WebServer`'s `running` is `WsPublisher`'s,
which lets a server start whenever there is none and stop whenever there is one
and no handler is at work; `Humidity`'s rewriting of the lower threshold is
`ThresholdRewritten`, the page's writes are `WsSetting`, and what the other tasks
store and post are `StatusChanges` and `StatusPosts`, at any time. Nothing checks
these correspondences for `MotionSensor`, `WallSwitch` and `WsPublisher`, but for
`running` (`OneServerAtATime`). For the
tasks of a room it is proved that each may do all that its neighbours' modules do:
`Bathroom` and `Toilet` put the real neighbours together, and each component's
specification holds there (section 4, *Composition*).

Abstractions:

* Time is a timeout that may fire whenever nothing is in the queue (or no
  notification is pending); lengths of delays are not compared. This allows
  every schedule the real delays allow, and more.
* Requests to refresh pages (`SendWsQueue`) are left out of the controllers'
  modules, since they change nothing the controllers read, and are
  `WsPublisher`'s.
* A page's value of a parameter is only *current* or *stale*. A send reads the
  table and delivers in one step: `ParmTableToJson` holds the mutex, and a
  change between its reading and the delivery would have its own post behind it.
* Switching a relay and posting the change to the fan's timer are two steps: the
  timer may run out in between. The posts to `SendWsQueue` that follow are not
  part of the controllers' modules.
* A writer of `WsPublisher` writes in one step, its critical section, and posts in
  as many as it has posts. A status and its post are not tied to each other,
  since not all tasks post what they store.
* A send to an open socket of the running server succeeds; a connection that
  hangs counts as closed. A send with the handle of a stopped server reads freed
  memory: it fails, or succeeds if a socket of that number is open. Fewer
  sockets than lwIP allows never fill the table except by duplicates.
* `httpd_start` fails exactly when a server holds the port. A new server may get
  the address of an old one.
* Parameters take the values the page sends (0 or 1 for switches). What a
  malformed message would store is not modelled.
* Reception of a message and the critical section behind it are separate
  actions wherever another task can tell the difference (`BathLight`,
  `VentControl`, `RestLight`); in `MotionSensor` and `VentTimer` nothing in the
  module reads what the critical section writes and they are one.
* Edges latch the interrupt; the handler runs later and serves what has
  accumulated as one. An edge after its read of the pin latches again.
* In `WallSwitch` the model starts when `LightISRSetup` returns: a flip between
  the debouncer's first read of the pin and the installation of the handler is
  not covered.

## 3. The runs

`tlc -config X.cfg M` for each run of `PROJECT.json`. All queues are bounded by
`QueueLen`; the code has 2.

| Run | Bounds | Shows |
|---|---|---|
| `bath_light` | `QueueLen` 1, any sensor suffices, page changes the use of the IR sensor and an ignored delay | the light agrees with sensors or switch when settled; the fan's task hears; manual mode is respected; persistent wishes are granted |
| `motion_sensor` | `QueueLen` 2 | never stuck, motion seen, quiet reported, no stray timeout |
| `vent_timer` | `QueueLen` 2 | fan is asked for only while the light is on, or the timer not yet told it is off; it runs, stops, and its controller is informed |
| `vent_control` | `QueueLen` 2, bathroom | manual and automatic mode, manual settles |
| `rest_light` | `QueueLen` 1, distances and thresholds 0 and 1 | manual and automatic mode, leaving is noticed |
| `humidity` | `QueueLen` 2, humidity 1 to 4, thresholds 2 and 3 | the fan never chatters; lasting wet or dry air is noticed |
| `wall_switch` | `MAXFIXINT` 3 as in the code; `MaxIrq` 3 edges waiting, `MaxFlips` 4 flips undecided | the debouncer is a `Follower` of the pin; no flip lost, decisions exact, comes to rest |
| `web_server` | 2 handles, `MaxEvents` 3 events waiting | no server stopped twice; server and connection agree in the end |
| `ws_publisher` | 2 sockets, 2 places, 2 handles, one status, one setting that page, switch and `CheckBathHum` write, `WsQueueLen` 1 | settings reach greeted pages, live pages stay in the table |
| `ws_publisher_live` | the same with two statuses and no setting | statuses reach registered pages, closed sockets leave the table |

Why the bounds are enough. A queue of one place already drops, delays and
reorders against the table, which is what the properties of `bath_light` and
`rest_light` are about; with two places the liveness checks exceed a few
minutes. `bath_light`'s safety properties are moreover proved for every
`QueueLen`, every `IrMvAnyAll` and every set of page parameters. Two distances
suffice for `rest_light` because the code only compares: with thresholds 0 and 1
they are below, equal and above. In `humidity`, readings from 1 to 4 around a
threshold of 3 leave exactly the gap of 3 that `NoChatter` asks for. In `wall_switch` two flips already mean
"quick", so four allow a decision while a second series begins; a bound on edges
only stops the switch from moving while the debouncer lags behind by three. In
`web_server` three waiting events allow a loss, a return and a loss to queue up
behind one blocking call, and two handles tell a server from its successor at
another address. In `ws_publisher` two sockets and two places are where a
duplicate crowds out another page, and a queue of one place drops any
message; the table's order of statuses before settings is kept. One setting that
all three kinds of writers change is the hardest case of `SettingsReachPage`
(`NCtrl` 0 makes the switch's two posts name the same setting); for several
settings and any number of switches it is a theorem. With two statuses
the place in the table is read again between sends, after a first that may have
emptied it.

The largest runs are `ws_publisher` (3.5 million distinct states), `rest_light`
(1.6 million), `bath_light` (430 000) and `ws_publisher_live` (370 000); each takes
one and a half to four minutes with two workers.

Two further runs expect a violation. Each states what a comment says of
the program without the provisos the code needs; TLC's trace shows the gap:

* `vent_timer_relit`: "the fan is switched on relative to the light, and off
  relative to the light" (`BathHW.c:508`). A light that returns during the
  off-delay starts the on-delay, whose timeout toggles the fan *off*.
* `rest_light_far`: the light is switched "by one parameter, the switch-on
  distance" (`BathHW.c:404`). The two deciders differ at the boundary:
  `RestLightControl` takes a sample as far if `ONDIST < DISTVOL` (line 187),
  `CheckDistMove` as near if `dist < distOn` (line 425). One sample at exactly that
  distance and a page message light the room; `CheckDistMove` believes it dark
  and reports nothing when the distance grows. A page that raises `ONDIST` to
  the last sample or beyond has the same effect. At boot the distance (230)
  is above the threshold (120), so it takes such a sample or such a page.

Other details met on the way are provisos of passing properties, or built into
the definitions:

* `CheckBathHum` lowers a switch-off threshold that is not below the other one and
  posts nothing (`BathHW.c:477-481`): open pages keep the old threshold until it
  is set again or they reload (`unposted` in `SettingsReachPage`).
* The relay is switched first, its timer told next (`BathHW.c:78-79`, `:214-215`):
  a delay that runs out in between asks for the fan in a room gone dark
  (`telling` in `FanStartsOnlyInLight`). The message that follows starts the
  off-delay, so the fan stops (`NoFanInDarkRoom`, `FanStops`).
* The five seconds of `SendWsData` start again with each message
  (`BathJson.c:171`): messages less than five seconds apart hold the refresh
  off for as long as they go on (`Silences` in `StatusReachesPage`).
* The wall switch's message is dropped when two sensor messages fill the queue,
  so the table may say manual and on while the light stays off
  (`ManualLightFollowsSwitch` asks that the last such message got through).
* A reading of 1 during the switch-off delay, or twice in a row after a merged
  edge, can leave the table at "no motion" while the pin shows motion, until the
  next edge pair (`MotionSeen` excludes merged readings).
* The table is born with both motion values at 1 and the light off
  (`AutoLightFollowsSensors` asks for one message since boot).
* The flip counter samples the raw pin at the end of its 500 ms window: a bounce
  at that moment is stored as the switch's state (`BathRestSwGPIO.c:139`) and,
  since the debouncer sees no change, stays (`TableFollowsSwitch` asks that the
  sample agreed with the debounced level).
* In automatic mode any message from the page gives a fan the state of its
  *manual* switch (`BathHW.c:242`), and a humidity command that `USEHUM` excludes
  falls through to the light's case (`BathHW.c:125`): see `VentOnOff` and
  the premise on the last message in `AutoVentFollowsCommand`.
* `AddSocket` puts a socket into the first empty place before it knows whether
  it is listed further on, and the branch against the duplicate repeats
  the condition of an earlier `break` (`BathJson.c:98`, `:110`): a socket may
  hold two places until its sends fail. A number still listed from a stopped
  server keeps its old handle, so an open page may be taken out at the first
  send and not come back (the exceptions of `LivePageKept`).
* If the station loses its access point while `app_main` starts the server, the
  handlers see no handle, or their own is overwritten by the failed second
  start: a server then runs which no disconnect stops (`raced` in
  `ServerFollowsLink`). No handle is ever freed twice.

### Fairness

All tasks of these modules have priority 1 (the meters 2, the HTTP server its own)
and FreeRTOS time-slices equal priorities, none of the tasks spins, so each is
scheduled again and again: weak fairness of each task's steps. A finite timeout
runs out if nothing arrives: weak fairness of the timeout actions, which are
disabled by an arrival. In `WsPublisher`, too, the five seconds' wait is only weakly
fair: it runs out if from some moment on no message comes. In a house whose tasks
keep posting nothing makes it run out, so the two liveness properties have the
premise `Silences`: either messages cease, or again and again five seconds do
pass without one. It is the only assumption about traffic. Of the two writers
that post to the toilet's light it is asked that one or the other gets to post,
not each of them. A latched interrupt is served. No fairness is assumed of users,
pins, sensors or of senders the module leaves free.

### Mutants

For each property of a passing run, `PROJECT.json` names a mutated definition
(kept at the top of its module) that a plausible slip would produce, e.g. the
`flag` of a controller computed after the status is overwritten, a count not
reset, a switch-off delay not cancelled; the property fails on it.

## 4. The proofs

Checked with `tlapm M.tla`; assumptions are only those named in the modules
(`QueueLen` a positive natural, `IrMvAnyAll` 0 or 1, ...). Posts are reasoned
about by the definitions of `QueueSend` and `QueueFull`.

* `Bathroom_proofs`, on `BathLight`. The argument: *the relay is right, or a message that will
  make it right is under way*. `AutoInv` says so for the automatic light with any
  message (in a writer about to send, in the queue, or in the controller's
  hands), which is why dropped messages do not matter there: a drop means the
  queue holds another. `ManualInv` says so with an "Http" message, so it needs
  that the last one was not dropped; `RelayInv` ties relay to status and
  `VentInv` the fan's view to the last message in its queue. None of the run's
  properties is inductive alone, because each speaks of settled states only.
* `MotionSensor_proofs`. `LastInv`: with no edge outstanding the last reading
  (queued or received) is the pin. `RestInv`: a waiting task that received 0 has
  stored it. For `MotionSeen` the invariant is that readings *alternate* while
  none was merged or dropped, so that a 1 can only follow a 0 that armed the
  delay.
* `VentTimer_proofs`. `PhaseInv` lists which combinations of delay, light and
  fan occur, i.e. what a timeout can mean; `LightInv` relates the light to the
  last message in the task's queue, or to the one still to be posted; `HearInv` says that the task's last message
  among those of other senders in the fan's queue, or the last one received, is
  its word, so that the two properties reach from the light to the fan.
* `VentControl_proofs`. `ManualInv`: the manual status is the switch, or *some*
  message is under way, and any message repairs it. `LastInv` follows the last
  message that was not dropped through the queue to the status. `TimerView` is
  the fan's queue as the timer sees it; three lemmas say how it changes when the
  queue does.
* `Bathroom_proofs`, on `Humidity`. `OnInv`: the reading that asked for the fan
  is above the upper threshold until that is raised. With a lower threshold
  always used at least one below the upper one this gives the gap of three; both
  comparisons are strict. `HumCommandsAlternate`: its posts carry 1, 0, 1, ...
* `Toilet_proofs`, on `RestLight`. `ManualInv` is that of `BathLight`. In automatic
  mode three invariants form a chain, each saying that its stage is right or
  that work is left before it: `SampleInv` from the last sample to what
  `CheckDistMove` believes, through its sleep; `ReportInv` from there to the last
  message in the controller's queue; `LastInv` from that to the status. No link
  holds of the whole way: while `CheckDistMove` sleeps, its belief is old
  although no sample waits.
* `WsPublisher_proofs`. `SettingsInv`: a setting that a greeted page does not show,
  and that is not `unposted`, is with a writer that has still to post it, in the
  queue, or ahead of the loop that sends it to all (for the page's own start: ahead of the loop over the table of
  parameters). `RemoveSocket` clears the first place that holds a socket (which
  exists because `<` on places is well founded, `MinLemma`); the send that fails
  is at that place or behind it, so a page the loop has yet to reach keeps a
  place ahead of it. `LivePageKept` is an
  action property: a place is only cleared by a failed send, and a send to an
  open page fails only with the handle of an earlier server.
* `WallSwitch_proofs`. `BoundInv` counts the flips accepted, about to be accepted
  and about to be sampled, which is why a bound on edges bounds the flips.
  `CountInv` gives `cnt` its meaning, `LevelInv` says that without an edge
  outstanding the debouncer has the pin's level, `TableInv` that a clean
  sample is still the debounced level as long as no flip awaits the counter.
* `WebServer_proofs`. `LiveInv` follows a handle from `httpd_start` to `server`: at
  most one of the two tasks holds one it has yet to assign. `UpInv` and
  `DownInv` relate the event handled last to the server; `DownInv` needs that no
  event raced with `app_main`.

### A refinement

`WallSwitch` implements `Follower` under `in <- pin`, `out <- currLvl` and
`busy <-` "the debouncer is not at rest": edges are `Move`, accepting the pin's
level with nothing outstanding is `Catch`, all else is `Work` or invisible. TLC
checks the whole of it, the liveness of `Follower` included
(`DebouncerFollowsPin`); the safe part is the theorem `DebouncerIsSafe`.

### Composition

Each of `BathLight`, `VentTimer`, `Humidity`, `VentControl` and `RestLight` leaves its
neighbours free. `Bathroom` and `Toilet` put the real ones in their place. The
argument, in `Bathroom_proofs` and `Toilet_proofs`, has two halves.

*Each component works in the room as it does alone.* Under a refinement mapping
the room implements the specification of each: `LightInBathroom`,
`HumidityInBathroom`, `FanInBathroom`, `TimerInBathroom`, `LightInToilet`,
`FanInToilet`, `TimerInToilet`. These hold because every assumption about a
neighbour is a fact about it:

* the timer takes each message for a switching of the light: `SwitchInv`, the
  controller posts only when the light changes, and `TellInv` (in the toilet),
  it posts what it has switched before it takes its next message;
* the fan's controller assumes that commands of a source alternate: the timer
  toggles, and `HumCommandsAlternate`;
* the timer shares the fan's queue with senders that are not it: `TimerQLemma`,
  the queue as the timer sees it (`TimerView`) changes as `VentTimer` says it may.

*Their theorems add up.* `CommandInv` links the last message in the fan's queue to
its sender's present wish. With the theorems of the parts it gives, for the room
with nothing under way:

* `RoomFollowsMotionCorrect`: an automatic light is what all motion sensors in use
  agree on, and so is the fan's relay, three tasks and three queues further on;
* `RoomFollowsSwitchCorrect`, `ToiletFollowsSwitchCorrect`: a manual light and its
  fan are as the switch or page said;
* `FanFollowsHumidityCorrect`: a fan last commanded by the humidity task is what
  that task decided;
* `ToiletFollowsDistanceCorrect`: light and fan are on exactly if the last sample
  was near.

Their provisos are those of the parts: the fan is automatic and was last
commanded by the source in question, the last message on each queue of the way
was not dropped, and the light did not return during the fan's off-delay.

The rooms have no run: their state spaces are far beyond five minutes even with
queues of one place. TLC's simulation explored tens of millions of their states
with the properties and the components' specifications while they were written,
reached states in which the premises hold, found no violation, and did find a wrong level in the timer's post when one was put
there.

`OneServerAtATime` proves of `WebServer` what `WsPublisher` assumes of the server:
however `app_main` and the event handlers interleave, a step starts a server
when there is none, stops the running one, or leaves it alone.

### Only model-checked

Liveness under fairness is beyond the prover, so these are checked by TLC alone:
`RelayReachesWanted`, `QuietIsReported`, `FanStops`, `ManualVentSettles`,
`LeavingIsNoticed`, `HumidityIsNoticed`, `SwitchSettles`, `StatusReachesPage`,
`DeadEntriesGo`, and the liveness half of `DebouncerFollowsPin`. Every invariant
and every action property of a passing run is also a theorem.

## 5. Plan

Done: the modules above, in the order of their weight in the program.

Then their safety properties, all proved, and the two rooms with what their
components achieve together.

Next, in this order:

1. Compositions up to the pins: `WallSwitch` and `MotionSensor` with `BathLight`,
   from the wall and the sensor's pin to the table.
2. Abstract specifications: a light that is what its inputs ask for after finitely
   many steps, implemented by `BathLight` and `RestLight`.

### Not modelled

* I/O of the drivers: I2C with the HTU21D (its CRC check only prints a
  warning, so nothing depends on it) and RMT echoes. A failed initialisation is
  not retried, since the loop breaks after the first attempt (`BathHumGPIO.c:305`).
* The text of messages: `JsonDigitBool`, `StrToJson` and the vendored `jsmn.h` keep
  no state. What is not a number is stored as an error code (a field cleared on
  the page becomes -3), and a name that is not in the table would give index -1
  (`BathMain.c:59`); the modules take the page's own names and values.
* Lengths of delays.
* Undefined behaviour outside the model: receivers of distance and humidity pass a
  `uint16_t` for a four-byte item (`BathHW.c:409`, `BathHW.c:461`).
* The browser page, the build files, the files not compiled.
