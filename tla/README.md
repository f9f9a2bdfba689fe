# A TLA+ verification project for Web Fortress (df-webfort-mp)

Web Fortress is a DFHack plugin that serves a running game of Dwarf Fortress to
web browsers. Anybody may watch; one player at a time drives. The plugin runs
two threads in the DF process and one program in every browser, and nearly all
that is hard to test in it lies between them: handlers that read a state and act
on it later, buffers shared without a lock, turns that must end although the
player who holds one has vanished. The modules here model those parts, TLC
checks them on small instances, and TLAPS proves for every configuration every
invariant and action property of the runs that pass; only liveness is left to
TLC alone.

Paths are relative to the repository: `src/server/server.cpp` is the server,
`src/server/webfort.cpp` the plugin, `src/static/js/webfort.js` the browser.

## 1. Inventory

### Threads and what they share

| thread | runs | owns |
|---|---|---|
| websocket thread | the asio loop of `WFServerImpl`: `on_open`, `on_close`, `on_message`, `on_http`, one after another | `clients`, `active_conn`, the timers |
| DF main thread | `plugin_onupdate` every tick, then DF itself | the game, `own_sc_prev`, `sc`, `sc_prev`, the extra render passes |
| browser (one per player) | `webfort.js`: a request loop, key and mouse handlers | the canvas |

The two server threads share the map of clients, each `Client` (its screen
buffer, mod bytes, camera, pending camera deltas), `active_conn`, and DF's
globals. Only the two input queues have a mutex.

### Components

**Sessions and turns** (`server.cpp` 55-500, 799-834, `server.hpp`).
State: `clients`, `active_conn`, each client's `atime` and `cursor_active`,
`itime` and `timed_out`. Operations: `on_open`, `on_close`, `set_active`,
`get_time_left`, `idle_timer`, `reset_idle_timer`, the opcodes 110 (`tock`), 114
(cursor) and 116 (turn), `GET /api/status.json`. It calls `simkey` to pause the
game at a handoff. Hard: expiry happens only inside somebody's `tock`; `tock`
reads the driver and the time left before it ends the turn and uses them after;
a vanished peer may never be noticed. Correct when the turn belongs to a
connected player, nobody is ousted but by the clock, every turn and every idle
period comes to its end, and what is sent out is consistent.

**Input bridge** (`input.hpp` 112-150, `webfort.cpp` 210-260, 760-980).
State: `g_wf_input_queue`, `g_wf_mouse_queue`, the SDL queue of DF, pause state
and screen. Operations: `simkey`, `simmouse` on the websocket thread,
`wf_flush_input_queue`, `wf_flush_mouse_queue` on the main thread. Hard: every
check (whose turn, may this ESC pass, is the game paused) is made when an event
is queued and acted on a tick later. Correct when the game stays paused after a
handoff, no player without the secret reaches the main menu, and only the
driver's input reaches the game.

**Key translation** (`webfort.js` 560-680, `input.hpp` 55-112, `webfort.cpp`
745-840). Pure functions; three key vocabularies in a row. Correct when what is
pressed is what DF sees or what the camera does, by rules the page knows, and
what DF sees is what the escape check saw.

**Screen capture and tile delta** (`webfort.cpp` 430-556, 1116-1238,
`server.cpp` 493-640). State: `sc`, `sc_prev`, `own_sc`, `own_sc_prev` and
`mod` of every client. Operations: `capture_screen_buffer`, the extra passes,
the tile loop of `tock`, the browser's drawing. Hard: no lock between capture
and `tock`; two capture paths with two previous frames; dimensions that change.
Correct when a tile marked as sent is right, and every browser converges to the
screen.

**Per-client cameras and cursor broadcast** (`server.cpp` 439-444, 554-573,
616-676, 730-798; `webfort.cpp` 127-138, 875-892, 1042-1112, 1116-1238). State:
`cam_x/y/z`, `has_own_cam`, `pending_cam_dx/dy/dz`, `cursor_x/y`, the DF globals
`window_x/y/z` and `gps->mouse_x/y`, which an extra pass borrows. Correct when
the borrowed globals are restored and nobody reads the borrowed values, cameras
stay in bounds, and deltas of one driver do not move another's view.

**Sprite atlas** (`webfort.cpp` 557-738, `server.cpp` 288-313, `webfort.js`
149-186, 368-380). State: the surfaces seen, the two documents, a version of
which four bits are sent. Hard: changes are detected by a count, the two
documents are fetched separately, the version wraps.

**HTTP server** (`server.cpp` 240-400): static files, the status document, the
atlas documents. It reads and never changes the state of the sessions.

**Plugin life cycle** (`webfort.cpp` 984-1035, 1261-1269, `server.cpp`
837-936). State: `enabled`, the endpoint, the thread, `null_client`. Operations:
enable, disable, shutdown, `start`, `stop`, `wsloop`. Hard: enabling twice,
shutting down while handlers run, exceptions out of either. Correct when no
handler outlives what it uses and every command returns.

**Client table** (`server.cpp` 404-464, `webfort.cpp` 476-495, 1042-1082): the
lifetime of `Client` objects. The main thread walks over the map while the
websocket thread inserts, erases and deletes. Correct when the map and
`active_conn` name only clients that exist, wherever a handler is.

**Configuration** (`config.cpp`). State: six globals. Operation: `load_config`, a
file and then the environment. Hard: values that do not parse, numbers that do
not fit, lines that are not quite in the format, a second load. Correct when
the settings are as they are written.

**Browser client** (`webfort.js` 103-250, 340-441). State: the global socket, the
status line and its click handler, the frame timers. Operations: `connect`, the
socket's events, `requestTurn`, `renderQueueStatus`. Hard: a timer outlives its
socket, a request for a turn says only "toggle", an update that throws. Correct
when the request loop neither stops nor multiplies, there is always a way back,
and a click does what the line says.

**Not core**: text detection and colour matching (pure functions of screen
memory), logging, vendored asio, websocketpp and lodepng, art and packaging.

Every component is listed in `PROJECT.json` with what is modelled of it, and
everything in this code that is hard to test is listed there under `hazards`
with its line and the properties that watch it.

## 2. Modules

| module | what it is | code |
|---|---|---|
| `TurnToken` | what a player is promised about turns: the abstract specification | none |
| `Session` | the websocket thread, one action per handler | `server.cpp`, `server.hpp` |
| `InputBridge` | the queues, the flushes, DF's reaction to input | `input.hpp`, `webfort.cpp` |
| `Webfort` | `Session` and `InputBridge` interleaved | both |
| `KeyMap` | a key from the browser to an SDL event | `webfort.js`, `input.hpp`, `webfort.cpp` |
| `TileDelta` | capture, mod bytes, `tock`, canvas | `webfort.cpp`, `server.cpp`, `webfort.js` |
| `Viewport` | cameras, extra passes, the cursors that are sent | `webfort.cpp`, `server.cpp` |
| `Atlas` | the sprite atlas, its version, the page's two fetches | `webfort.cpp`, `server.cpp`, `webfort.js` |
| `Lifecycle` | commands, ticks and handlers in steps; the lives of thread and clients | `webfort.cpp`, `server.cpp` |
| `Browser` | a page, its sockets and the server's answers | `webfort.js`, `server.cpp` |
| `Config` | `load_config`, line by line and variable by variable | `config.cpp` |
| `KeyMapProofs`, `TileDeltaProofs`, `ViewportProofs`, `AtlasProofs`, `LifecycleProofs`, `BrowserProofs`, `ConfigProofs` | theorems about the module they are named after | |
| `WebfortProofs` | theorems about `Session`; `Webfort` implements `Session`, so that they hold of it; theorems about the queues between the threads | |
| `MC*` | the same for TLC | |

**Session.** `clients` is the domain of the map, `active` is `active_conn`.
`played` is `round_timer() - atime` of the active client and `idle` is
`time(NULL) - itime`: a clock counts from the event that starts it and stops
where nothing tells its values apart any more. `link` is what websocketpp knows
of a connection: messages are dispatched only while it is open, and a close
handler follows each `close`, also for a connection `on_open` has turned away.
`sent` is the status the last handler sent; in an update its count of clients is a
byte, which wraps at `CountValues` (256 in the code), in the status document it
is the full number (`Counted`). `saves`, `ended` and `quiet` are
history: the saves of this idle period, how the last turn ended, and how long
nobody has played, counted independently of `itime`. `set_active` is the code's
function with all it does; its last line, the pause key, is `PauseGame` of
`Webfort`, which is part of every `Session` step there (`SessionStep`).
`TurnTick` (a unit of `round_timer`) and `Second` (of `time(NULL)`) are two
actions: one clock is read only while somebody plays, the other only while
nobody does.

**TurnToken.** Members, a holder and the time the holder has spent. A turn is
taken only when nobody has it, and ends because its holder yields or leaves or,
with a limit, at exactly that limit and only if somebody else is there.
`Session` implements it under the mapping in `TT == INSTANCE TurnToken WITH ...`.

**InputBridge and Webfort.** `flush` says which queue `plugin_onupdate` drains
next. Keys go through DF's SDL queue and are handled one by one (`DFEvent`);
mouse events are fed to the viewscreen inside the flush. The screen of DF in
dwarf mode is idle, a panel or the main menu; in adventurer mode it is the
dungeon or the options, which `is_safe_to_escape` takes for safe whatever they
are. `React`, `Escaped` and `Clicked` are an environment model: what DF *may* do.
Three history variables name the races that no check in the code can win:
`disturbed` (since the last handoff somebody pressed SPACE, or a panel or the
menu took the server's, or one was still under way at that handoff), `closed` (a
screen was closed with an ESC under way) and `late` (who has lost the turn since
the mouse queue was drained). `MainStep` keeps them next to each step of the
main thread, `SessionStep` next to each handler.

**KeyMap.** `Init` chooses any pair of code and character bytes, or any key of
the keyboard pressed on a page that plays or not, with a menu open or not
(`page`, which the page takes from the last update); each step is one
translation. `routeToCamera` sends w, a, s and d to the camera (`moved`), and a
page that does not play keeps the other keys to itself. Modifiers are left out.

**TileDelta.** `tick` is the program counter of `plugin_onupdate`, `packet` that
of `tock`. A tile is one value (what two tiles differ in beyond that does not
matter to the delta), and `canvas` is the browser's screen once it has drawn
all it was sent. `scene` is what DF would draw in the main viewport and in each
client's. The two threads interleave freely, so a `tock` may start, read and mark
anywhere in a tick. Two history variables name what that and the zeroed buffers
of a new `Client` can do to the mod bytes: a client is `torn` when a frame was
compared between the read of one of its tiles and the mark (`MidTile`), and
`unfilled` when a packet was made of a buffer no frame was in yet, or a blank tile
was found equal to a buffer of zeroes (`TakeZeroes`). Whatever has all tiles of
a client sent again (`Resend`) ends both.

**Viewport.** One axis stands for three (on z the margin is 0). `window` and
`mouse` are DF's globals, `game` and `pointed` are history: where the game's
camera is and what each spectator points at, whatever the globals hold at the
moment. `tick` is the program counter of the main thread with the values an
extra pass has saved; `BeginPass` borrows the globals, `EndPass` puts the mouse
back and `EndTick` the window, as the code does. `Origin` and `Cursors` are what
`tock` computes for a header and a cursor packet; `tock` changes nothing here,
so it is no action, and the properties ask about them in every state, those
inside a pass included. `Misled(c)` says that a handler would take the window of
another for c's, and `strayed` whose cursor was placed in that way.

**Atlas.** A document stands for the sprites it was made of, or for the `Glyphs` of
the font alone. `held` says whether the pixels of the sprites are still in
memory; `Count` is the number of surfaces that have some, which is all
`wf_build_atlas` compares, and may be equal for different sprites. A look at the
sprites (`Look`) clears the documents, skips the build, keeps the old documents
because there is nothing to draw or the image cannot be encoded (`KeepAtlas`,
`failed`), or publishes new ones. `packet` is the update under way to one page,
`load` its two fetches, `retries` its timers. `lag` counts the rebuilds since
the update the page last saw: a version of `Versions` values tells apart pages
that missed fewer. `missed` names the ways in which the page comes to believe it
has what it has not: a version that arrives during a load, an index that does
not parse or comes with another error, an image that fails.

**Lifecycle.** `pc` is where the main thread is, in a command or a tick,
`handler` where the websocket thread is, in a handler cut at every access to
what both use. `walk` holds the clients a tick has still to touch, `heap` the
`Client` objects that exist. `trouble` records what went wrong outside the
plugin (a value that does not parse, a port that is taken, a handler that
threw), so that the properties can say what follows from what; `raced` is set
when `on_close` deletes a client under a tick. A `tock` whose idle timer goes off
stops at `quicksave`, which waits for the core lock that commands and ticks hold.

**Browser.** `made` counts the sockets; the last is the global `websocket` and
`ready` its state, `link` the server's side of it, `requests` and `updates` what
is on the way. `timers` counts the frame timers that an update of the present
socket has set and `orphans` those of earlier ones (`frameTimer`,
`orphanTimer`): both send on whatever the global socket is when they fire. Every
message under way carries whether the turn is still the one it was based on
(`fresh`), which neither side can know. The other players are one action,
`Others`; what they may do is in `Session`.

**Config.** Text is a value, `Stol` says which number it begins with. A line is
`plain`, `indented` or `skipped`, which is what the scanner tells apart: on an
indented line the value keeps its bracket. `Cast` is the conversion to the
setting's width.

Definitions named `name_Slip` (`TimeUp_Late`, `on_close_KeepsTurn`, ...) are bugs
the code might have had. Nothing uses them; each shows that a property is not
vacuous, because putting it in the place of the definition it varies breaks that
property in the same run.

## 3. Runs

### Runs that pass

**Session** (`FairSpec`; four connections, capacity 3, a count byte of three values,
`TURNTIME = 2`, `IDLE_TIMEOUT = 1`; 171456 states). With four connections there
is a driver, two rivals and somebody turned away, and a full table wraps the
count. A turn of two units has a beginning, a middle
and an end; a timeout of one second has a before, an at and a past. Checked:
- `DriverConnected`: the turn belongs to a client of the map, and the map
  follows the links;
- `NoGhostDriver`: a driver has no spectator cursor, however the turn came;
- `WithinCapacity`; `HeaderTruth`: what is sent out does not contradict itself, and
  a countdown is shown next to a count of at least two, unless there are more
  clients than the byte can count;
- `TurnContract`: the handlers implement `TurnToken`;
- `AutosaveTiming`: at most one save per idle period, never early, never before
  the first turn; `IdleSaves`: and there is one;
- `TurnEnds`: no turn lasts forever against a waiting player, close frame or not.

**Webfort** (`WFairSpec`; two connections, one with the secret, turns in game
ticks, one ESC and one click of the players queued, dwarf or adventurer mode;
777166 states). Two
connections are a driver and a rival; the server's own keys come on top of the
bound.
- `PauseHolds`: after a handoff the game stays paused, but for the races that
  `disturbed` names;
- `SafeEscape`: in dwarf mode no ESC of a player without the secret opens the main
  menu, unless the screen that made it safe was closed under it;
- `FocusMouse`: clicks come from the driver, or from one who has just lost the
  turn;
- `IngameTurnEnds`: with `TURNTIME` in game ticks a turn ends if the game is left
  running. The condition is needed: every handoff pauses the game, and the clock
  of the turn then stands still until somebody resumes it.

**KeyMap** (all 65536 pairs of bytes, all keys, with what the page may know; 265126
states). `EscapeIsGated`: no pair of bytes gets past the check and comes out as
ESC. `LettersArrive`: a letter typed while playing arrives in either case as key
and text, but for w, a, s and d outside menus, which move the camera; who does not
play moves the camera with those and sends no others. The translation ends, so the
run does not look for deadlocks.

**TileDelta** (`FairSpec`; two clients, one tile that shows one of two values or is
blank, two screen sizes, three changes; 824663 states). `DeltaExact`: once things
have settled, a tile marked as sent shows in the browser what the client's buffer
holds. `Converges`: once the world stands still, every browser comes to show the
frame that is its client's. Both hold with an update at any point of a tick and
before the first one, but for clients that are `torn` or `unfilled`. Tiles do not
depend on one another, so one is enough; two clients cover both capture paths in
one tick and the handoff between them. Three changes are enough for join, turn
or camera, and change of a tile or of the dimensions, in any order.

**Viewport** (`FairSpec`; two clients, four camera positions, six changes; 1271808
states). `GameUndisturbed`: drawing for spectators leaves the game's
camera and mouse as they were. `CursorsTrue`: every cursor sent is on the tile
its owner points at, none is missing and none left over from before a handoff.
`SpectatorMoves`: a spectator's camera moves only by that spectator and from
what they were looking at. `ViewSettles`: every client comes to see the view it
should, and the header then names it. On a map of three tiles with a screen of
two, neighbouring views overlap and the outermost do not. Handlers run inside the
passes as well. There a packet for a client without a camera, the driver's cursor
in any packet, and a first camera move or a cursor move of a client without a
camera read what the pass has borrowed: `Reliable` leaves out these cursors, and
`SpectatorMoves` these first moves, and nothing else.

**Atlas** (`FairSpec`; two sets of sprites of one size, a version of two values, a
page that misses at most one rebuild; 937482 states). `UpToDate`: a page that counts
itself up to date shows the current atlas. `BuildCurrent`: after every look at
sprites that are in memory the documents show them or others just as many that
they have replaced unnoticed, unless the build could not be encoded; it would
catch a look that passes over documents that are empty or hold the font alone.
`AtlasConverges`: a page comes to show the sprites that stay. Two values and one
missed rebuild reach the wrap-around of the version, and a fetch can be overtaken
by a rebuild at each of its stages. Two sets of one size cannot be told apart by
their number; what can is that none are loaded, or that their pixels are gone.

**Lifecycle** (`FairSpec`; three connections; 12366 states). `NoHandlerLeft`: no
handler outlives what it uses. `ClientsExist`: map, driver and heap agree, over
any number of enables and after a handler has thrown. `NoUseAfterFree`: a tick
touches the living, unless one is deleted under it. `FirstEnableServes` and
`CrashesOnlyUnparsed`: what `trouble` is needed for each failure.
`CommandsReturn`: every command returns, unless it waits for a handler that waits
for the core lock to save the game (`Deadlocked`). The process may stop for good,
so deadlock is not looked for.

**Browser** (`FairSpec`; three sockets, two clicks under way; 65433 states). Three
sockets are two reconnections, enough for a timer to meet a socket that already
has two loops; two clicks are a double click.
- `OneLoop`: one request for an update on its round trip, and one more per timer
  that outlived its socket, never more than sockets made;
- `WayBack`: a closed page, and no other, offers to connect;
- `ClickMeansIt`: a click does what the line said, unless the turn has changed;
- `StatusSettles`: no page waits forever, and a connected one comes to say who
  drives.

**Config** (files of up to two lines, ten environments, two loads; 2145974
states). `AsWritten`: after a load that returned true the environment wins over
the file, the last line over the earlier ones, and what neither sets stays. Two
lines are a repeated key or two keys; two loads are an edited file. TLC counts in
32 bits, so `Uint32` is 2^20 here; the theorem takes any width.

### Disagreements between the code and what is said of it

Each run checks one property that a document states, and TLC finds a behaviour
of the code that violates it.

| run | says | does |
|---|---|---|
| `LostTile` | `docs/GRAPHICS_MODE_ANALYSIS.md:26`: the delta mask is solid | a capture between reading a tile and marking it loses the change (`MaskSolid`) |
| `Reenable` | `INSTALLING.txt:28-36`: `enable webfort` starts the server | the second time `init_asio` fails on the used endpoint, nothing listens, and `enabled` is set; the trace is the shortest, in which the first enable found its port taken |
| `EnvIgnored` | `src/server/README.md:4`: environment variables instead of a file | without the file the variables are never read |

More were met while modelling. They have no run of their own; where a passing
property would meet them, it or its bounds leave them out by name.

Turns and input:
- `server.cpp:510` says the count of clients has its bit 128 set for the active
  player; nothing sets it, the byte is the count modulo 256 (`Counted`), and the
  browser masks the bit away (`webfort.js:362`), so that 128 clients read as none;
- `server.cpp:575` says the packet carries the active player's nick; the update
  that ends a turn carries the nick of the player who has just lost it, next to
  "nobody is playing" (`HeaderTruth` asks of the nick only while somebody plays);
- `server.cpp:725` says only the focus player's mouse input reaches the game; a
  click queued before a handoff is fed after it (`late`);
- `webfort.cpp:210` says ESC is not safe if it leads to the menu, but
  `is_safe_to_escape` looks at the screen when the key is queued, and an earlier
  key or click may close that screen first (`closed`);
- in adventurer mode `is_safe_to_escape` calls every screen safe
  (`webfort.cpp:222-225`, a TODO there), so anybody's ESC opens the options
  (`SafeEscape` speaks of dwarf mode);
- the pause key of a handoff is swallowed by a panel with a text field, or by the
  menu, and two quick handoffs queue it twice (`disturbed`);
- `webfort.cpp:767` takes the symbol for a JS keyCode; it has been translated
  already, and cursor, editing and function keys are dropped (`LettersArrive`
  asks of letters only);
- `webfort.cpp:827` promises text fields their characters, but the browser sends
  digits and SPACE as a key code with character 0, so no TEXTINPUT follows;
- with in-game time `src/server/README.md:10` promises a turn of a length, but
  the handoff stops its clock (`IngameTurnEnds` states what remains true).

Screen and cameras:
- `server.cpp:587` says the client's buffer is always up to date; before the first
  capture it is blank, and blank tiles are marked as sent (`unfilled`);
- after a change of dimensions `capture_screen_buffer` clears the mod bytes of
  clients that follow the main viewport only (`webfort.cpp` 479-490). A client
  with its own camera keeps a cleared canvas where its tiles did not change.
  `DeltaExact` and `Converges` exclude it by `relaid`;
- a driver gets `has_own_cam` at the first tick of the turn (`webfort.cpp:1082`)
  and is then compared with an `own_sc_prev` that the shared path never wrote: a
  tile of zero bytes equals it and is not sent again (`unfilled`);
- `server.hpp:36` says `has_own_cam` is set on the first CamMove. The main thread
  also sets it for the driver, so who has once had a turn never follows the
  game's camera again;
- `webfort.cpp:1215` says the cursor broadcast always reads the active player's
  correct position, and `server.cpp:768` wants a first camera move to start from
  the player's actual position; a handler that runs inside an extra pass reads
  the borrowed window and mouse (`Misled`, `strayed`).

Atlas:
- `webfort.js:168` keeps two loads from mixing, but the index and the image of one
  load can come from two rebuilds; the page shows that until the next version;
- `webfort.js:148` promises retries; an image that fails to load, an index that does
  not parse or an answer other than 200 and 404 is not retried, and a version that
  arrives during a load is taken for loaded (`missed`);
- sprites that change without changing in number are not noticed, although
  `webfort.cpp:1251` and `docs/GRAPHICS_MODE_ANALYSIS.md:18` count on it after a
  change of the graphics pack (`Alike`);
- once DF has freed the pixels of its sprites (`docs/GRAPHICS_MODE_ANALYSIS.md:45-57`)
  the documents are rebuilt with the font alone, or the old ones stay
  (`held`, `KeepAtlas`);
- back in ASCII mode the retry timer (`webfort.js:370`) goes on fetching;
- `webfort.cpp:1010` wants the atlas ready before the first client; the server's
  thread is started first.

Life cycle and settings:
- clients, turn and queued input survive a disable;
- `disable` and shutdown join the websocket thread with the core lock held; if
  that thread is just saving the game (`server.cpp:169`, `webfort.cpp:233-236`) it
  waits for the lock, and both wait forever (`Deadlocked`);
- an exception in a handler ends the websocket thread and leaves `enabled` set;
- a number that does not parse throws through `plugin_enable` with `enabled` set, and the
  disable that follows stops an `io_service` that does not exist
  (`CrashesOnlyUnparsed`);
- `on_close` deletes a `Client` a tick may be walking over (`raced`);
- a flag is `YES` in the file and a number in the environment, where `YES` throws;
- on an indented line the value keeps its `]`: a flag is then off, a secret
  has a bracket; a line indented with a tab is skipped;
- a key taken out of the file keeps its value at the next enable.

Browser:
- a timer that outlives its socket begins a second request loop on the next one
  (`strays`);
- a nick of 255 encoded bytes or more wraps the length in the header, and a page
  that meets it stops asking (`choked`);
- the second click of a double click gives up the turn the first has taken
  (`fresh`).

## 4. Fairness

- `tock(c)`, weak: the browser asks for the next update when one has arrived
  (`webfort.js` 427-441). A connection whose browser has gone is not `open`, and
  nothing is assumed of its close handler: the server never pings.
- `Second`, weak. `TurnTick` only when it counts seconds: game ticks need not
  come, a game may stay paused forever. In `Webfort` the tick is fair but
  disabled while the game is paused, and with `tock` it is all that is fair: no
  property there needs the main thread or the seconds.
- `Lifecycle`, all weak: a command, a tick and a handler go on once they have begun
  (each is straight-line code), and the loop sees that it is told to stop. A handler
  in the autosave goes on only when neither a command nor a tick holds the core
  lock, and nothing says that it ever gets it while ticks take it again and again.
- `Atlas`: weak for the main thread's periodic look, for `tock`, for an update that has
  arrived, for timers and for the steps of a load; strong for the arrival of the
  index: a fetch that is retried forever succeeds in the end.
- `Browser`: weak for the browser's events and timers, the server's handlers and
  the arrival of a close frame. No connection has to break otherwise, and a
  server that is disabled (which leaves its sockets open and silent) is outside
  of it.
- `Config` has no liveness: a load is a loop over what is there.
- the steps of the main thread in `Viewport`, weak: every frame is rendered and
  every tick finishes; no handler can disable them.
- in `TileDelta` weak for the steps of a tick and for those of a `tock` that has
  begun. A `tock` of one client has to wait for that of another, which comes to its
  end again and again: strong for each `tock` to begin.
- no player is fair: nobody has to press, join, move or leave.

## 5. Proofs

The theorems hold for every value of the constants under the assumptions the
modules name; TLC evaluates each assumption on every run of its module. Each
proof has the same shape: an inductive invariant (`Safety`, `IInv`, `WInv`,
`PInv`, `KInv`, `LInv` or `DInv`), a lemma that it holds initially, one lemma
per group of actions that it is kept, and theorems that draw the properties from
it.

The first half of `WebfortProofs` is about `Session`, for every finite set of
connections and every configuration (`ConnAssumption`, `ConfigAssumption`). The
configuration values are natural numbers and Booleans and nothing else is
assumed: a capacity of zero, no limit on turns and more clients than the count
byte has values are included. The invariant is
`Safety`: `TypeOK`, `DriverConnected`, `NoGhostDriver` and `WithinCapacity`
together. None of the middle ones is inductive alone: that a driver is connected
after `requestTurn` rests on messages being dispatched only to open links, which
are in the map, and that no cursor outlives its client rests on the same.
`set_active` is treated once, in the lemmas `SetActiveType` and `SetActiveSafe`,
and cited by the three handlers that call it.

| theorem | states | argument |
|---|---|---|
| `TypeCorrect` | `TypeOK` | inductive by itself; clocks stay in range |
| `DriverIsConnected`, `DriverHasNoGhost`, `CapacityRespected` | the parts of `Safety` | `SafetyInit`, `SafetyStep` |
| `HeadersAreTrue` | `HeaderTruth` | `TimeLeftRange` and, after a turn has expired in `tock`, the time left read before it; a count below `CountValues` is the number of clients |
| `AutosaveIsTimely` | `AutosaveTiming` | a second invariant, `AutosavePending`: while the save is pending a turn has ended, none has been saved for, and `idle` is `quiet` |
| `TurnContractHolds` | `TurnContract` | step simulation of `TurnToken`, `TurnStep` |
| `PagesSeeTurns` | what one page sees of the turn | `TurnPasses`: from nobody to who asked, and back |

`PagesSeeTurns` is about two modules: `Browser` has one page and no other
players but the action `Others`, and the theorem says that in `Session` nothing
else than `Others` and the page's own requests can happen to what a page sees.

The second half shows that `Webfort` implements `Session`
(`WebfortImplementsSession`): every `Session` step in `Webfort` is one of
`Session` with the pause key queued, or with its clock held up, and the main
thread is stuttering. Hence `WebfortTurnContract` and `WebfortSessionsSafe`: the
turn contract and the safety of the sessions do not depend on running the main
thread apart. The rest is about the queues, for every bound on them: `WInv` says
that each queue holds only what may be in it in the present state, as membership
in `Seq(Guarded(screen, closed))` and `Seq(Current(active, late))`. An event
that was harmless when queued and no longer is must have been left behind by a
screen that was closed (`MainInv`) or a turn that was lost (`SessionStepInv`),
and the history variables say so; hence `EscapeIsSafe` and `MouseIsFocused`,
which the run only shows with one key and one click.

`PauseIsKept` needs more than what may be in a queue: the pause key toggles, so
one too many is as bad as none. `PInv` looks at the two key queues as one
pipeline, DF's and behind it the server's. After a handoff that nobody has
disturbed it holds at most one pause key, and the game runs just when there is
one. A handoff puts a key at the end (`PipelineAppend`, `HandoffPauses`), DF
takes one from the front (`PipelineTail`, `MainKeepsPause`), and the flush
between the two queues changes nothing: their concatenation stays what it is.

`KeyMapProofs` is about a key on its way to those queues. `EscapesAreAskedAbout`
is by cases on the tables: only one symbol becomes SDL's ESC
(`OnlyEscapeIsEscape`), and it is the one the check asks about. `KInv` says what
stands for a letter at each stage of the way, given what the page knew when it
was pressed, and `LettersDoArrive` is its last stage. Neither depends on which bytes there are.

`AtlasProofs`: `Known` counts backwards from the current version, modulo
`Versions`, to what the page and the update under way have seen (`Ago`); since
fewer than `Versions` rebuilds lie between (`VersionsAssumption`), equal versions
mean none. `Loaded` then says what a page has that saw no rebuild since it asked,
at each stage of its load, and `PageUpToDate` follows. `Detected` says what the
remembered count means: `Forced` before the first build and after the documents
were cleared, zero only while they hold the font alone, and otherwise the count of
what they show. A look that skips the build therefore has documents of as many
sprites before it, and `BuildsAreCurrent` follows for any `Count`.

`LifecycleProofs`: `Threads` ties the position in a command to whether there is
a thread, `Table` says how map and heap differ inside `on_open` and `on_close`.
For example, that the driver exists after `DeleteClient` rests on the turn
having been given up one step earlier, and that nobody else changes the table in
between, because one thread runs all handlers. `TypeCorrect` adds the types of
the sets and flags. For the commands, `Endpoint` says that no endpoint is
initialised before the first `start` that gets past its configuration,
`Unparsed` that who is enabled before that has had a setting that did not parse
(`CrashesAreExplained`), and `Serving` what each step of one `start` without
trouble leaves behind (`FirstEnableIsServed`).

`BrowserProofs`: what is under way is true of the present turn or marked as
overtaken, as membership in `Seq(TrueUpdate(turn))` and `Seq(TrueRequest(turn))`;
`RestIsTrue` shows that this survives a change of the turn. `Offer` carries it to
the status line, and a click from there to the server (`ClicksMeanIt`).

That a page has the loops it should have (`OneLoop`) is a balance. While the
page is open every loop is in one of three places, a request, an update or a
timer, and each step moves it from one to the next. `LInv` adds what the
property does not say and needs: that `orphans + 1 + strays` never exceeds the
sockets made, and that a page whose connection is gone takes no more timers and
updates with it than it had loops, because these are what the next socket
inherits. Requests of one kind are counted as the cardinality of their
positions; `CountAppend` and `CountTail` say what a message at the end or from
the front does to it, the second by a bijection of positions. `LoopsAreBounded`
follows for any number of reconnections; the run has two.

`ConfigProofs`: `After(k, n, v)` says that v is what the first n lines give key
k. `NextLine` moves it over one line, `EnvStep` over one variable, and at the
end it is `AsWritten`. It covers files of any length without induction over
data: the load is a loop whose rounds are steps.

`TileDeltaProofs`: that a mod byte tells the truth when things have settled
(`DeltaExact`) says nothing of the middle of a tick, so the invariant `DInv`
names the frame each client's mod bytes speak of at every point (`Spoken`): the
previous shared frame from a copy to its comparison, the client's own previous
frame in an extra pass, and otherwise the client's buffer. `Buffers` says what
each of these holds; in particular a client that gets a camera still has its
zeroed `own_sc_prev`, which equals no tile but one of zero bytes, so that its
first extra pass marks everything else for sending. `Truth` also ties the mod bytes to the canvas of the
same dimensions. Ticks and packets interleave freely in the theorem, as they do in
the code: a tile that has been read and not yet marked is covered by its place in
`packet`, a comparison that comes in between puts the client in `torn`, and a
packet or a comparison that finds a buffer of zeroes puts it in `unfilled`;
`DInv` speaks of the other clients. `LostTile` shows that without `torn`
(`MaskSolid`) the property fails.

`ViewportProofs`: `Borrowed` says where the game's camera and mouse are while an
extra pass has put a client's in their place, and gives `PassesLeaveNoTrace` with
handlers inside the passes as well. `Pointers` says that the cursors marked
active are where their owners point, unless they strayed. `CursorsAreTrue` and
`SpectatorsMoveThemselves` follow with handlers inside the passes: a client with a
camera of its own reads nothing that is borrowed but the driver's mouse.

Only model-checked is what needs fairness: `TurnEnds`, `IdleSaves`,
`IngameTurnEnds`, `Converges`, `ViewSettles`, `AtlasConverges`,
`CommandsReturn` and `StatusSettles`. Liveness and ENABLED are out of the
prover's reach. Every other property of a passing run is a theorem.

## 6. Abstractions

- A handler of the websocket thread is atomic in `Session` and `Webfort`. What it
  shares with the main thread without a lock is split where the properties
  tell the halves apart: in `TileDelta` reading and marking a tile, copying and
  comparing a frame; in `Lifecycle` the steps of `on_open` and `on_close`. In
  `TileDelta` and `Viewport` joining and leaving are atomic with respect to a tick.
- `InputBridge` stays in one mode until a menu is clicked: a game is left and
  another begun through the menus.
- There is nobody at the local keyboard, and DF does not pause by itself.
- The game clock never runs backwards; `ReadCurrentTick` does so at New Year
  (`server.cpp:147`), which is listed as a hazard.
- The code's queues are unbounded. `MaxKeys` and `MaxMouse` bound what players queue;
  keys of the server are never refused, only a player who takes a turn waits
  for room. `MaxChanges` bounds what happens to the screen in `TileDelta`, and
  `saves` stops counting at 2, enough to tell one save from two. `MaxConnects`
  and `MaxClicks` bound `Browser`, `MaxLoads` bounds `Config`, and `MaxRetries` is
  where `Atlas` stops telling numbers of timers apart.
- In `Viewport` the map is at least as large as the screen. On a smaller one the
  two clampings contradict each other and the second wins.
- In `TileDelta` the screen changes its dimensions at most once between two
  ticks, among two sizes, and not in the middle of a packet. A camera move, a turn
  or a refresh is handled between two packets, since one thread runs them all.
- `Atlas` assumes that sprites once loaded do not become none again (DF uses the
  slots again, `webfort.cpp:573-577`), and `raws.size()` and the number of
  surfaces are one number. It has one page, since pages do not meet. Image and index are replaced
  under one mutex and are one variable; the answer to the fetch of the index is read where
  it is received, the image is split into its arrival and its decoding, since a
  new index can come between.
- In `Lifecycle` commands and ticks exclude each other, which is DFHack's core
  lock. `plugin_init` that finds globals missing, and a command with `s_hdl` null
  after that, are left out.
- In `Browser` the text of the close line is not told apart, a socket that failed
  is closed, and the page's own nick fits its header. Updates carry no more than
  whose turn it is.
- `Config` leaves out a known key without a colon, which reads past the end of a
  vector, and what follows a second colon.

## 7. State of the plan

What the inventory names as logic of its own is modelled; `PROJECT.json` says so
component by component. Of the HTTP server, static files are not: they are reads
that change nothing.

Not modelled:
- screen composition and text detection (`fill_screen_buffer`, `is_text_tile`,
  colour matching): pure functions of DF's screen memory, whose result is one
  value per tile in `TileDelta`; a reference definition of them would be the code again;
- logging, which only formats text;
- asio, websocketpp and lodepng are vendored libraries, much the largest part of
  the repository; what the server relies on of websocketpp is in `Session` and
  `Lifecycle`;
- art, pages and build files, which have no behaviour;
- the game's calendar across New Year, and whose mouse position the main thread stamps
  before a new driver has moved the mouse (`webfort.cpp:1093`): listed as
  hazards without a property.

Every invariant and every action property that a passing run checks is proved
for every value of the constants. The liveness properties stay with TLC.
