# A verification of OneTool

OneTool is one binary with many tools. The part with most behaviour of its own is the
graphical stack: the compositor **swm**, its protocol and client library **sprot**, the
renderer **srapi** (a shader machine, cpu, i915, fbdev and DRM backends), the widget
toolkit **ranal**, the Wayland bridge **wlbridge** and the terminal **term**. Beside it
stand the linker **mlink** and the network tools. This directory holds TLA+ models of all
of these, TLC runs of small instances, and TLAPS proofs of the core for all instances.
Paths below are relative to the repository's source; `swm/` is `libs/gui/swm/src/`,
`srapi/` is `libs/srapi/src/`.

    tlc -config SwmTrees.cfg Swm        # a run (PROJECT.json lists module and cfg of each)
    tlapm SwmProofs.tla                 # the proofs of a module

## 1. The system's parts

| part | state | operations | interacts with | hard because |
|---|---|---|---|---|
| swm surface table (`swm/surface`) | 32 slots, stacking values | alloc, recursive free, find, raise, topmost | pointed into by interaction, clients and de | pointers into slots that are used again; recursion over ids while lists shrink |
| swm protocol (`swm/protocol`) | 16 clients, each a list of 8 surfaces | one handler per request; drop a client | writes the surface table; called from the main loop | a client sends anything in any order and dies at any moment; handlers that fail half-way |
| swm desktop (`swm/de`) | taskbar items, focus mark, menu, pressed control | tick at each frame, press, release, menu key | reads and changes surfaces; may quit | items are those of the last frame, clicks come between frames |
| swm input (`swm/interaction`) | hovered and grabbed surface, move in progress, cursor | motion, buttons, keys | desktop first, then surfaces, then clients | pointers that outlive what they point to |
| swm main loop (`swm/main.c`) | `needs_repaint`, quit flags | poll, dispatch, repaint, deliver frame events, shut down | calls all the above | what wakes it up; what is retried, and when |
| sprot messages and client (`libs/gui/sprot`) | sockets; the client's surface table; a ring of 16 pending events | requests, calls that wait for an answer, event dispatch | both ends of a stream | answers and events interleave; buffers are released late; sends block |
| srapi objects and command buffers (`srapi/core`) | device, images, views, queues, lists of commands | create, destroy, record, submit | tile cache, backends | lifetimes across objects |
| srapi tile cache (`srapi/core/tile_cache.c`) | one hash per tile and device | enable, configure, submit | cpu and i915 backends | a hash that is wrong shows as an old picture |
| srapi thread pool (`srapi/vm/threadpool.c`) | mutex, two condition variables, the current job | dispatch; worker loop | the SIMD interpreter | threads; the job is on the caller's stack |
| srapi shader machine (`srapi/vm`) | registers of a lane | validate, run scalar, run SIMD | thread pool | two interpreters that must agree |
| srapi DRM display (`srapi/backend/drm/drm.c`) | two buffers, `front`, `paused`, `need_resume` | present, resume, two signal handlers | kernel, other virtual terminals | signals in the middle of everything; flips that come late |
| srapi DRM recorder (`srapi/backend/drm/record.c`) | ring of slots, `head`, `count`, `stop`, `failed` | start, capture, stop; worker | its thread, a file | copies outside the mutex; draining at the end |
| srapi input (`srapi/input`) | devices, key state | poll, hotplug | kernel | devices that go away with a key down |
| srapi's kernel objects (`gpu.c`, `i915.c`, `drm/buffer.c`, `fbdev.c`) | handles, framebuffer ids, mappings, descriptors | create, destroy, fill, map | kernel | ladders of calls that each may fail; a blitter that works by itself |
| ranal (`libs/gui/ranal`) | a tree of widgets, focus, drag, cursor; a window and its popups | events of a frame, callbacks of the application | a client of sprot, or srapi alone | callbacks that destroy what is being worked on; resizes that fail |
| wlbridge (`tools/gui/wlbridge`) | Wayland surfaces and their roles, seat, dmabuf params | requests of the client, events of swm | both protocols at once | ids that come late, orders of destruction, put off commits |
| the bridge's launcher (`libs/gui/swm/wayland`) | two children | start, poll, stop, wait | kernel | either child ends at any time |
| term (`tools/gui/term.c`) | two grids, margins, scrollback, the shell | characters, sequences, keys | a pty, sprot | rows that move within one block of cells; the two signs of a shell's end |
| mlink (`tools/dev/mlink`) | symbols, sections, the image | load, select, resolve, lay out, relocate | files | the rules between strong, weak and common; ranges of fields |
| libs/net, down | connection, framing, robots.txt, a table of TLS sessions | one download | servers | bodies in two pieces; references held by several connections |
| nsetup | socket, lease, settings | DHCP | several servers | late and doubled replies |
| lmake, lpack, yap, brainfuck; filesystem and system tools, games, TUI | little | passes over files; one blocking loop each | system calls | |

What makes each correct: the *table* never shares or loses a slot, lists and owners
agree, and nothing points to a dead surface; the *protocol* keeps clients apart; the
*desktop* shows what the keyboard does; the *loop* owes nobody a frame event for good;
the *pool* runs every tile once and never lets a thread outlive its job; the *display*
never draws on the screen and comes back after a switch; the *recorder* loses and
tears no frame; the *tile cache* cannot be seen. The *client library* shows what was
drawn and leaves nothing behind; *widgets* that are pointed to exist; the *bridge* tells swm
what the client asked for, in any order of ids; every *ladder* of calls is climbed down
as it was climbed up; the two *interpreters* of shaders agree; the *linker* chooses the
definitions the rules demand; a *download* writes what was sent. `PROJECT.json` lists every component
with its files, and under `hazards` the lines where these can go wrong.

## 2. The modules

| module | models | proofs, or what implements it |
|---|---|---|
| `SwmSurfaces` | the state of the compositor and `surface.c` | |
| `SwmProtocol` | the request handlers and dropping a client, `protocol.c` | |
| `SwmDesktop` | taskbar and menu, `de.c` | |
| `SwmInteraction` | input routing, `interaction.c` | |
| `Swm` | `main.c`: composes the four, states the properties | `SwmProofs` |
| `SurfaceForest` | abstract: what clients are promised about their surfaces | implemented by `Swm` |
| `ThreadPool` | `threadpool.c` | `SrapiThreadProofs` |
| `ParallelFor` | abstract: what dispatch promises its caller | implemented by `ThreadPool` |
| `DrmRecord` | `record.c` | `SrapiThreadProofs` |
| `Recording` | abstract: what a recording promises | implemented by `DrmRecord` |
| `DrmDisplay` | present and the VT switch, `drm.c` | in the module itself |
| `TileCache` | `tile_cache.c`, with how the cpu and i915 draw a tile | `TileCacheProofs` |
| `SprotServer` | one connection and swm's end of it, `msg.c` with the handlers seen from the stream | |
| `Sprot` | the client library and its two bridges, `client.c`, `vk_interop.c`, `srapi_bridge.c`; composed with `SprotServer` | `SprotProofs` |
| `Ranal`, `RanalFrame` | `widget.c` and the event pass of `app.c`; frames, resizes, popups, start and end | |
| `WlBridge`, `WlSeat`, `WlDmabuf`, `WlPositioner` | `surface.c`, `xdg.c`, `subcompositor.c`; `input.c`; `dmabuf.c`; the place of a popup | |
| `WlLauncher` | `wayland_bridge.c` | |
| `Mlink`, `MlinkLayout`, `MlinkReloc` | symbols and passes; addresses; fields | |
| `TermScreen`, `TermSession` | the grids; the shell, the keys, the parser | |
| `NetFetch`, `NetSessions` | a download with its robots.txt; TLS sessions of several threads | |
| `Nsetup` | `nsetup.c`, with servers and a network that loses and doubles | |
| `OneTool` | `main.c`: one process that runs any of the tools above from `Ranal` on | `OneToolProofs`, `OneToolRunsProofs` |
| `SrapiSubmit`, `SrapiImages` | lists and their submits; images, views, copies | |
| `ShaderVm`, `Raster`, `I915Render` | shaders; lines and triangles; lists on i915 | |
| `SrapiResources`, `DrmProbe`, `SrapiInput` | what objects take from the kernel; the probe; the input devices | |
| `Srapi` | one program that uses any part of srapi | `SrapiProofs` |

Definitions marked *Mutant* are plausible bugs: put in the place of the definition
that follows, each makes a run find a named property violated. No specification uses
them.

### swm

The process has one thread, so every action is one call of a handler and the
interleaving is that of messages, input, frames and death. `SwmSurfaces` keeps slots
where the code has pointers (`hovered`, `grab`, `lists`) and ids where it has ids
(parents, the taskbar's items), because the difference between the two is what can go
wrong. `Subtree` is the set that `swm_surface_free` reaches by its recursion, and
`FreeAll` the effect of freeing it, cleared pointers and shortened lists included.
SET_ROLE accepts a cycle of parents (protocol.c:362 rejects only a surface as its own
parent); freeing a member then recurses without end, and the model goes to the phase
`overflow` and stays there.

Abstractions:
* Positions: a hit test may find any visible surface and any of its buttons, a click may be
  on any taskbar control. This adds pointer positions the screen may not have, and
  no other behaviour. Sizes, damage and drawing are left out.
* `z` is the rank and not the ever-growing number; it is all that is compared.
* `launch` stands for the two menu entries that start a program.
* Requests rejected before they change anything, and those that only answer, are
  `Rejected`; events sent to clients change nothing here and are left out, apart from
  frame events, whose delivery may fail. A blocking send is taken to return.
* A click on the launcher while its menu is open closes the menu at the press and opens
  it again at the release, as in the code.
* `waiting` is a ghost (the client asked for a frame event); `phase` replaces
  the program's end.

### Thread pool

One action per critical section, per atomic fetch-and-add, and per start and end of
`fn`. Waiting threads wake when signalled, or spuriously. The set `Workers` is what
`init_pool` managed to create. The program has one dispatching thread
(exec_simd.c:375), and so has the model.

### DRM recorder

One action per critical section; copying a frame and compressing one happen outside the
mutex and take time, so each has a start and an end. A write may fail. Left
out: the throttle, which only decides whether a capture is called, and counters for the log.

### DRM display

The steps of `srapi_drm_present` and `vt_handle_resume` are cut wherever a signal
handler can come between and be noticed; a handler itself is one step (the two signals
do not interrupt each other in a way the flags would show). The kernel is modelled as
far as the code depends on it: a flip needs the master and an empty queue,
MODE_SETCRTC completes a flip that is still queued, one read takes all unread events,
the program on the other terminal releases the master before it acknowledges. A poll
that times out after three seconds is `FlipTimesOut`, bounded by `MaxTimeouts`.

### Tile cache

The picture is a row of pixels cut into columns; y is treated as x. A clear and a filled
rectangle stand for the shapes, a scissor for what clips them; a hash is the value that
was hashed, so that 64 bits do not collide. `image` is what is drawn with the cache,
the ghost `plain` what is drawn without. Left out: the other shapes, blending, and lists a
backend refuses. Two differences are in what is left out: `cpu_render_tile` has no
case for DRAW_VERTICES (tile_cache.c:231), and the hash is stored before the tile is
drawn (tile_cache.c:273), so that a refused list is skipped the second time.

### sprot

The streams are queues without a limit: how much fits is the kernel's affair, and no code
looks at it. A call that waits is one action per turn of its loop; `await_event` puts a
message it does not want into the ring and takes it out again, a busy loop as long as the
socket is readable. A surface destroyed before its CREATED event came is an orphan in the
server until the client has gone, which `NoOrphans` states exactly.
`wait_surface_ready` takes any CREATED for its own. `PresentCopy` draws through a memfd also when
the surface shows a buffer of the application.

### ranal and wlbridge

`Ranal` has the tree and one pass over the events, `RanalFrame` the frames; they share
nothing but the widgets' look, so each stands alone. Left out of them: offscreen contexts,
hooks, layout, pixels, the wait of 50 ms. As in the code, a popup role with id 0 is never
tried again, and a popup's surface is never resized. On the display an application may lose its
terminal at any time: `SwitchAway` and `SwitchBack` set the flags of drm.c's two handlers, and a
present in between is dropped (`Flipped`; `DrmDisplay` has its steps).

In the bridge a step is one request or one event. A commit is put off until the surface
and its parent have ids. Left out: cursor surfaces, surfaces that change between kinds
of buffers, buffers destroyed while a commit is put off (the code keeps a pointer to
them), a second attach while one is put off, the render node's question, globals without
state, and calls of sprot that fail. A plane above 0 only gives away its descriptor.
In the seat left and right of a modifier share a bit that either release clears, CapsLock toggles
the lock when pressed, and the keyboard's focus goes with a surface that is destroyed but stays on
one that only loses its role and thereby its surface of sprot (`LoseRole`).

### term

A sequence is accepted with any parameters and from any row, as in the code: the margins may lie
below the screen or the wrong way round, and ESC M, ESC D and CUU then take the cursor out of
the grid, which the ghost `stray` notes. Printing, erasing and shifting there touch cells that are
none of the grid (`Outside`); what they hit C does not say, and the model goes no further. Seen
 on the way: after a full last line the cursor is drawn one cell beside the row; a line
feed below the margins jumps up and scrolls; an OSC that ends with ESC \ swallows output up
to the next BEL, against its comment; ESC c keeps the margins; when the surface cannot be
allocated the shell is hung up but not waited for. That the main loop goes on assumes that
a shell pauses now and then, as `pty_drain` loops while there is output, and that
it ends when hung up.

### mlink

Files are the symbols they define and want; a name is a model value, an address an
object. Sizes are scaled: a page is 8. As in the code, any definition after a strong one is
refused as a duplicate, a weak one too (symtab.c:136), and a weak one that is overridden is still the one that relocations of its own object use
(reloc.c:71); names of the linker, PROVIDE and `--defsym` override a common variable and its
storage is lost (symtab.c:216); macros of members that are not selected apply; an alignment
above a page holds if the base has it. Left out: which `-L` comes before which `-l`,
`--defsym` given twice (an error), the text of the map.

### net, down, nsetup

A body is a sequence of numbered bytes; reads take any part of what is there; the answer
may be cut anywhere. A body that ends with the connection counts as complete wherever
it ends, a status that is no success ends with 0, the file is emptied before anything is known, and
the result of its last flush is ignored; the model does the same. robots.txt is a download like
the page, and the lines that are judged are those that its download wrote, one byte standing for one
line: a line that was doubled is judged twice, one that was lost not at all. A group ends only at
a blank line or a comment; `Ours` says of which lines the verdict is made, in the terms of the
file and not of the loop. Values are made lowercase and the path is not,
which is below the model. Left out: redirects, which the code has none of, the text of
heads and URLs, timeouts while reading (there are none), TLS. `net/socket.c` is never called.

In `Nsetup` what was sent stays in `replies`, so that it may arrive late, twice or
never; servers answer repeated discovers and refuse or grant a request. Any NAK for us
ends the program, also one of a server that was not asked. An ACK with another address than the requested
one is not looked at by the code; the servers of the model do not send it.

### srapi

Each of the nine modules is one part of the library; `Srapi` composes them as a program
that uses one at a time. A draw refused in the middle of a submit ends it, and what came
before stays. On the cpu SHADE_RECT ignores the scissor, on i915 it is clipped by it: the ghost
`meant` is the picture of the cpu, and `apart` where the two differ until something is painted
over it. An unmap without a map takes away the image's mapping, so pairs are assumed. A fill
that leaves the target under a scissor is refused on i915 and clipped on the cpu; a GEM_WAIT
that times out leaves the blit in flight. `SrapiResources` has one ladder of calls for each
kind of object, and what each error path gives back; objects are destroyed before their
device, which the code needs but does not check. Connectors that appear between the two
questions of the probe make its loop read behind the array; they are left out. A key held
on a device that is removed stays held; two devices share the state of keys; SYN_DROPPED is ignored.

The two interpreters of shaders are two sets of definitions, `ScalarStep` with `ScalarValue` and the
helpers of exec.c, `SimdStep` with `SimdValue` and those of exec_simd.c; in common they have only
the arithmetic of the processor (`Plus` to `Root`). A float is a number in halves, or `NaN`.
`Parts` lists where they differ, and each line of it is needed: without it TLC finds two pictures.
Left out: infinities; the sign of zero, which clamping and fractions treat differently and only POW
could show; rounding, where a compiler that fuses operations may differ in the last bit.

## 3. The runs

All bounds are CONSTANTS with values in the cfg files; the names there (`SomeFiles`) are sets
defined in `OneTool` and `Srapi`.

| run | question | bounds |
|---|---|---|
| `swm_trees` | do lists, owners and parents agree; can a client touch another's surfaces; is the table a forest per client (refinement of `SurfaceForest`) | 2 clients, 3 slots, 2 surfaces each, 3 creates |
| `swm_pointers` | can the pointer, a move or a cursor outlive its surface, or pass to another one in the same slot | 2 clients, 2 slots, 3 creates; motion, left button, alt |
| `swm_taskbar` | does each painted frame agree with the table and with the keyboard focus | 1 client, 2 slots, 3 creates, one taskbar item |
| `swm_frames` | is every frame event delivered (liveness) | 2 clients, 2 slots, 2 creates |
| `threadpool` | is every tile run once, the job never used after its return, dispatch always left (refinement of `ParallelFor`, liveness) | 2 workers, 3 tiles, 2 pooled calls |
| `drm_record` | do the two threads ever share a slot; is the file complete and in order (refinement of `Recording`); does stopping return | 3 slots as in the code, 6 frames per recording |
| `drm_display` | is the drawn buffer off the screen; do stale events pile up; does the picture come back | 3 flips given up |
| `tile_cache` | is the picture that of srapi without the cache, on the cpu | 3 pixels, at most 2 columns, lists of 2 commands, one target |
| `sprot` | does the library show what was drawn, keep events in order, know the right ids, and leave nothing at the server | 3 handles, 2 surfaces at the server, a ring of 2, 1 resize, 1 buffer of the application |
| `onetool` | is each tool safe, and does it end or settle: widgets and the bridge (`GuiSafe`), what linker, terminal and network hold, keep apart and leave behind (`RunsSafe`), what they compute (`ResultsRight`), liveness of all (`ToolsSettle`) | in `OneTool` and its cfg |
| `srapi` | the same for the parts of srapi: drawing (`DrawingSafe`), kernel objects, probe, input (`DevicesSafe`), liveness (`PartsSettle`) | in `Srapi` and its cfg |
| `download` | is the body of a download the one that was sent: **violated** | a body of 3 bytes |

A group such as `RunsSafe` is the conjunction of one implication for each tool, "if the process
runs this tool, its invariants hold"; the invariants themselves stand in the tool's module, each
with a comment that says which code it is about, and each has a mutant of its own in
`PROJECT.json`. `ToolsSettle` says that a tool that has something to do (`Waits` of its
module) comes to where it has not (`Settled`). One process runs one tool, so the states of
the tools add up and do not multiply.

Why the bounds are enough to meet the interesting cases:
* Three creates in two or three slots: a slot is used a second time, in every state of
  pointers and lists. Two surfaces for a client and a third slot: the list and the table
  fill up independently of each other. Two surfaces are enough for a tree and for a
  cycle. One taskbar item for two windows: there is a window without one. What depends
  on more is covered by the proofs, which hold for every size.
* Two workers and three tiles: one worker may take two tiles, none, or sleep through the
  whole job; the second call finds workers still asleep from the first.
* Six frames wrap the ring of three slots twice.
* In `drm_display` more flips given up add nothing: at most one event is left over
  between two presents (`Queue` in `DrmDisplay`).
* Width 3 in two columns leaves a narrower last tile; areas and scissors of
  `Clipped` begin before the picture, end within a tile, at its edge and behind the
  picture. `Word` stands for 2^32 and only has to exceed every width.

* `sprot`: three handles for two surfaces, so that one is made when an older one is gone and
  its answer still under way; two places in the ring are one more than ever used
  (`RingHoldsOne`, proved for every size).
* `onetool`: a focused textbox and a slider, one in a popup, are a pointer into a tree and one
  into a tree that is destroyed; a toplevel, a popup and a subsurface are a chain of parents; 
  three input files are a program, and two members that need each other; three rows with
  margins that may be any, and four sequences, move rows in every direction and the cursor out of
  the grid; two keys share a bit, a third has one of its own; a body of three bytes comes in two pieces
  and two chunks; a robots.txt of as many lines is an agent with two rules or two groups; three
  hosts and two slots evict a session; three servers of addresses include one that is ignored.
* `srapi`: a list that is one longer than the room it has; pictures of two by two pixels, lanes and
  tiles of two, so the last chunk and the last tile are shorter; shaders of up to five instructions,
  with numbers below 0, between 0 and 1, above 1, beyond the last int, and no number; triangles at all
  positions in a square of five; a ring of input events that grows once while it is wrapped and then drops.

`CHECK_DEADLOCK FALSE` stands where the system may stop: swm after its shutdown or a
stack overflow, the pool after its last call, sprot and the tools when a bound or the end is
reached.

### Fairness

* `Swm`: the loop comes round (`poll` has a timeout of 8 ms), so a repaint that is due
  happens while it runs, and shutdown follows quitting. A strong fairness says that a
  client that reads its socket has room in it again and again; a client that never
  reads is owed nothing.
* `ThreadPool`: every thread that can step does in the end; `fn` returns.
* `DrmRecord`: the worker is scheduled, and a call that was begun is carried on. Nobody
  has to start, capture or stop.
* `DrmDisplay`: signals that were sent arrive, a queued flip completes (its
  event may come after the poll gave up), and the compositor keeps presenting, which it
  does because its desktop repaints every 500 ms (main.c:250). The user has to do nothing.

* `Sprot`: swm dispatches what it can read and notices a client that is gone, as it polls
  all of them in each turn of its loop.
* `OneTool`, `Srapi`: the program takes its own next step (weak fairness of one
  action for each part). A user, a client, a server or a device owes nothing. Two parts need more: a
  shell pauses (term), and the wait for a DHCP reply has one deadline, which replies that are passed over
  do not prolong (`Progress` in `Nsetup`).

## 4. What is proved

For every value of the constants, under the assumptions named in the modules (finite
sets, sizes that are natural numbers, at least one where the code has at least one;
an object is a list of symbols and of macros, a field is a part of a word):

| module | theorems |
|---|---|
| `SwmProofs` | `TypeOK`, `OwnersAgree`, `PointersAlive`, `TreesOwned`, `CursorFollowsPointer`, `ClientIsolation`, `NoSilentHandoff`, `TaskbarAgrees`, and that the compositor implements `SurfaceForest` |
| `SrapiThreadProofs` | `TypeOK`, `NoStaleJob`, `ReportsCounted`, and that the pool implements `ParallelFor`; `RecordTypeOK`, `SlotsApart`, `FileInOrder`, and that the recorder implements `Recording` |
| `DrmDisplay` | `TypeOK`, `OneRead`, `DrawnOffScreen` |
| `TileCacheProofs` | `HashSound`; `TypeOK` and `SameImage` for one target drawn on the cpu, or without scissors on i915 |
| `SprotProofs` | `TypeOK`, `RingHoldsOne`, `EventsInOrder`, `IdsAgree`, `NoOrphans`, `CommitShowsDrawn` |
| `SrapiProofs` | `TypeOK`; `DrawingSafe`: lists and submits, copies and views, shaders, lines and triangles, the tile cache, the blitter, for pictures, lists, buffers, shaders and grids of any size; `DevicesSafe`: objects, probe and input, for any rings, bounds, steps and numbers of devices |
| `OneToolProofs` | `GuiSafe` (`WidgetsSafe` and `BridgeSafe`): ranal, wlbridge and its launcher, for any widgets, surfaces, keyboards, descriptors and rectangles; the invariants of mlink, for any objects, sections and fields |
| `OneToolRunsProofs` | `RunsSafe`: relocations, screen and session of term, downloads, TLS sessions and DHCP, for any fields, grids, keys, tables, threads and servers; `ResultsRight`: symbols and layout of mlink, the lines of term, bodies and robots.txt, the session table, for any objects, sections, screens, bodies, rules and hosts; `TypeOK` of all fifteen modules |

The arguments:
* **swm.** The conjunction of the invariants is inductive with one addition, `CursorOld`
  (the cursor's surface has been created: its id is no future one, so a create cannot
  bring it back). Neither part is inductive alone: that a freed slot is in nobody's list needs
  `OwnersAgree`, that freeing a subtree stays within one client needs `TreesOwned`, and that the
  list of the dropped client is empty afterwards needs both. `Subtree` is defined as the
  least closed set, so the proofs use it through two lemmas, `SubtreeClosed` and
  `SubtreeLeast`, and never by recursion; they hold with cycles too. `ClientIsolation`
  and `NoSilentHandoff` are steps from states of the invariant.
* **Thread pool.** `Handover` says where a thread can be for the values of `lastSeq`,
  `jobSeq` and `workersDone`: while a worker is inside a job it has not reported, and the
  dispatcher cannot pass its join. `Claims` says that the tiles below `next` are exactly
  those that were taken, each by one thread; with it each step of the pool is a step
  of `ParallelFor` or none.
* **Recorder.** `RingInv` ties the slots between `head` and `head + count` to consecutive
  frame numbers, with the arithmetic modulo the size of the ring in three lemmas
  (`Wrap`, `Distinct`, `Advance`). The slot being filled stays outside this range
  although `head` moves, because `head + count` does not change.
* **Display.** `Queue` counts the events and the queued flip by the position of present;
  `InTime` says, until a flip is given up, which buffer is shown, queued or announced.
* **Tile cache.** Each hash has a `Meaning`: the tile shows what drawing any list with
  this hash would leave. That the hash determines what is drawn is `HashSound`, a
  statement about lists alone; that no list has the hash of an empty entry is `NeverNoHash`.
  The grid covers the picture (`Covered`), so tiles together are the picture. On i915 the same
  holds of lists without scissors: the clip of a tile is the tile then (`ClipIsTile`). With scissors
  it is false, see section 5.
* **sprot.** The ring is empty whenever no call waits: only `await_event` fills it, and its next
  turn looks there first (`Types`). The rest is about what is between the ends. `Numbered`:
  the numbers of ring and stream grow, in this order. `Fresh` and `Once`: a handle is asked
  for once, and a creation is either asked for, or answered, or known by its id at
  both ends. `Waiting`: a wait that began with no creation open finds no answer but its own.
  `Owned`: a surface of the compositor has its object in the client, or was destroyed
  early, or its DESTROY is on its way. `Drawings` and `Painted`: followed from the
  buffer the compositor has now through the ATTACH requests of the stream, each COMMIT finds the
  buffer that the client drew in. Each part is proved from those before it, for five
  kinds of step on the client's side and two on the compositor's.
* **The taskbar.** Every handler that may change a window asks for a repaint, so that
  it is enough to look at `Repaint`: `de_tick` counts and marks what it finds. That the topmost
  window is one of them needs no distinct ranks, only that a finite set has a maximum.
* **What srapi's objects take.** `Balanced` says of each kind of object that every way out of
  its creation, and its destroy, gives back exactly what the calls before it have taken
  (`Taken`), each thing once and what rests on another first (`Undoes`). The creations and error paths
  are tables in `SrapiResources`, so `Balanced` is shown once for each of the eleven
  kinds, from its row. `ObjectsInv` then says that an object on its way out holds what is still
  to be given back, and `Nested` that nothing is held that lives on a device or a display
  that is not open.
* **The probe.** `ProbeInv`: no card so far has more points than the best one, those before it
  have fewer, and more than ten points mean a display.
* **Input.** `RingInv` is the arithmetic of the ring: it is walked by less than one turn
  (`Turns`), so the i-th event has a cell of its own before and after a push, a pop and a growth
  (`PushQueues`, `PopQueues`). `EventsTellAll` is not inductive, since it says nothing of
  the events between; `Account` is: there is a function `f` from the number of
  queued events that were taken to what is known then, which begins with what was `told` and
  ends in the state. A push makes `f` longer by one value, a pop drops its first, a growth leaves it
  alone. `KnowingIs` shows, by the least number where they would differ, that the
  recursive function of `Knowing` is this `f`.
* **Recursive functions.** What a submit leaves, what a shader computes, what the decoder reads, what
  the linker makes of symbols and sections, and what a list of rules comes to, are recursive
  functions of the model. That there is one with the values its equation gives is `Unrolled`, for
  functions whose values are told by those before them; what holds of all values is shown
  with `Climb`: of the numbers for which it fails the least would have a smaller one. This is
  how far induction over data goes here: the numbers are those of one given sequence.
* **Submits.** `SubmitInv` keeps the state well-typed; the states of one `Run` follow from it: before
  command i the scissor is the last one set, and each pixel has the colour of the last command
  that covers it, as long as no draw was refused. What was read is in the buffer because
  `Accepted` looks at the indices of that moment, whatever was written since recording.
* **Copies and views.** The code subtracts unsigned words after it has compared; `Minuses` says when
  such a difference is that of numbers. Rows that are at most `pitch` apart do not
  meet, so the pairs of pixels are one to one. `mapped` is the count of the host and that of the view.
* **Shaders.** A pixel lies in one row of one tile and one lane of one chunk (`RowAndColumn`), so it is
  written once; what is beyond the last lane is masked. `Agreeing`: after each instruction of a
  tame pixel the registers of both interpreters are the same and the colour of one is the bytes of
  the other. It rests on one lemma for each operation whose two forms differ: the fraction by truncation
  and by the floor, clamping by two branches and by min and max, the quotient by a test and by two
  blends, the root by a test and by a maximum, and a byte from a clamped or an unclamped float.
* **Lines and triangles.** `LineInv`: the point of the line is i steps along one axis and j along the
  other, the error term is what these make of it, and twice the distance to the straight line
  is at most the longer side (`Near`). A step keeps it (`Turned`), with either
  comparison of the code (`>=` for lines, `>` for those with vertices). For two triangles, `Balance` is an identity between the sides at a
  pixel: with it a pixel that is inside all four sides of the quadrangle is inside one of its
  halves, and one inside a half is inside all four (`NoGap`); turning round the other way
  is the same with all signs changed.
* **The blitter.** `Coming`: until something is overdue, memory is what was asked for so far as soon as
  the ring is empty, apart from what only the cpu renderer shades, and the CPU draws only then.
* **Widgets and frames.** A popup that is closed leaves the focus on what it freed, and the caret
  goes; `adrift` is true just then, and `RanalInv` says that otherwise the caret is the focus.
  A drag outlives the button only until the pass looks at it: `RanalInv` says, for each phase of
  the pass, which of the two samples of the button (`prev`, `curr`) must have been down. In
  `FrameInv` the framebuffer has the size of the window, or there is none; a picture that is not shown
  has a mark, or frames to come, or a terminal that was left (`paused` outlasts `away` until a
  present has resumed).
* **The bridge.** That what is shown is in place needs to know what was told: `ToldInv`, who has an
  id and whose parent has one was told, and of what was told swm has the parent of now. `RolesInv`:
  who has a surface of swm has a role, or had a toplevel. `OrphansInv`: until a parent leaves
  children, swm has every surface the bridge asked for, so it sends no ERROR. What swm frees with
  a surface is a least closed set (`Tree`), so the proof needs only that it is one (`Loses`).
* **Descriptors.** `Kept`: each descriptor that came for a plane is open if and only if the slot of
  that plane or the buffer has it; a buffer that exists has emptied the first slot, and
  its params object takes nothing more. With `Holders` (a slot holds only what came for it) the
  number of owners is one.
* **Seat, launcher, popups.** The three properties of the seat are inductive together: a bit that is
  set has a key of it that is down, and a key that is down and alone with its bit has it set.
  `LauncherInv` lists which children live at each step. For a popup, each adjustment of
  `Adjusted` is followed by what it leaves: it fits, or it may not be adjusted so.
* **The linker's table.** `Stands` says what one name is in the table after k of the symbols that are
  gone through: by whom it is defined, whether strongly, whether a common symbol has
  reserved room, whether somebody wants it. It goes from k to k + 1 by the kind of the symbol,
  and for the last k it is `ResolvedRight`. `LinkRight` names the passes from which on each
  fact holds: the macros that are injected later may define a name but take none away.
* **Members of archives.** `LinkSelects`: every selected member defines a name that a selected object wants,
  and when a walk has changed nothing so far, none that it has passed is needed. So a
  walk that ends without a change is the last one with reason, whatever the order of the archives.
* **The layout.** `Ends` only grows, so among sections of a kind each ends before those after it
  begin, the last one where the kind ends, and each kind begins after the one before it.
  `AlignUp` is a multiple of the alignment and not below what it is given (`AlignUpIs`).
  Nothing of this needs an invariant beyond the types: it holds of every list of sections.
* **Relocations.** A word and a field are residues; `SignedRoundTrip` and `UnsignedRoundTrip` say
  that a number which passed the test of its field comes back as the residue it was, by
  three facts on remainders (`SmallRemainders`). The rest is one case for each type.
* **The screen.** Until `stray`, each step leaves the cursor in the grid, whatever the margins are: a
  restored one is clamped, and what stops at a margin was in the grid or comes to one that is
  (`CursorInv`). The view is in the history only if a row pushed moves it along
  (`HistoryInv`, with `NewestIsSequence` for the rows that fall off). `GridInv`: while the other
  grid is shown no step touches the first one.
* **The lines of the screen.** `InOrder`: of two cells of the history and the first grid, the one that was
  written first is in place first. A scroll moves lines by an increasing map of their numbers
  and fades the others, a line that goes to the history is the first of the grid, and the
  history loses its first. `Complete` counts what cannot have been lost while `lossless` holds.
* **The shell's keys.** `taken \o waiting` ascends and is at most `typed`: a flush moves the
  border between the two, a full buffer drops the new key. `SessionInv` says, too, at which turn
  of the window a shell may live.
* **Downloads.** `FetchInv` lists for each step of a download the descriptors that may be open; a
  request for the page is only reached by steps that follow the verdict on robots.txt.
* **Bodies.** `BodyInv`: what was written and what is still to be read (the rest of the head's buffer, then the
  wire) are, one after the other, the body as it was framed, or a beginning of it, since the connection
  may be cut. For chunks this is said of the l
  last bytes that are still to come, for every l (`Chunked`), with a place within the chunk that is being
  read. For a length `Second` says what comes instead: what came with the head, once more what came with
  the head as far as there is room, and the next bytes of the wire (section 5).
* **robots.txt.** What `After` makes of the first k lines that were written says which rule is the
  longest so far and whether the group at hand is ours; the verdict is that of the last line.
* **TLS sessions, the latest.** `LatestInv`: a slot has the time at which its host was used last, no two
  hosts have the same, and who was used and has no slot was used before all that have one.
  The victim is the oldest slot (`VictimRight`), so putting a session in keeps this.
* **TLS sessions.** References are counted over three sets: slots, connections that hold the
  session, and those that have shaken hands and hold it twice. A step changes each set by one
  element (`DifferInOne`), of a table and of connections of any number.
* **DHCP.** Every acknowledgement for us comes from a server that has given its address
  (`Acknowledged`; of what arrives unasked, `DhcpAssumption` leaves out just this one). So the
  lease is one server's from then on (`LeaseGranted`), and `SetSoFar` says, by the order
  of the settings, which of them have been taken from it.
* **SurfaceForest.** `owners` and `parents` turn the slots upside down: what has the id.
  That they are functions is `TreesOwned` (ids are unique), and that freeing a
  subtree destroys one client's trees, closed under children, is `Subtree` by its two lemmas.

The types of the tools (`ToolTypes`) follow from the same invariants and from what bounds each
counter, with the steps of all fifteen modules gone through once more.

Only model-checked: the liveness properties (`FrameDelivered`, `DispatchReturns`,
`StopReturns`, `ComesBack`, `GoneLeavesNothing`, `ToolsSettle`, `PartsSettle`), since fairness and
ENABLED are out of the prover's reach. Every invariant that a passing run checks, and every
action property and refinement, is the statement of a theorem as well.

## 5. Where the code and its documents disagree

* **A body with a Content-Length** (run `download`). What came with the head is written, and then
  the loop at http.c:312 reads through a stream whose `prefill_pos` is still 0: the
  same bytes are written again, and as many at the end are never read. docs/libs.html:420
  says the prefilled data are written first and the rest is read. `BodyWritten` has
  what does hold: what came with the head is doubled, so all is well when the head comes alone or with
  the whole body. robots.txt is read in the same way, and the verdict with it. docs/libs.html:442
  says its body is read "non-chunked, connection-close"; all three framings are.

Others were met with runs of the same models and have none in the present set:

* **A frame event that waits for somebody else.** main.c:128 re-arms
  an event it could not send "so the client can pick up the frame next tick", and main
  then clears `needs_repaint`. Without a desktop, whose timer makes the next tick,
  there is none until another client or the user does something.
* **Drawing on the screen after a late flip.** When the poll at drm.c:722 times
  out, present returns with the flip queued and `front` unchanged. The next frame is
  drawn into the buffer that is about to be shown, and the late event then answers the
  next flip. docs/srapi.html:1381 promises that one renders to the back buffer.
  `DrawnOffScreen` states what holds until a flip is given up.
* **The verdict of robots.txt.** docs/libs.html:444 takes the first section that matches exactly, then
  `*`, and forbids what any Disallow line begins. robots.c:88-164 takes the rules of all groups that
  name us or `*` together, and the longest one decides, Allow lines too, the first of two as long;
  groups run together when no blank line is between them. `VerdictRight` states what the code does.
* **A weak definition after a strong one.** docs/tools-dev.html:204 has strong override weak and only
  two strong ones refused; symtab.c:136-146 takes a weak one that comes after a strong one for a duplicate and
  fails, while the other order is accepted. `ResolvedRight` says that none follows a strong one.
* **Shaded rectangles and scissors.** docs/srapi.html:896 says that `set_scissor` modifies the state for
  subsequent draw commands. renderer.c:478-505 of the cpu ignores it for SHADE_RECT, i915 clips by it
  (render3d.c:343, 380); `PaintsAsCpu` leaves out just the pixels where this shows.
* **Two interpreters.** docs/srapi.html:1746 calls the scalar path the reference and its results identical
  but for rounding. They differ in the fraction of what no int holds (exec.c:28: the cast gives the
  smallest int; exec_simd.c:32 has the floor), in a quotient by no number (no number, or 0), in the root
  of no number (0, or no number), in a blue that is no number (of the smallest int it converts to,
  one bit lands on alpha), in inputs and uniforms that do not exist (the register stays, or becomes 0), and
  in OUT_POSITION (an error, or nothing). `Parts` in `ShaderVm` is this list.
* **The cursor of the terminal.** clamp_cursor (term.c:239) keeps most sequences in the grid. ESC M on the first
  row with the margins below it, ESC D on the last row with the margins above it, and CUU with
  the margins below the screen (term.c:353, 455, 571-579) take the cursor out, and the next character
  is written outside of the cells. `CursorInGrid` says that nothing else does.
* **A terminal that was left.** srapi_drm_present answers OK while another terminal is active
  (drm.c:709), ranal clears `dirty` and counts the frame as presented, and when the user comes back an
  idle application does not present, so nothing resumes the display: it stays dark until
  something changes. `ShownWhenIdle` excepts this.
* **The focus of the keyboard and roles.** A popup or subsurface object that is destroyed takes the surface
  of sprot along and leaves `keyboard_focus` on its surface (xdg.c:451-467, subcompositor.c:5-19), so keys go
  on to a surface that is not shown; only the end of the surface drops it. And of two shifts that are
  down, releasing one clears the bit of both (input.c:194-208).
* **The scissor and the tiles beside it.** i915.c:1048 computes the width of the clip
  without a sign; left or right of the scissor it wraps and the tile is painted.
* **One set of hashes for two buffers** (tile_cache.c:271). With the tile cache
  on and two buffers in turn, what was drawn into one is skipped in the other.
* **The preferred mode.** docs/srapi.html:395 and 1366 promise it for a display opened without a
  wish; `choose_mode` (drm.c:251) takes the first mode of the list, as every mode matches
  no wish, and the preferred one is never looked at. `srapi_drm_set_mode` takes over the new crtc
  before the call that may fail (drm.c:807).
* **HEAD** is among the methods that down's documents list, but an answer to it with a
  Content-Length is read for a body that never comes.
* The help text of swm says Ctrl+Alt+Esc quits (main.c:146); either modifier is enough
  (interaction.c:253), and the start-up message "press Esc to quit" (main.c:246) is wrong without
  one. The comment of `de_action_tile` (de.c:773) says id order; the loop follows the slots.

## 6. What is not modelled, and the plan

Hazards of modelled code that no property covers, because nothing in the repository
says what should happen, or because they lie outside a model's assumptions:

* A second thread that calls dispatch of the pool (threadpool.c:95); the program has one.
* A cycle of parents in SET_ROLE, whose freeing recurs without end (protocol.c:362); in `Swm` it
  is the phase `overflow`. A failed attach has unmapped the old buffer of a shown surface
  (protocol.c:233), and attach, not commit, changes what is painted (234).
* A press and a release on the taskbar matched by position (de.c:974; 574 for the items kept);
  the release of a button that goes elsewhere than its press, enter and leave events that
  are dropped when the socket is full, and blocking sends (interaction.c:216, 129, 278; msg.c:78).
* The result of fclose after a recording (record.c:195); the master taken on a
  terminal that was left again (drm.c:393, 461, 515); a hash stored before the tile was drawn
  (tile_cache.c:273).
* Objects of srapi destroyed while a list points to them, or after their device; a popup
  of ranal that lost its role.

What is left, in the order of what matters most:

1. Choosing an output (drm.c:157-348) against the preferred mode; blending and the other
   shapes of the tile cache; the i915 address space; refused lists with the cache on.
2. lmake's order of targets, the forms of `tui.c`, brainfuck's compiler against its
   interpreter, yap's control flow, the process list of taskmng.

Out of scope: code generated by wayland-scanner; the arithmetic of pixels and colours,
which unit tests reach better; tools that print what one system call returns; demos and
games; help texts, logs and build files. `PROJECT.json` gives the reason for each component.
