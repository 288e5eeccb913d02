----------------------------- MODULE SrapiInput -----------------------------
(***************************************************************************)
(* srapi's input context (input.c, evdev.c, scancode.c): devices that are  *)
(* found, added and removed, the state of keys, buttons and pointer over   *)
(* all of them, and the queue of events, a ring that grows up to a limit   *)
(* and then drops what comes.  One thread; the devices and what they       *)
(* report are the environment.                                             *)
(*                                                                         *)
(* The pointer moves on one axis; the wheel, tilt clicks and time stamps   *)
(* are left out, as are the codes a device sends that have no scancode.    *)
(***************************************************************************)
EXTENDS Integers, Sequences, FiniteSets

CONSTANTS Paths,       \* /dev/input/event*, in the order in which they are tried
          Keys, Locks, \* keys and buttons, and those among them that lock (caps, num)
          Steps,       \* how far a report moves the pointer
          Wide,        \* the bounds that set_bounds gives
          Initial,     \* SRAPI_INPUT_QUEUE_INITIAL
          MaxQueue,    \* SRAPI_INPUT_QUEUE_MAX
          MaxDevices,  \* SRAPI_INPUT_MAX_DEVICES
          MaxId        \* bound: device ids

VARIABLES
    devices,      \* the list of devices: id and path
    lastId,       \* next_device_id
    cells, head, tail, count,    \* the ring of events
    keys, locks, x, bounded,
    console,      \* ghost: the keyboard mode of the console, "on" or "off"
    opened,       \* ghost: how often each path is open
    told,         \* ghost: what a program knows that follows the events it gets
    missed        \* ghost: an event was dropped since the last flush

queue == <<cells, head, tail, count>>
state == <<keys, locks, x, bounded>>
input == <<devices, lastId, queue, state, console, opened, told, missed>>

Capacity == Len(cells)
Ids == {devices[i].id : i \in 1 .. Len(devices)}

\* What is queued, the oldest first.
Queued == [i \in 1 .. count |-> cells[((head + i - 1) % Capacity) + 1]]

-----------------------------------------------------------------------------
(* The ring *)

\* Mutant: the cells are copied as they lie.
GrownAsIs(n) == [i \in 1 .. n |-> IF i <= Capacity THEN cells[i] ELSE <<>>]

\* queue_grow copies the events to the front of the new ring.
Grown(n) == [i \in 1 .. n |-> IF i <= count THEN Queued[i] ELSE <<>>]

Blank == [keys |-> {}, locks |-> {}, x |-> 0, devices |-> {}]

\* srapi_input_queue_push of one event; an event too many is dropped, and who
\* follows the events knows nothing for sure.
Push(e) ==
    LET n == IF 2 * Capacity > MaxQueue THEN MaxQueue ELSE 2 * Capacity
        put(ring, at) == [ring EXCEPT ![at + 1] = e]
    IN  \/ /\ count < Capacity
           /\ cells' = put(cells, tail) /\ tail' = (tail + 1) % Capacity
           /\ count' = count + 1 /\ UNCHANGED <<head, missed, told>>
        \/ /\ count = Capacity /\ n > Capacity
           /\ cells' = put(Grown(n), count) /\ tail' = (count + 1) % n
           /\ head' = 0 /\ count' = count + 1 /\ UNCHANGED <<missed, told>>
        \/ /\ count = Capacity              \* no larger ring, or no memory for it
           /\ missed' = TRUE /\ told' = Blank /\ UNCHANGED queue

Learn(k, e) ==
    CASE e[1] = "down" -> [k EXCEPT !.keys = @ \cup {e[2]}, !.locks = e[3]]
      [] e[1] = "up"   -> [k EXCEPT !.keys = @ \ {e[2]}, !.locks = e[3]]
      [] e[1] = "motion" -> [k EXCEPT !.x = e[2]]
      [] e[1] = "added" -> [k EXCEPT !.devices = @ \cup {e[2]}]
      [] e[1] = "removed" -> [k EXCEPT !.devices = @ \ {e[2]}]

\* Mutant: the head goes past the end of the ring.
PopStraight ==
    /\ count > 0
    /\ told' = IF missed THEN told ELSE Learn(told, cells[head + 1])
    /\ head' = head + 1 /\ count' = count - 1
    /\ cells' = [cells EXCEPT ![head + 1] = <<>>]
    /\ UNCHANGED <<devices, lastId, tail, state, console, opened, missed>>

\* srapi_input_queue_pop.  A cell is blank here when nobody will read it.
Pop ==
    /\ count > 0
    /\ told' = IF missed THEN told ELSE Learn(told, cells[head + 1])
    /\ head' = (head + 1) % Capacity /\ count' = count - 1
    /\ cells' = [cells EXCEPT ![head + 1] = <<>>]
    /\ UNCHANGED <<devices, lastId, tail, state, console, opened, missed>>

\* srapi_input_flush; a program that uses it then asks for the state.
Flush ==
    /\ head' = 0 /\ tail' = 0 /\ count' = 0
    /\ cells' = [i \in 1 .. Capacity |-> <<>>]
    /\ told' = [keys |-> keys, locks |-> locks, x |-> x, devices |-> Ids]
    /\ missed' = FALSE
    /\ UNCHANGED <<devices, lastId, state, console, opened>>

-----------------------------------------------------------------------------
(* Devices *)

\* srapi_input_create without auto_discover; with grab it takes the keyboard
\* from the console first, if there is one.
Init ==
    /\ devices = <<>> /\ lastId = 0
    /\ cells = [i \in 1 .. Initial |-> <<>>] /\ head = 0 /\ tail = 0 /\ count = 0
    /\ keys = {} /\ locks = {} /\ x = 0 /\ bounded = FALSE
    /\ console = "off" /\ opened = [p \in Paths |-> 0] /\ told = Blank /\ missed = FALSE

\* srapi_input_add_device, and one round of srapi_input_scan_evdev: the device
\* is opened, and closed again when the list cannot take it.
AddDevice(p) ==
    /\ Len(devices) < MaxDevices /\ lastId < MaxId
    /\ lastId' = lastId + 1
    /\ devices' = Append(devices, [id |-> lastId + 1, path |-> p])
    /\ opened' = [opened EXCEPT ![p] = @ + 1]
    /\ Push(<<"added", lastId + 1>>)
    /\ UNCHANGED <<state, console>>

Without(i) == [j \in 1 .. Len(devices) - 1 |-> IF j < i THEN devices[j] ELSE devices[j + 1]]

\* Mutant: the list is closed up without closing the device.
RemoveUnclosed(i) ==
    /\ Push(<<"removed", devices[i].id>>)
    /\ devices' = Without(i)
    /\ UNCHANGED <<lastId, state, console, opened>>

\* srapi_input_remove_device: what is held on it stays held.
RemoveDevice(i) ==
    /\ Push(<<"removed", devices[i].id>>)
    /\ opened' = [opened EXCEPT ![devices[i].path] = @ - 1]
    /\ devices' = Without(i)
    /\ UNCHANGED <<lastId, state, console>>

-----------------------------------------------------------------------------
(* What the devices report: read_device *)

\* Mutant: the event carries the locks from before the key.
KeyTooEarly(k, value) ==
    /\ keys' = IF value # 0 THEN keys \cup {k} ELSE keys \ {k}
    /\ locks' = IF value # 1 \/ k \notin Locks THEN locks
                ELSE (locks \cup {k}) \ (locks \cap {k})
    /\ Push(<<IF value # 0 THEN "down" ELSE "up", k, locks>>)
    /\ UNCHANGED <<devices, lastId, x, bounded, console, opened>>

\* handle_key_event, which treats a button as a key that does not lock: 0 is
\* up, 1 down, 2 a repeat.  What is held is not kept for each device.
Key(k, value) ==
    /\ keys' = IF value # 0 THEN keys \cup {k} ELSE keys \ {k}
    /\ locks' = IF value # 1 \/ k \notin Locks THEN locks
                ELSE (locks \cup {k}) \ (locks \cap {k})
    /\ Push(<<IF value # 0 THEN "down" ELSE "up", k, locks'>>)
    /\ UNCHANGED <<devices, lastId, x, bounded, console, opened>>

\* Mutant: the pointer is told before it is brought back into the bounds.
PlacedAnywhere(at) == at

\* apply_mouse_bounds
Placed(at) ==
    IF ~ bounded THEN at ELSE IF at < 0 THEN 0 ELSE IF at >= Wide THEN Wide - 1 ELSE at

\* handle_rel_event and flush_syn: the motion of a report is told when it is
\* complete; a report is read whole here.  Without bounds the pointer is kept
\* near them.
Moves(d) ==
    /\ LET at == Placed(x + d)
       IN  /\ at \in -1 .. Wide
           /\ x' = at
           /\ Push(<<"motion", at>>)
    /\ UNCHANGED <<devices, lastId, keys, locks, bounded, console, opened>>

\* srapi_input_set_bounds brings the pointer in and tells nobody.
SetBounds ==
    /\ ~ bounded /\ bounded' = TRUE
    /\ x' = IF x < 0 THEN 0 ELSE IF x >= Wide THEN Wide - 1 ELSE x
    /\ UNCHANGED <<devices, lastId, queue, keys, locks, console, opened, told, missed>>

\* srapi_input_destroy: every device is closed, the console has its keyboard.
Destroy ==
    /\ console = "off" /\ console' = "on"
    /\ devices' = <<>>
    /\ opened' = [p \in Paths |-> opened[p] - Cardinality({i \in 1 .. Len(devices) : devices[i].path = p})]
    /\ cells' = <<<<>>>> /\ head' = 0 /\ tail' = 0 /\ count' = 0
    /\ keys' = {} /\ locks' = {} /\ x' = 0 /\ bounded' = FALSE
    /\ told' = Blank /\ missed' = FALSE /\ UNCHANGED lastId

Alive == console = "off"
Next ==
    \/ Alive /\ \E p \in Paths : AddDevice(p)
    \/ Alive /\ \E i \in 1 .. Len(devices) : RemoveDevice(i)
    \/ Alive /\ devices # <<>> /\ \E d \in Steps : Moves(d)
    \/ Alive /\ devices # <<>> /\ \E k \in Keys, v \in 0 .. 2 : Key(k, v)
    \/ Alive /\ (Pop \/ Flush \/ SetBounds)
    \/ Destroy

Spec == Init /\ [][Next]_input /\ WF_input(Alive /\ Pop)

-----------------------------------------------------------------------------
TypeOK ==
    /\ head \in 0 .. Capacity - 1 /\ tail \in 0 .. Capacity - 1 /\ count \in 0 .. Capacity
    /\ keys \subseteq Keys /\ locks \subseteq Locks
    /\ x \in Int /\ console \in {"on", "off"}

\* What one knows who has followed the events and takes the queued ones in order
Knowing ==
    LET after[n \in 0 .. count] == IF n = 0 THEN told ELSE Learn(after[n - 1], Queued[n])
    IN  after[count]

\* A program that follows the events knows what the context would answer it:
\* keys, locks and devices, through every growth of the ring, as long
\* as nothing had to be dropped.  The ring holds them in the order they came.
EventsTellAll ==
    Alive /\ ~ missed =>
        /\ Knowing.keys = keys /\ Knowing.locks = locks
        /\ Knowing.devices = Ids
        /\ ~ bounded => Knowing.x = x

\* With bounds the pointer is inside them, after set_bounds itself and after
\* every motion of every device.
PointerInside == bounded => x \in 0 .. Wide - 1

\* A device is open exactly while it is in the list, through removals
\* from any place in it and the end of the context.
OpenWhileListed ==
    \A p \in Paths : opened[p] = Cardinality({i \in 1 .. Len(devices) : devices[i].path = p})
=============================================================================
