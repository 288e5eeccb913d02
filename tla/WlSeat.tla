------------------------------- MODULE WlSeat -------------------------------
(***************************************************************************)
(* The seat of wlbridge for one client (input.c and the input events of    *)
(* wayland_server.c): pointer and keyboard focus follow the pointer of     *)
(* swm, and each keyboard object of the client is told.  WlBridge has the  *)
(* surfaces; here one lives, and has a surface of sprot or not.  Left and  *)
(* right of a modifier share a bit; CapsLock toggles the locked state.     *)
(* Scancodes that have no code of evdev, and pointer motion, pass through  *)
(* without a trace and are left out.                                       *)
(***************************************************************************)
EXTENDS Naturals, FiniteSets

CONSTANTS Surfaces, Children,     \* those that get the role of a popup or a subsurface
          Keyboards, Keys,
          Bit, CapsLock,    \* evdev_to_xkb_mod on the keys that are modifiers; one of them
          MaxPressed        \* pressed_keys, 32 in the code

None == "none"
Modifiers == DOMAIN Bit
Bits == {Bit[k] : k \in Modifiers}

VARIABLES
    alive,        \* surfaces that exist
    there,        \* those that have a surface of sprot
    focus,        \* keyboard_focus
    pressed,      \* pressed_keys
    mods, locked, \* keyboard_mods_depressed; CapsLock in keyboard_mods_locked
    boards,       \* seat_keyboards
    entered, known,     \* what the client was told last: focus, modifiers
    since         \* ghost: keys that went down since the focus came
vars == <<alive, there, focus, pressed, mods, locked, boards, entered, known, since>>

TypeOK ==
    /\ there \subseteq alive /\ alive \subseteq Surfaces /\ focus \in Surfaces \cup {None}
    /\ pressed \subseteq Keys /\ Cardinality(pressed) <= MaxPressed
    /\ mods \subseteq Bits /\ locked \in BOOLEAN
    /\ boards \subseteq Keyboards
    /\ entered \in [Keyboards -> Surfaces \cup {None}]
    /\ known \in [Keyboards -> (SUBSET Bits) \X BOOLEAN]
    /\ since \subseteq Keys

Init ==
    /\ alive = {} /\ there = {} /\ focus = None /\ pressed = {} /\ mods = {} /\ locked = FALSE
    /\ boards = {} /\ since = {}
    /\ entered = [b \in Keyboards |-> None] /\ known = [b \in Keyboards |-> <<{}, FALSE>>]

\* compositor_create_surface
Create(s) ==
    /\ s \notin alive /\ alive' = alive \cup {s}
    /\ UNCHANGED <<there, focus, pressed, mods, locked, boards, entered, known, since>>

\* The first commit with a buffer makes the surface of sprot; swm may now have the pointer enter it.
Appear(s) ==
    /\ s \in alive \ there /\ there' = there \cup {s}
    /\ UNCHANGED <<alive, focus, pressed, mods, locked, boards, entered, known, since>>

\* The popup or subsurface object of s is destroyed, and the surface of sprot with it; the
\* focus stays, as s lives on.
LoseRole(s) ==
    /\ s \in there \cap Children /\ there' = there \ {s}
    /\ UNCHANGED <<alive, focus, pressed, mods, locked, boards, entered, known, since>>

\* Mutant: the focus stays on what is freed.
VanishKeeping(s) ==
    /\ s \in alive /\ alive' = alive \ {s} /\ there' = there \ {s}
    /\ UNCHANGED <<focus, pressed, mods, locked, boards, entered, known, since>>

\* destroy_bridge_surface: the focus is dropped, nothing is sent and the keys stay.
\* The client knows that its surface is gone.
Vanish(s) ==
    /\ s \in alive /\ alive' = alive \ {s} /\ there' = there \ {s}
    /\ focus' = IF focus = s THEN None ELSE focus
    /\ entered' = [b \in Keyboards |-> IF entered[b] = s THEN None ELSE entered[b]]
    /\ UNCHANGED <<pressed, mods, locked, boards, known, since>>

\* Mutant: the modifiers are not sent.
GetKeyboardSilent(b) ==
    /\ b \notin boards /\ boards' = boards \cup {b}
    /\ entered' = [entered EXCEPT ![b] = focus]
    /\ UNCHANGED <<alive, there, focus, pressed, mods, locked, known, since>>

\* What the keyboards bs know after send_keyboard_modifiers
Sent(bs, depressed, lock) == [b \in Keyboards |-> IF b \in bs THEN <<depressed, lock>> ELSE known[b]]

\* seat_get_keyboard: modifiers, to all keyboards, and the enter of the surface that has the focus.
GetKeyboard(b) ==
    /\ b \notin boards /\ boards' = boards \cup {b}
    /\ known' = Sent(boards', mods, locked) /\ entered' = [entered EXCEPT ![b] = focus]
    /\ UNCHANGED <<alive, there, focus, pressed, mods, locked, since>>

\* keyboard_release, free_seat_resource
ReleaseKeyboard(b) ==
    /\ b \in boards /\ boards' = boards \ {b}
    /\ known' = [known EXCEPT ![b] = <<{}, FALSE>>] /\ entered' = [entered EXCEPT ![b] = None]
    /\ UNCHANGED <<alive, there, focus, pressed, mods, locked, since>>

\* Mutant: pressed keys go over to the next surface.
FocusKeepingKeys(s) ==
    /\ focus' = s /\ since' = {} /\ UNCHANGED <<pressed, mods, locked>>
    /\ entered' = [b \in Keyboards |-> IF b \in boards THEN s ELSE entered[b]]
    /\ known' = IF s = None THEN known ELSE Sent(boards, mods, locked)

\* set_keyboard_focus: leave, no key is pressed any more, enter and modifiers; what is locked stays.
SetFocus(s) ==
    /\ focus' = s /\ pressed' = {} /\ mods' = {} /\ since' = {} /\ UNCHANGED locked
    /\ entered' = [b \in Keyboards |-> IF b \in boards THEN s ELSE entered[b]]
    /\ known' = IF s = None THEN known ELSE Sent(boards, {}, locked)

\* POINTER_ENTER, and POINTER_LEAVE of the surface with the focus
Enter(s) == s \in there /\ s # focus /\ SetFocus(s) /\ UNCHANGED <<alive, there, boards>>
LeaveSurface == focus \in there /\ SetFocus(None) /\ UNCHANGED <<alive, there, boards>>

\* Mutant: the room is not looked at.
RoomAlways(k) == TRUE
\* update_pressed_keys: a key is entered once, and only while there is room.
Room(k) == k \in pressed \/ Cardinality(pressed) < MaxPressed

\* update_pressed_keys: the bit of a modifier is set when a key of it goes down, and cleared
\* when one comes up, be the other down or not. CapsLock down toggles the lock alone.
Key(k, down) ==
    /\ focus # None
    /\ pressed' = IF ~ down THEN pressed \ {k} ELSE IF Room(k) THEN pressed \cup {k} ELSE pressed
    /\ since' = IF down THEN since \cup {k} ELSE since \ {k}
    /\ locked' = (locked # (k = CapsLock /\ down))
    /\ mods' = IF k \notin Modifiers \/ (k = CapsLock /\ down) THEN mods
               ELSE IF down THEN mods \cup {Bit[k]} ELSE mods \ {Bit[k]}
    /\ known' = Sent(boards, mods', locked')
    /\ UNCHANGED <<alive, there, focus, boards, entered>>

Next ==
    \/ LeaveSurface
    \/ \E s \in Surfaces : Create(s) \/ Appear(s) \/ LoseRole(s) \/ Vanish(s) \/ Enter(s)
    \/ \E b \in Keyboards : GetKeyboard(b) \/ ReleaseKeyboard(b)
    \/ \E k \in Keys, down \in BOOLEAN : Key(k, down)
Spec == Init /\ [][Next]_vars

\* Every keyboard object of the client, whenever it was made, was told of the focus the
\* bridge sends keys to, and that is never on a freed surface (surface.c:7). It may be on one
\* that has lost its role, and with it its surface of sprot (xdg.c:451).
KeyboardsAgree == focus # None => focus \in alive /\ \A b \in boards : entered[b] = focus
\* What the client takes for pressed was pressed on this surface: neither keys nor modifiers
\* go over to the next one, also when the former was destroyed (input.c:162). A modifier that
\* is down and has its bit to itself counts as down.
KeysOfFocus == focus # None =>
    /\ pressed \subseteq since
    /\ \A m \in mods : \E k \in since \cap Modifiers : k # CapsLock /\ Bit[k] = m
    /\ \A k \in since \cap Modifiers : k = CapsLock \/ Bit[k] \in mods
                                    \/ \E j \in Modifiers : j # k /\ Bit[j] = Bit[k]
\* All keyboards of the client know the modifiers, those down and those locked (input.c:359).
ModifiersKnown == focus # None => \A b \in boards : known[b] = <<mods, locked>>
=============================================================================
