------------------------------- MODULE Joypad -------------------------------
(***************************************************************************)
(* P1 and its interrupt: the write to P1 (io.c), update_keyboard and       *)
(* handle_input_events (input.c).  A key is a bit of one of two groups,    *)
(* the direction keys and the others.  In P1 a group is selected while its *)
(* bit is 0, and a pressed key reads as 0.                                 *)
(***************************************************************************)
EXTENDS Naturals

CONSTANTS
  Bits     \* the bits of a group (0 .. 3)

Groups == {"dir", "oth"}
Keys == Groups \X Bits

VARIABLES
  keystates, keys_were,  \* pressed keys
  p1,                    \* the bits of P1 that are 1: groups and Bits
  int_joypad,            \* INT_P10_P13 in IF
  asked,                 \* history: groups selected by the last write to P1
  changes                \* history: changes of keystates since, at most 2

joypadVars == <<keystates, keys_were, p1, int_joypad, asked, changes>>

\* p1.idle is a set of groups, p1.ones a set of bits.
\* begin_execution stores 0 in P1: both groups are selected.
JoypadInit ==
  /\ keystates = {} /\ keys_were = {}
  /\ p1 = [idle |-> {}, ones |-> {}] /\ int_joypad = FALSE
  /\ asked = Groups /\ changes = 0

Released(g, pressed) == {b \in Bits : <<g, b>> \notin pressed}

----------------------------------------------------------------------------
\* io_write, P1: the guest selects the groups.
WriteP1(groups) ==
  /\ p1' = [idle |-> Groups \ groups,
            ones |-> IF groups = {} THEN Bits
                     ELSE UNION {Released(g, keystates) : g \in groups}]
  /\ asked' = groups /\ changes' = 0
  /\ UNCHANGED <<keystates, keys_were, int_joypad>>

\* update_keyboard.  value |= ~(keystates & ...) sets the selection bits as
\* well: a selected direction group hides the other one, and both groups
\* are deselected afterwards.
Relevant == IF "dir" \notin p1.idle THEN {"dir"} ELSE Groups \ p1.idle

\* Faulty: the key bits of P1 are not cleared first.
BugUpdateKeysStay(pressed) ==
  LET diff == (pressed \ keys_were) \cup (keys_were \ pressed) IN
  /\ p1' = [idle |-> IF Relevant = {} THEN p1.idle ELSE Groups,
            ones |-> p1.ones \cup UNION {Released(g, pressed) : g \in Relevant}]
  /\ int_joypad' = (int_joypad \/ \E k \in pressed \cap diff : k[1] \in Relevant)
  /\ keys_were' = pressed

\* Faulty: the interrupt is requested for a release.
BugUpdateOnRelease(pressed) ==
  /\ p1' = [idle |-> IF Relevant = {} THEN p1.idle ELSE Groups,
            ones |-> UNION {Released(g, pressed) : g \in Relevant}]
  /\ int_joypad' = (int_joypad \/ \E k \in keys_were \ pressed : k[1] \in Relevant)
  /\ keys_were' = pressed

\* Faulty: keys_were is not kept up to date.
BugUpdateForgets(pressed) ==
  /\ p1' = [idle |-> IF Relevant = {} THEN p1.idle ELSE Groups,
            ones |-> UNION {Released(g, pressed) : g \in Relevant}]
  /\ int_joypad' = (int_joypad \/ \E k \in pressed \ keys_were : k[1] \in Relevant)
  /\ UNCHANGED keys_were

UpdateKeyboard(pressed) ==
  LET diff == (pressed \ keys_were) \cup (keys_were \ pressed) IN
  /\ p1' = [idle |-> IF Relevant = {} THEN p1.idle ELSE Groups,
            ones |-> UNION {Released(g, pressed) : g \in Relevant}]
  /\ int_joypad' = (int_joypad \/ \E k \in pressed \cap diff : k[1] \in Relevant)
  /\ keys_were' = pressed

\* handle_input_events: the new state of the keys, by events of the window
\* system or by random_key.
HandleInputEvents(pressed) ==
  /\ pressed # keystates
  /\ keystates' = pressed
  /\ UpdateKeyboard(pressed)
  /\ changes' = IF changes = 2 THEN 2 ELSE changes + 1
  /\ UNCHANGED asked

\* A write to IF, or the interrupt is accepted.
Acknowledge ==
  /\ int_joypad' = FALSE
  /\ UNCHANGED <<keystates, keys_were, p1, asked, changes>>

JoypadNext ==
  \/ \E groups \in SUBSET Groups : WriteP1(groups)
  \/ \E pressed \in SUBSET Keys : HandleInputEvents(pressed)
  \/ Acknowledge

JoypadSpec == JoypadInit /\ [][JoypadNext]_joypadVars

----------------------------------------------------------------------------
(* Properties                                                               *)

\* A guest that selects one group reads its keys, also if they change once
\* before it reads.  (After a second change every key reads as pressed: see
\* UpdateKeyboard.)
ReadsTheKeys ==
  \A g \in Groups :
    asked = {g} /\ changes < 2 => p1.ones = Released(g, keystates)

\* The first press in the selected group after a write to P1 requests the
\* interrupt, whatever was pressed and released before the write.
PressIsReported ==
  [][\A g \in Groups :
       /\ asked = {g} /\ changes = 0 /\ changes' = 1
       /\ \E b \in Bits : <<g, b>> \in keystates' \ keystates
       => int_joypad']_joypadVars

\* A press outside the groups the guest asked for never requests it.
NoStrayRequest ==
  [][int_joypad' /\ ~int_joypad =>
       \E k \in keystates' \ keystates : k[1] \in asked]_joypadVars
=============================================================================
