------------------------------- MODULE Console -------------------------------
(***************************************************************************)
(* The frame server with its operator: console() starts the thread of      *)
(* input() (lines 369-373 of Server.cpp), which reads keys, changes what   *)
(* console() prints and moves a mark along the list of clients.            *)
(*                                                                         *)
(* `mode' and `selected_buffer' are shared by the two threads without the  *)
(* lock.  A key that needs no lock is handled as it is read; the others    *)
(* compete with the five threads of FrameServer for the mutex.  A block    *)
(* that only reads, or writes what no other thread looks at, is one action *)
(* that finds the mutex free and leaves it so.                             *)
(***************************************************************************)
EXTENDS FrameServer

VARIABLES
  consoleinit,      \* input() has been started
  mode,             \* what console() prints
  selected_buffer,  \* the marked row of the list of clients, from 0
  key,              \* input: the key it is working on, NoKey, or "first"
  erased            \* history: rows lost since a next row was last seen

consoleVars == <<consoleinit, mode, selected_buffer, key, erased>>
allVars == <<vars, consoleVars>>

NoKey == "none"
Mode == {"FRAME", "FRAME_VALUES", "CLIENTS"}

ConsoleInit ==
  /\ consoleinit = FALSE
  /\ mode = "FRAME"
  /\ selected_buffer = 0
  /\ key = NoKey
  /\ erased = 0

(* The block that starts input(), before the first turn of console(). *)
StartInput ==
  /\ ~consoleinit
  /\ owner = Free
  /\ consoleinit' = TRUE
  /\ key' = "first"
  /\ UNCHANGED <<vars, mode, selected_buffer, erased>>

(* input() asks for the size before the first key and makes no use of it. *)
FirstSize ==
  /\ key = "first"
  /\ owner = Free
  /\ key' = NoKey
  /\ UNCHANGED <<vars, consoleinit, mode, selected_buffer, erased>>

Reading == consoleinit /\ key = NoKey

(* F2, F3, F4. *)
ModeKey(m) ==
  /\ Reading
  /\ mode' = m
  /\ UNCHANGED <<vars, consoleinit, selected_buffer, key, erased>>

KeyUp ==
  /\ Reading
  /\ mode = "CLIENTS"
  /\ selected_buffer - 1 >= 0
  /\ selected_buffer' = selected_buffer - 1
  /\ UNCHANGED <<vars, consoleinit, mode, key, erased>>

(* In the other modes the key does nothing and get_size() is not called. *)
KeyDown ==
  /\ Reading
  /\ mode = "CLIENTS"
  /\ key' = "down"
  /\ UNCHANGED <<vars, consoleinit, mode, selected_buffer, erased>>

\* A slip: one place too far.
HasNext_Inclusive == selected_buffer + 1 <= Len(buffers)
HasNext == selected_buffer + 1 < Len(buffers)

\* get_size(), and the comparison with what it returned.
\* A slip: `while' for `if', the key waits until there is a next row.
CheckSize_While ==
  /\ key = "down"
  /\ owner = Free
  /\ key' = IF HasNext THEN "move" ELSE "down"
  /\ erased' = IF HasNext THEN 0 ELSE erased
  /\ UNCHANGED <<vars, consoleinit, mode, selected_buffer>>
CheckSize ==
  /\ key = "down"
  /\ owner = Free
  /\ key' = IF HasNext THEN "move" ELSE NoKey
  /\ erased' = IF HasNext THEN 0 ELSE erased
  /\ UNCHANGED <<vars, consoleinit, mode, selected_buffer>>

(* The table may have changed since the size was read. *)
MoveDown ==
  /\ key = "move"
  /\ selected_buffer' = selected_buffer + 1
  /\ key' = NoKey
  /\ UNCHANGED <<vars, consoleinit, mode, erased>>

OtherKey ==
  /\ Reading
  /\ key' = "other"
  /\ UNCHANGED <<vars, consoleinit, mode, selected_buffer, erased>>

(* console_input, which only console() prints, is set under the lock. *)
NoteKey ==
  /\ key = "other"
  /\ owner = Free
  /\ key' = NoKey
  /\ UNCHANGED <<vars, consoleinit, mode, selected_buffer, erased>>

Input ==
  \/ FirstSize
  \/ \E m \in Mode : ModeKey(m)
  \/ KeyUp
  \/ KeyDown
  \/ CheckSize
  \/ MoveDown
  \/ OtherKey
  \/ NoteKey

\* console() does not get to its loop before it has started input().
Server ==
  /\ Next
  /\ ~consoleinit => pc'.console = pc.console
  /\ erased' = IF Len(buffers') < Len(buffers)
               THEN erased + (Len(buffers) - Len(buffers')) ELSE erased
  /\ UNCHANGED <<consoleinit, mode, selected_buffer, key>>

ConsoleNext == Server \/ StartInput \/ Input

ConsoleSpec == Init /\ ConsoleInit /\ [][ConsoleNext]_allVars

(***************************************************************************)
(* Whoever holds the mutex goes on (the terminal takes what refresh()      *)
(* writes), and input() gets it in the end.  Nothing else is assumed, of   *)
(* the other threads or of the person at the keyboard.                     *)
(***************************************************************************)
InBlock ==
  \/ ListenKnown \/ ListenNew \/ ListenRefuse \/ ListenStore
  \/ MixZero \/ MixBlend \/ MixDone
  \/ SendCopy
  \/ ExpireErase \/ ExpireKeep \/ ExpireDone
  \/ ConsolePrint

FairConsoleSpec ==
  /\ ConsoleSpec
  /\ WF_vars(InBlock)
  /\ SF_allVars(FirstSize \/ CheckSize \/ MoveDown \/ NoteKey)

-----------------------------------------------------------------------------

ConsoleTypeOK ==
  /\ consoleinit \in BOOLEAN
  /\ mode \in Mode
  /\ selected_buffer \in Nat
  /\ key \in {NoKey, "first", "down", "move", "other"}
  /\ erased \in Nat

(***************************************************************************)
(* Nothing moves the mark back when the list of clients shrinks, and       *)
(* expire() may shorten it between the comparison with its size and the    *)
(* step (430-431), so the mark can lie below the last row.  But only       *)
(* expire() leaves it there: since the comparison that let it move down    *)
(* last, at least as many clients have been erased as it is rows too low.  *)
(***************************************************************************)
OnlyExpiryStrandsMark ==
  /\ ConsoleTypeOK
  /\ selected_buffer = 0 \/ selected_buffer < Len(buffers) + erased
  /\ key = "move" => selected_buffer + 1 < Len(buffers) + erased

(***************************************************************************)
(* Every key is dealt with: input() never waits for good for the lock that *)
(* get_size() takes (430) or that guards console_input (440).              *)
(***************************************************************************)
KeysAreServed == key # NoKey ~> key = NoKey
=============================================================================
