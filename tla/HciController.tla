---------------------------- MODULE HciController ---------------------------
(***************************************************************************)
(* What the controller of c/bt.c promises a careful host: the event of the *)
(* command that the host waits for, and after the event of a scan those of *)
(* all devices, each once and in the order of bt_device_array.  An event   *)
(* comes in one or more pieces, and whole before the next begins.          *)
(*                                                                         *)
(* The event that the controller sends unasked does not show here: it      *)
(* comes whole, and only between other events.                             *)
(*                                                                         *)
(* BtControl is shown to implement this specification: stored transfers,   *)
(* stored commands, the rest of an event and the progress of a scan are    *)
(* the means by which process_bt_control keeps this promise.               *)
(***************************************************************************)
EXTENDS Integers, Sequences

CONSTANTS
    Commands,       \* commands that have an event
    Unknown,        \* commands that have none
    ScanCommands,   \* commands that start a scan
    Default,        \* the command whose event comes unasked, too
    EventSize,      \* bytes of the event of a command
    DeviceSize,     \* bytes of the events of the devices, one by one
    None            \* no command

VARIABLES
    waiting,        \* the command whose event the host waits for
    reading,        \* the event the host has read the first bytes of
    toCome          \* the device whose event is the next of a scan, 0 if none

hciVars == <<waiting, reading, toCome>>

Event(c, d) == [cmd |-> c, dev |-> d]

Nothing == [event |-> Event(Default, 0), got |-> 0]

Init ==
    /\ waiting = None
    /\ reading = Nothing
    /\ toCome = 0

\* The host sends a command when nothing more comes of the ones before.
Ask(c) ==
    /\ waiting = None
    /\ reading = Nothing
    /\ toCome = 0
    /\ waiting' = c
    /\ UNCHANGED <<reading, toCome>>

\* It gives up a command that has no event.
GiveUp ==
    /\ waiting \in Unknown
    /\ waiting' = None
    /\ UNCHANGED <<reading, toCome>>

\* A piece of event e, of size bytes, that goes on where the host is.
Goes(e, size, last) ==
    /\ reading = Nothing \/ reading.event = e
    /\ \E n \in 1 .. size - reading.got :
         /\ last <=> reading.got + n = size
         /\ reading' = IF last THEN Nothing ELSE [event |-> e, got |-> reading.got + n]

\* The event of the command; that of a scan is followed by the devices.
AnswerGoes ==
    /\ waiting \in Commands
    /\ toCome = 0
    /\ \/ /\ Goes(Event(waiting, 0), EventSize[waiting], FALSE)
          /\ UNCHANGED <<waiting, toCome>>
       \/ /\ Goes(Event(waiting, 0), EventSize[waiting], TRUE)
          /\ waiting' = None
          /\ toCome' = IF waiting \in ScanCommands /\ DeviceSize # << >> THEN 1 ELSE 0

\* The events of the devices, one by one.
DeviceGoes ==
    /\ toCome # 0
    /\ UNCHANGED waiting
    /\ \/ /\ Goes(Event(None, toCome), DeviceSize[toCome], FALSE)
          /\ UNCHANGED toCome
       \/ /\ Goes(Event(None, toCome), DeviceSize[toCome], TRUE)
          /\ toCome' = IF toCome = Len(DeviceSize) THEN 0 ELSE toCome + 1

Next ==
    \/ \E c \in Commands \cup Unknown : Ask(c)
    \/ GiveUp
    \/ AnswerGoes
    \/ DeviceGoes

Spec == Init /\ [][Next]_hciVars
=============================================================================
