---------------------------- MODULE ScancodeChannel ----------------------------
(***************************************************************************)
(* What the keyboard path of the kernel promises to the keyboard task: a   *)
(* bounded channel.  The keyboard interrupt puts a scancode at the end of  *)
(* the channel, or drops it when the channel is full; get_keyboard_        *)
(* interrupt takes everything that is in the channel, in order, at once.   *)
(* Module Interrupts is shown to implement this specification.             *)
(***************************************************************************)
EXTENDS Naturals, Sequences

CONSTANTS Scancodes,  \* the bytes a keyboard sends
          Capacity    \* scancodes the channel holds

VARIABLES offered,    \* scancodes the interrupt handler has offered so far
          chan,       \* scancodes that wait for the keyboard task
          received    \* every scancode the keyboard task was given, in order

vars == <<offered, chan, received>>

Init == offered = 0 /\ chan = <<>> /\ received = <<>>

(* A scancode is offered: it enters the channel unless that is full, and   *)
(* only then is it dropped.                                                *)
Offer(c) ==
  /\ offered' = offered + 1
  /\ chan' = IF Len(chan) < Capacity THEN Append(chan, c) ELSE chan
  /\ UNCHANGED received

(* The keyboard task takes the whole content.                              *)
Drain ==
  /\ chan # <<>>
  /\ received' = received \o chan
  /\ chan' = <<>>
  /\ UNCHANGED offered

Next == Drain \/ \E c \in Scancodes : Offer(c)

Safety == Init /\ [][Next]_vars

(* The keyboard task polls, so what is in the channel does not stay there. *)
Fairness == WF_vars(Drain)

Spec == Safety /\ Fairness
================================================================================
