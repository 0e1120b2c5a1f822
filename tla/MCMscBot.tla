------------------------------ MODULE MCMscBot ------------------------------
(* Blocks of two packets.                                                   *)
EXTENDS MscBot

Command(op, in, len, blocks) ==
  [op |-> op, in |-> in, len |-> len, blocks |-> blocks, lun |-> TRUE, valid |-> TRUE]

\* What a host sends: each command with the length and direction it wants,
\* and commands without data that the device does not implement.
Ordinary ==
  {Command("TUR", FALSE, 0, 0), Command("SENSE", TRUE, 1, 0),
   Command("INFO", TRUE, 1, 0), Command("CHECK", FALSE, 0, 0),
   Command("OTHER", FALSE, 0, 0)}
  \cup {Command("READ", TRUE, 2 * n, n) : n \in 1 .. 2}
  \cup {Command(op, FALSE, 2 * n, n) : op \in {"WRITE", "VERIFY"}, n \in 1 .. 2}

\* Data the device does not take, for a command it does not implement.
ModeSelect == Command("OTHER", FALSE, 1, 0)

Invalid == [Command("INFO", TRUE, 1, 0) EXCEPT !.valid = FALSE]

\* Wrong lengths, a wrong direction, a wrong LUN and an invalid wrapper, none
\* of them with data from the host.
Malformed ==
  {Invalid,
   [Command("INFO", TRUE, 1, 0) EXCEPT !.lun = FALSE],
   Command("TUR", TRUE, 1, 0), Command("INFO", TRUE, 0, 0), Command("OTHER", TRUE, 1, 0),
   Command("READ", TRUE, 1, 1), Command("READ", TRUE, 0, 1), Command("WRITE", TRUE, 2, 1)}

\* A few of each kind, for late interrupts and bus resets.
Few ==
  {Command("READ", TRUE, 2, 1), Command("WRITE", FALSE, 2, 1), ModeSelect, Invalid}

Of(cmds, tags, medium, who) ==
  [commands |-> cmds, tags |-> tags, medium |-> medium, host |-> who]

\* The boot loader with a host that keeps to the rules; a card and a host that
\* may send anything it does not want to send data for; late interrupts, bus
\* resets and data the device rejects.
AllScenes ==
  {Of(Ordinary, 3, "fat12", "orderly"),
   Of(Ordinary \cup Malformed, 3, "mmc", "erring"),
   Of(Few, 2, "mmc", "hasty")}
=============================================================================
