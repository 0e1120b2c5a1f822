----------------------------- MODULE MidiPlayer -----------------------------
(***************************************************************************)
(* The MIDI player (work/midi/midiplayer.cpp, inc/midiplayer.h) on the     *)
(* sample interrupt (lib/stm32f4/src/audio.cpp) and the software interrupt *)
(* (lib/stm32f4/inc/exti0.h, src/exti0.cpp).                               *)
(*                                                                         *)
(* Three contexts: the main program, which starts the player and then      *)
(* sleeps; ToneChange, the handler of EXTI0 at priority 3, which reads the *)
(* score up to the next pause; nextSample, in the interrupt of SPI3 at     *)
(* priority 0, which counts the pause down and raises EXTI0 when it finds  *)
(* it 0.  A sample can come between any two steps of the other two, but    *)
(* for Lock().  A pause is counted in samples; what the notes sound like   *)
(* is left out but for which generator is on.                              *)
(***************************************************************************)
EXTENDS Integers, Sequences

CONSTANTS
  Scores,      \* what hlp/miditones makes: sequences of events, an end last
  Generators

On(g)    == [op |-> "on", gen |-> g]
Off(g)   == [op |-> "off", gen |-> g]
Pause(n) == [op |-> "pause", len |-> n]
Stop     == [op |-> "stop"]

Events == [op : {"on", "off"}, gen : Generators]
          \cup [op : {"pause"}, len : Nat] \cup [op : {"stop"}]

ASSUME ScoresAssumption ==
  \A s \in Scores : /\ s \in Seq(Events)
                    /\ s # << >> /\ s[Len(s)] = Stop
                    /\ \A i \in 1..(Len(s) - 1) : s[i].op # "stop"

VARIABLES
  score,       \* the score to be played
  keeps,       \* whether EXTI remembers a request for a line that is masked
  mpc,         \* main program: where it is in MidiPlayer::start
  tpc,         \* ToneChange: "off" or the statement it is at
  melody,      \* index of the next event; 0 before start has set it
  pause,       \* samples to the next change
  on,          \* the generators that sound
  driver,      \* Audio::sampleCallback is nextSample
  imr, swier, pr,    \* line 0 of EXTI: unmasked, software request, pending
  pend,        \* EXTI0 pending in the interrupt controller
  ended,       \* func() has been called
  early,       \* history: a sample raised the line before start did, while it
               \* was still "masked" or already "open", or "no"
  again        \* history: and one while ToneChange was running

exti == <<imr, swier, pr, pend>>
tone == <<melody, pause, on>>

\* Its names say midi where those of the other player are the same: both are
\* proved about in one module.
midiVars == <<score, keeps, mpc, tpc, tone, driver, exti, ended, early, again>>

-----------------------------------------------------------------------------
(* EXTI line 0                                                             *)

\* EXTI->SWIER |= 1: a bit that is set already has no effect; a masked line
\* may or may not remember the request.
Intr ==
  /\ swier' = TRUE
  /\ pr'    = (pr \/ (~swier /\ (imr \/ keeps)))
  /\ pend'  = (pend \/ (imr /\ pr' /\ ~pr))
  /\ UNCHANGED imr

\* EXTI->PR |= 1 clears the pending bit, and the software request with it.
Clr == pr' = FALSE /\ swier' = FALSE /\ UNCHANGED <<imr, pend>>

\* EXTI->IMR.  A request the controller has taken over stays with it.
Unmask == imr' = TRUE /\ pend' = (pend \/ pr) /\ UNCHANGED <<swier, pr>>
Mask   == imr' = FALSE /\ UNCHANGED <<swier, pr, pend>>

-----------------------------------------------------------------------------
(* The sample interrupt                                                    *)

\* Mutant of NextSample: the pause ends one sample early.
NextSampleEarly ==
  IF pause > 1 THEN pause' = pause - 1 /\ UNCHANGED exti
               ELSE Intr /\ UNCHANGED pause

\* nextSample: counts the pause, or asks for the next tones.
NextSample ==
  IF pause > 0 THEN pause' = pause - 1 /\ UNCHANGED exti
               ELSE Intr /\ UNCHANGED pause

\* Audio::irq.  Nothing interrupts it.
Sample ==
  /\ driver
  /\ NextSample
  /\ early' = IF early = "no" /\ pause = 0 /\ mpc # "loop"
              THEN (IF imr THEN "open" ELSE "masked") ELSE early
  /\ again' = (again \/ (pause = 0 /\ tpc \notin {"off", "clr"}))
  /\ UNCHANGED <<score, keeps, mpc, tpc, melody, on, driver, ended>>

-----------------------------------------------------------------------------
(* MidiPlayer::start.  The interrupts were enabled by the constructor.     *)

\* A pending interrupt is taken before the main program goes on.
Main(at, next) == mpc = at /\ tpc = "off" /\ ~pend /\ mpc' = next

SetDriver ==
  /\ Main("driver", "melody")
  /\ driver' = TRUE
  /\ UNCHANGED <<score, keeps, tpc, tone, exti, ended, early, again>>

SetMelody ==
  /\ Main("melody", "start")
  /\ melody' = 1
  /\ UNCHANGED <<score, keeps, tpc, pause, on, driver, exti, ended, early, again>>

\* Mutant of StartSoft: the line is left masked.
StartSoftMasked == Intr

\* soft.Start
StartSoft == Unmask

Start ==
  /\ Main("start", "intr")
  /\ StartSoft
  /\ UNCHANGED <<score, keeps, tpc, tone, driver, ended, early, again>>

First ==
  /\ Main("intr", "loop")
  /\ Intr
  /\ UNCHANGED <<score, keeps, tpc, tone, driver, ended, early, again>>

-----------------------------------------------------------------------------
(* ToneChange, the handler of EXTI0                                        *)

Enter ==
  /\ pend /\ tpc = "off"
  /\ pend' = FALSE /\ tpc' = "clr"
  /\ UNCHANGED <<score, keeps, mpc, tone, driver, imr, swier, pr, ended, early, again>>

ClearFlag ==
  /\ tpc = "clr"
  /\ Clr
  /\ tpc' = "read" /\ again' = FALSE
  /\ UNCHANGED <<score, keeps, mpc, tone, driver, ended, early>>

\* One turn of the loop: a tone, a pause or the end.
Event ==
  /\ tpc = "read" /\ melody \in DOMAIN score
  /\ melody' = melody + 1
  /\ LET e == score[melody]
     IN  \/ e.op = "on"    /\ on' = on \cup {e.gen} /\ tpc' = "read"
         \/ e.op = "off"   /\ on' = on \ {e.gen}    /\ tpc' = "read"
         \/ e.op = "pause" /\ tpc' = "pause"        /\ UNCHANGED on
         \/ e.op = "stop"  /\ tpc' = "stop"         /\ UNCHANGED on
  /\ UNCHANGED <<score, keeps, mpc, pause, driver, exti, ended, early, again>>

\* The handler runs beyond the score: what it finds there is not modelled.
Astray ==
  /\ tpc = "read" /\ melody \notin DOMAIN score
  /\ tpc' = "astray"
  /\ UNCHANGED <<score, keeps, mpc, tone, driver, exti, ended, early, again>>

\* The two assignments to pause are made under Lock().
SetPause ==
  /\ tpc = "pause"
  /\ pause' = score[melody - 1].len
  /\ tpc' = "ret"
  /\ UNCHANGED <<score, keeps, mpc, melody, on, driver, exti, ended, early, again>>

\* The end: soft.Stop, dac.SetDriver (0), func.
StopSoft ==
  /\ tpc = "stop"
  /\ Mask
  /\ tpc' = "silence"
  /\ UNCHANGED <<score, keeps, mpc, tone, driver, ended, early, again>>

Silence ==
  /\ tpc = "silence"
  /\ driver' = FALSE
  /\ tpc' = "func"
  /\ UNCHANGED <<score, keeps, mpc, tone, exti, ended, early, again>>

Func ==
  /\ tpc = "func"
  /\ ended' = TRUE
  /\ tpc' = "ret"
  /\ UNCHANGED <<score, keeps, mpc, tone, driver, exti, early, again>>

\* On return the controller looks at the line again.
Return ==
  /\ tpc = "ret"
  /\ tpc' = "off"
  /\ pend' = (pend \/ (pr /\ imr))
  /\ UNCHANGED <<score, keeps, mpc, tone, driver, imr, swier, pr, ended, early, again>>

-----------------------------------------------------------------------------
MidiInit ==
  /\ score \in Scores /\ keeps \in BOOLEAN
  /\ mpc = "driver" /\ tpc = "off"
  /\ melody = 0 /\ pause = 0 /\ on = {}
  /\ driver = FALSE
  /\ imr = FALSE /\ swier = FALSE /\ pr = FALSE /\ pend = FALSE
  /\ ended = FALSE /\ early = "no" /\ again = FALSE

MainStep   == SetDriver \/ SetMelody \/ Start \/ First
ToneChange == \/ Enter \/ ClearFlag \/ Event \/ Astray \/ SetPause
              \/ StopSoft \/ Silence \/ Func \/ Return

MidiNext == Sample \/ MainStep \/ ToneChange

\* The codec asks for samples for ever; between them the other two get on.
MidiSpec == MidiInit /\ [][MidiNext]_midiVars
                     /\ WF_midiVars(Sample) /\ WF_midiVars(MainStep) /\ WF_midiVars(ToneChange)

-----------------------------------------------------------------------------
(* Properties                                                              *)

MidiTypeOK ==
  /\ score \in Scores /\ keeps \in BOOLEAN
  /\ mpc \in {"driver", "melody", "start", "intr", "loop"}
  /\ tpc \in {"off", "clr", "read", "pause", "stop", "silence", "func", "ret", "astray"}
  /\ melody \in 0 .. Len(score) + 1 /\ pause \in Nat /\ on \subseteq Generators
  /\ {driver, imr, swier, pr, pend, ended, again} \subseteq BOOLEAN
  /\ early \in {"no", "masked", "open"}

\* The tones change when the pause has run out and as long as there is a
\* score, with two exceptions.  A sample that comes while ToneChange runs, after
\* soft.Clr() and before the new pause is there, finds the old one at 0 and
\* asks for the change a second time: the new pause is skipped, or, at the end
\* of the score, what lies behind it is read.  And one that comes in start(),
\* behind SetDriver, makes the first change come twice.
PauseKept ==
  /\ MidiTypeOK
  /\ (tpc = "clr" /\ (pause # 0 \/ melody \notin DOMAIN score)) => again \/ early # "no"

\* The melody is played to its end, and the program told so: every pause is
\* followed by a change, whatever the samples meet, if none of them came
\* between SetDriver and soft.Start.  One that does may leave the software
\* request set without an interrupt, and every later request has no effect.
MelodyEnds == (mpc = "loop") ~> (ended \/ (early = "masked" /\ ~keeps))
=============================================================================
