---------------------------- MODULE MCMidiPlayer ----------------------------
EXTENDS MidiPlayer

\* Chords, a pause of no length, and a score that ends without a pause.
MCScores ==
  { << On(0), Pause(2), Off(0), Stop >>,
    << On(0), On(1), Pause(1), Off(0), Pause(0), On(0), Off(1), Pause(3), Off(0), Stop >>,
    << Pause(1), On(1), Pause(2), Stop >>,
    << On(0), Stop >> }
=============================================================================
