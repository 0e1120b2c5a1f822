------------------------ MODULE MCFirmwareService ------------------------
(* Words of 7 bits; one vector in front of the descriptor.                 *)
EXTENDS FirmwareService

Source(bytes, words) == [bytes |-> bytes, words |-> words]

\* A file whose length is no multiple of 8 and one whose length is, both with
\* rubbish where size and check belong; one without the magic number; and one
\* that is not there.
MCImages ==
  << Source(18, <<99, 1, 0, 5, 3>>), Source(32, <<127, 1, 77, 0, 127, 8, 0, 64>>),
     Source(16, <<99, 2, 16, 11>>), Missing >>
=============================================================================
