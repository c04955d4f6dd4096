--------------------------- MODULE MCPitchProfile ---------------------------
(***************************************************************************)
(* Small instances of PitchProfile: the notes 43 to 46, with one harmonic  *)
(* each of two of their bins, and the spectrum of a pure tone.             *)
(***************************************************************************)
EXTENDS PitchProfile, TLC

Powers == [{38, 39, 41} -> 0..2]
Overtones == [{77, 79} -> {0, 2}]

\* Spectra of three notes and of the second harmonics of bins 38 and 39.
SmallSpectra == {p @@ o : p \in Powers, o \in Overtones}

\* The peak of a tone of 261.63 Hz.
Tone == {[bin \in {49} |-> 1]}
=============================================================================
