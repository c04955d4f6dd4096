---------------------------- MODULE PitchProfile ----------------------------
(***************************************************************************)
(* extract_hpcp (hpcp_prof.c): the note of a spectrum.  The bins from      *)
(* start_bin to stop_bin are taken in turn and added up, with harmonics,   *)
(* for each note; a note's sum is compared with the best so far when the   *)
(* next note starts.  fft_thread passes the same three variables to every  *)
(* call.  Frequencies are named by the bin they are computed from; power   *)
(* is an integer.                                                          *)
(***************************************************************************)
EXTENDS Integers, FiniteSets, Functions

CONSTANTS
  StartBin,     \* start_bin, 37: FREQ2BIN(100.0)
  StopBin,      \* stop_bin, 1114: FREQ2BIN(3000.0)
  Size,         \* FFT_SIZE_DIV2
  Spectra,      \* spectra to analyse: functions from bins to power
  Thresholds    \* values mean_ps * mean_ps may have

\* Bins at which a new value of (int)(69 + 12*log2(BIN2FREQ(i)/440)) starts,
\* from 43 on: notes, as numbered by hpcp_prof.c:8-24, of bins of 22050/8192 Hz.
NoteStarts ==
  {37, 39, 41, 43, 46, 49, 51, 55, 58, 61, 65, 69, 73, 77, 82, 87, 92, 97, 103,
   109, 116, 122, 130, 137, 146, 154, 163, 173, 183, 194, 206, 218, 231, 245, 259,
   275, 291, 309, 327, 346, 367, 389, 412, 436, 462, 490, 519, 550, 583, 617, 654,
   693, 734, 778, 824, 873, 925, 980, 1038, 1100}

Note(bin) == 42 + Cardinality({s \in NoteStarts : s <= bin})

ASSUME PitchAssumption ==
  /\ StartBin \in NoteStarts
  /\ StopBin \in (StartBin + 1)..1114
  /\ Size \in Nat
  /\ Thresholds \subseteq Nat
  /\ \A ps \in Spectra : ps \in [DOMAIN ps -> Nat] /\ DOMAIN ps \subseteq 0..(Size - 1)

\* FREQ2BIN(freq * j), for the frequency of a bin of the range.
Harmonic(bin, j) == bin * j + (j \div 2)

VARIABLES
  ps_in,       \* bins not in its domain hold zero
  limit,       \* mean_ps * mean_ps; mean_ps is not set before it is added to
  i,
  old_note,    \* not set before the first comparison
  start_freq,  \* bin of it, -1 if not set
  curr_ps, max_ps,
  note,        \* 12 * octave[0] + chroma[0], -1 if not set
  freq_out,    \* bin of it, -1 if not set
  before       \* note and freq_out when the call began

vars == <<ps_in, limit, i, old_note, start_freq, curr_ps, max_ps, note, freq_out, before>>

Power(bin) == IF bin \in DOMAIN ps_in THEN ps_in[bin] ELSE 0

\* What start_freq, old_note and the sum behind limit hold when a call starts
\* is whatever the stack held.
Enter ==
  /\ ps_in' \in Spectra
  /\ limit' \in Thresholds
  /\ i' = StartBin
  /\ old_note' \in {Note(StartBin), -1}
  /\ start_freq' = -1
  /\ curr_ps' = 0 /\ max_ps' = 0
  /\ before' = <<note, freq_out>>
  /\ UNCHANGED <<note, freq_out>>

Init ==
  /\ ps_in \in Spectra
  /\ limit \in Thresholds
  /\ i = StartBin
  /\ old_note \in {Note(StartBin), -1}
  /\ start_freq = -1
  /\ curr_ps = 0 /\ max_ps = 0
  /\ note = -1 /\ freq_out = -1
  /\ before = <<note, freq_out>>

\* pow(x, j)
pow(x, j) ==
  LET p[k \in 1..6] == IF k = 1 THEN x ELSE x * p[k - 1]
  IN  p[j]

\* What bin adds to its note: its power, or, if that is above the limit, the
\* powers of its harmonics inside the spectrum, each raised to its number.
Adds(bin) ==
  LET inside == {j \in 1..6 : Harmonic(bin, j) < Size}
  IN  IF Power(bin) > limit
      THEN SumFunction([j \in inside |-> pow(Power(Harmonic(bin, j)), j)])
      ELSE Power(bin)

Beats(sum, best) == sum > best

\* Broken variant: a note's sum is kept when the next note starts.
KeptSum == curr_ps

\* What the sum of a new note starts from.
FreshSum == 0

\* Broken variant: the frequency is that of the bin that ended the note.
FrequencyOfEnd == i

FrequencyOfNote == start_freq

\* Broken variant: the loop runs one bin too far.
MoreOrSame == i <= StopBin

More == i < StopBin

\* One turn of the loop over the bins.
Bin ==
  /\ More
  /\ LET new_note == Note(i)
         ends == new_note # old_note
         wins == ends /\ Beats(curr_ps, max_ps)
     IN  /\ max_ps' = IF wins THEN curr_ps ELSE max_ps
         /\ note' = IF wins THEN old_note ELSE note
         /\ freq_out' = IF wins THEN FrequencyOfNote ELSE freq_out
         /\ start_freq' = IF ends THEN i ELSE start_freq
         /\ curr_ps' = (IF ends THEN FreshSum ELSE curr_ps) + Adds(i)
         /\ old_note' = new_note
  /\ i' = i + 1
  /\ UNCHANGED <<ps_in, limit, before>>

\* The loop is over; the next frame's call comes.
Again == ~More /\ Enter

Next == Bin \/ Again

Spec == Init /\ [][Next]_vars
-----------------------------------------------------------------------------
(* Properties.                                                             *)

TypeOK ==
  /\ ps_in \in Spectra
  /\ limit \in Thresholds
  /\ i \in StartBin..StopBin
  /\ old_note \in (Note(StartBin)..Note(StopBin)) \cup {-1}
  /\ start_freq \in (StartBin..(StopBin - 1)) \cup {-1}
  /\ curr_ps \in Nat /\ max_ps \in Nat
  /\ note \in (Note(StartBin)..Note(StopBin)) \cup {-1}
  /\ freq_out \in (StartBin..(StopBin - 1)) \cup {-1}

Swept == StartBin..(StopBin - 1)

\* Notes whose sum is compared: all but the last of the range.
Compared == {Note(bin) : bin \in Swept} \ {Note(StopBin - 1)}

BinsOf(n) == {bin \in Swept : Note(bin) = n}

\* The share of a bin in its note's sum, as the code has it: its power, or the
\* powers of its harmonics, each raised to the harmonic's number
\* (hpcp_prof.c:104-123), with the bins of the harmonics of the bin's centre.
\* The table of hpcp_prof.c:29-35 has other weights: power times s^(n-1).
Weight(bin) ==
  LET harmonic(j) == ((2 * bin + 1) * j) \div 2
      inside == {j \in 1..6 : harmonic(j) < Size}
  IN  IF Power(bin) > limit
      THEN SumFunction([j \in inside |-> pow(Power(harmonic(j)), j)])
      ELSE Power(bin)

SumOf(n) == SumFunction([bin \in BinsOf(n) |-> Weight(bin)])

Strongest(n) ==
  /\ n \in Compared
  /\ SumOf(n) > 0
  /\ \A m \in Compared : SumOf(m) < SumOf(n) \/ (SumOf(m) = SumOf(n) /\ m >= n)

\* A call reports the note with the largest sum of those it compares, the lowest
\* one among equals; if all are zero the variables keep what the call before
\* left in them (hpcp_prof.c:82-125).  That is the largest sum by the powers the
\* code takes; by the weights of the table in its header it may be another.
ReportsStrongest ==
  i = StopBin =>
    \/ Strongest(note)
    \/ <<note, freq_out>> = before /\ \A n \in Compared : SumOf(n) = 0

\* The frequency reported is that of the note's first bin, unless it is the
\* first note of the range: its start is missed when old_note happens to hold
\* that note already (hpcp_prof.c:66-68, 88, 97).
FrequencyMatchesNote ==
  note # -1 =>
    \/ freq_out \in BinsOf(note) /\ freq_out - 1 \notin BinsOf(note)
    \/ note = Note(StartBin) /\ freq_out = -1

\* Middle C, C4 at 261.63 Hz, "is 60" (hpcp_prof.c:22).  At 44100 samples per
\* second its peak in a spectrum of 8192 samples is bin 49.
MiddleCIs60 ==
  i = StopBin /\ ps_in = [bin \in {49} |-> 1] => note = 60
=============================================================================
