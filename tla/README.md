# Dcomposer in TLA+

Dcomposer plays an MP3 file and shows what it hears: the process DCOMPOSR
(`src/`, C) decodes and plays the song, analyses overlapping frames of it
(FFT, singular values, envelope, pitch), and sends the results to a Tcl GUI
(`exe/test_server.tcl`, which starts DCOMPOSR) and to its own X11 spectrogram
window. This directory holds TLA+ modules of that program, TLC configurations
that check them on small instances, and TLAPS proofs about some of them.
Paths below are relative to the repository.

## 1. Inventory

### Components

| component | source | state | operations |
|---|---|---|---|
| main: start-up | `src/dcomposer.c` 108-401 | `thread_cnt`, `thread_active`, `env_sock`, `handle`, `lame_started`, `acq_pipe` | makes the FIFO, creates both threads and polls for each, connects to the GUI's envelope port, opens the sound device and the decoder |
| main: decoding | `src/dcomposer.c` 403-430 | `ssamps_l`, `ssamps_r`, `num_samp`, `curr_idx` | decodes the whole file into memory before it plays |
| main: playing | `src/dcomposer.c` 432-491 | `curr_idx`, the FIFO | two half frames to the sound card and two overlapping frames to the FIFO per turn |
| the end | `src/dcomposer.c` 494-544 | descriptors, `handle`, `threads` | `sig_handler`, `terminate_all` |
| fft_thread | `src/fft_thread.c` | `raw_pcm`, `ps`, `temp_mat`, `lwork`, `spctrgm_sd` | reads frames, FFT, envelope, SVD, pitch, writes to two sockets |
| env_proc | `src/env_proc.c` | `env_ts`, `env_sock` | envelope of one frame, written to the GUI |
| extract_hpcp | `src/hpcp_prof.c` | the caller's note, octave and frequency | strongest note of a spectrum |
| spectrogram thread | `src/spectrogram.c` | server socket, `buf`, `Imlib_data`, `spctrgm_thrd_running` | accepts one connection, reads records, scrolls and draws an image |
| GUI | `exe/test_server.tcl`, `exe/env_display.tcl` | BLT vectors, sockets | starts DCOMPOSR, serves ports 2022 and 2023, reads records into graphs |
| video_enc | `src/video_enc.c` | - | a separate example program; its build rule is commented out |

### How they interact

    GUI --exec--> DCOMPOSR: main --pthread_create--> spectrogram thread
                             |  \--pthread_create--> fft_thread
                             |--snd_pcm_writei--> sound card
                             \--FIFO .acq2proc--> fft_thread --port 2022-----> GUI (readdata)
                                                       |------port 2023-----> GUI (readEnv)
                                                       \--.spectrogram_sock-> spectrogram thread

Main and its threads share globals without a lock: `thread_cnt` (passed to both
threads by address), `thread_active`, `threads`, and the descriptors
`env_sock` (opened by main, written by fft_thread) and `spctrgm_sd`. Any thread
whose call fails runs `terminate_all` itself; SIGINT runs it in whichever thread
the kernel picks.

### What is hard here

- Order of start-up: three threads and a second process bring up three servers,
  and each client connects once, without a retry.
- Ends: `terminate_all` releases what other threads are using, cancels its own
  caller, may run twice at once and inside itself, and must tell opened
  descriptors from unopened ones.
- Overlap: the play loop cuts frames half a frame apart while it advances by a
  whole one, and the FIFO makes it wait.
- Streams: three sockets carry records without framing, read by counting;
  reads may be short, sockets fill up, and one event loop reads two of them
  with blocking reads.
- State kept from frame to frame without being reset: `lwork` and `temp_mat` in
  the SVD, the note reported last, unset variables of `extract_hpcp`.
- Boundaries: the length of a song against `ssamps_l`, the last chunk of the
  decoder, an envelope whose comparison is strict, the last note of a range.

`PROJECT.json` lists each of these at its line, with the properties that
cover it, or the reason why none does.

### What makes each part correct

- Playing and the FIFO: every frame analysed is the next one, whole; the display
  keeps up with the sound within what the FIFO holds; the song ends.
- Start-up: threads find their own slot, servers listen before clients connect,
  nothing is written to a descriptor before it is a socket; start-up settles.
- The end: the process ends; standard input is not closed by accident; nothing is
  released twice unless it is interrupted or a worker terminates; the
  device is open while main plays.
- Displays: each graph shows one frame, cut where it was put together; nobody
  waits for good; the GUI notices the end.
- Envelope: it holds every peak, and forgets only at the frame's start.
- Pitch: the note reported is the one with the largest sum, with its own frequency.

## 2. The modules

| module | models | extends |
|---|---|---|
| `Frames` | the overlapping frames of a song | |
| `FrameChannel` | abstract: what the FIFO promises the analysis | `Frames` |
| `AudioPipe` | the play loop, the FIFO, fft_thread's loop | `Frames`, instance of `FrameChannel` |
| `Lifecycle` | start-up, faults, SIGINT, `terminate_all`, all three threads and the GUI | |
| `Decoding` | decoding into `ssamps_l`, and what the play loop reads of it | |
| `Screen` | abstract: what the displays promise the viewer | |
| `Displays` | the analysis of a frame, and the records on their way through the sockets to the graphs and the waterfall | instance of `Screen` |
| `Session` | main's play loop, fft_thread, the GUI and the spectrogram thread together | instances of `AudioPipe` and `Displays` |
| `Envelope` | the loop of `env_proc`, call after call | |
| `PitchProfile` | the loop of `extract_hpcp`, call after call | |
| `AudioPipeProofs`, `LifecycleProofs`, `EnvelopeProofs`, `PitchProfileProofs`, `DecodingProofs`, `DisplaysProofs`, `StreamsProofs`, `SessionProofs` | theorems | their modules |
| `MC*` | the instances TLC checks | their modules |

Definitions called "Broken variant" in a comment are no part of a model. Each
changes one definition the way a plausible bug would, and one property of a run
is violated when it takes that definition's place (`mutants` in `PROJECT.json`).

### AudioPipe

Audio is counted in pages of the FIFO (2048 samples); a unit is named by its
position in `ssamps_l`, so that mixed, skipped and repeated samples show.
`numSamp` is what the decoder left; `curr` is `curr_idx`; `pcM` goes round
`play1, write1, play2, write2`, the four calls of a turn. A write of a frame is
one or more `Copy` steps: the kernel copies what fits and the call sleeps for the
rest. fft_thread's read takes what is there up to a frame, and a short read goes
to the code's error branch. `offered`
counts the half frames handed to `snd_pcm_writei`, `taken` those the card took whole: a
call that takes less, or fails and is recovered, moves the loop on and `taken` stays
behind for good; where recovering fails the loop is left. The body of fft_thread's loop is one
step here; Displays has its inside.

`FrameChannel` is the abstract view: frames sent, frames received, the frame
held. `AudioPipe` implements it with `sent <- published`, `received <- analysed`,
`last <- raw_pcm`, including its fairness.

### Lifecycle

`pc` has a place for each call of each thread that may fail or that another
thread can tell apart. Calls fail when their kind is in `Faults`; whether the
branch then calls `terminate_all`, `exit` or returns is the code's. Descriptors
hold "stdin" until opened, as the zero-initialised globals do. `terminate_all`
is seven steps, in any thread, or in several at once; `CancelNext` cancels the
caller on the spot when it reaches its slot (the threads are asynchronously
cancellable). `Interrupt` runs `terminate_all` on top of whatever a thread did,
`terminate_all` included. A call on something released (the decoder, which `hip_decode` may still be
using, the device, a detached thread that is gone) either ends the process or goes on.
A file that cannot be opened is not noticed (`lame_fopen`'s NULL is compared with `< 0`)
and ends the process in `fread`. A thread that SIGINT or a cancellation takes out of a
call that uses the heap (`HeapPlaces`) may leave the allocator's lock held (`Drops`), and
whoever needs memory afterwards may wait for good, `terminate_all` included (`Hangs`):
it is "stuck". So is fft_thread in its write to the spectrogram thread once that is
gone, since nobody closes the connection it had accepted. Frames are only counted.

### Decoding

`Fread` is the test of the decode loop: a whole chunk is decoded, a shorter one is
taken from the file and ends the loop, and so does a read that fails in the middle of it. `HipDecode` returns any number of samples, an
error included; it leaves `pcm_l` for memory that is not its own when the decoder
has more to say than the array holds, and the loop of `Store` does the same to
`ssamps_l`: both are the state "undefined", where the model stops. Between the loops
`num_samp` takes over `curr_idx`, and `curr_idx` is set to the skip. A turn of
the play loop reads a frame and a half from `curr_idx` on. Samples are named by
their place in the song, the mix of both channels like each of them. Playing starts at
the skip, so what is stored is more than what is played.

### Displays

The unit is half a frame of floats. `Decompose` is both calls of `sgesvd_`, which
the code tells apart only by `lwork`: -1 asks for the workspace's size, anything
else decomposes and destroys the matrix. `temp_mat`, `lwork` and `s` live across
frames, as fft_thread's locals do. `ps` holds raw samples, is zeroed before
`env_proc`, filled in one step, `Fill`, where a silent frame is found out and
passed over, and zeroed once it is through.

fft_thread writes a record in any number of pieces; sockets hold `SockUnits`. The GUI
is one thread of control: its event loop starts a handler for a readable socket, and
a `binread` keeps the loop until it has all it asked for or meets the end of file. The
spectrogram thread takes one read for one record, over what its buffer held before,
then moves the image down and fills its top rows; `img` names the contents each row
was made from.

`Screen` is the abstract view: frames analysed, the frame of the graphs, the frame of
the envelope, and whether the session is over. `Displays` implements it with
`graph <- shown["ts"][1][1]`, `env <- shown["envelope"][1][1]`, `over <- ~open`:
however writes and reads are split, the graphs go forward and the envelope shows
each frame, also after the process has ended.

### Session

The variables of `AudioPipe` and `Displays` side by side, joined where the code
joins them: `analysed` is `frame`, `open` is that main has not returned, and
AudioPipe's step `Analyse` is the last of the steps that Displays has for the loop
body. So AudioPipe gets an fft_thread that blocks in its writes, and Displays one
that blocks in its read. The session is one in which no call fails (Lifecycle has
the faults): a failing `snd_pcm_writei` may still leave the play loop early.

### Envelope and PitchProfile

One turn of each loop is an action, and the next call follows with any next input;
in Envelope that is a frame whose first half repeats the last one's second.
The header of `env_proc.c` (lines 6-7) speaks of peaks joined by linear interpolation.
The code has none: the envelope jumps up to a peak and falls by one per sample, and
that is what is modelled. Likewise the header of `hpcp_prof.c` (lines 29-35) has a table
that weights harmonic n by s^(n-1), while line 116 raises the power of harmonic n to the
n-th; `ReportsStrongest` is about the sums the code takes, not about that table. No
run is about these two differences.
Samples and power are integers. PitchProfile names a
frequency by the bin it was computed from, and a note by its number; `NoteStarts`
is the table of `(int)(69 + 12*log2(freq/440))` over the bins of the range.
The variables the C code leaves unset (`mean_ps`, `old_note`, `start_freq`) start
with every value that makes a difference, in every call.

## 3. The runs

| run | states | shows |
|---|---|---|
| `audio` | 6,582 | frames arrive whole, once, in order; analysis is at most FIFO + 1 frames behind the sound; the song ends; the FIFO implements `FrameChannel` |
| `audio_small` | 6,056 | with a FIFO of one and a half frames reads are short and end the session, but a mixed frame is never analysed |
| `lifecycle` | 80,107 | eight invariants under every fault and two SIGINTs; start-up settles, and a `terminate_all` run by main ends the process, unless main hangs on the allocator's lock |
| `lifecycle_fails` | - | violated: a `terminate_all` run by a worker need not end the process |
| `displays` | 31,910 | the graphs show one frame, the waterfall is a history of spectra, no deadlock between sockets and event loop, the end is noticed and what was written by then is shown; the displays implement `Screen` |
| `displays_eig` | - | violated: from the second frame on the singular values sent to the GUI are not those of the frame's matrix |
| `displays_titles` | - | violated: the graph titled Ps shows singular values |
| `envelope` | 27,216 | the envelope is at most one below any peak, falling; a new call only forgets |
| `decoding` | 7,410 | what is stored is what was decoded, wherever reading fails, and only songs or chunks that are too long leave the arrays |
| `session` | 153,407 | each half keeps its promises with the other one as its environment, liveness included; the screen follows the sound within a bound |
| `pitch` | 14,930 | the note with the largest sum, but never the last of the range, is reported, with its own frequency, or nothing changes |
| `pitch_middle_c` | - | violated: 261.63 Hz is reported as note 48, not 60 |

### What the violated runs say

- `TerminateAllEnds`: a worker that meets an error runs `terminate_all`, which
  cancels every thread of `threads`, its caller among them, before the `exit` at
  its end. Main goes on, fills the FIFO (which it keeps open for reading itself,
  so that no SIGPIPE comes) and blocks.
- `PsGraphShowsPower`: fft_thread puts singular values into the first
  `FFT_SIZE_DIV2` floats of a record and the power spectrum into the next; the
  GUI reads them into the vectors in the other order.
- `ShowsSingularValues`: `lwork` is -1 only until the first frame has been analysed.
  From then on the call that should ask for the size of the workspace decomposes
  `temp_mat`, LAPACK destroys it, and the second call decomposes what is left over
  the values the first one found. The run shows these in the vector `ps`, the graph titled
  Ps, because of the order that `PsGraphShowsPower` is about.
- `MiddleCIs60`: `BIN2FREQ` takes 22050 samples per second; songs are played at
  44100, and every note comes out an octave low.

### Bounds, and why they are enough

- `audio`: `Hop = 2` (a frame is 4 pages, as in the code), `PipeUnits = 16` (the
  64 KiB of a Linux FIFO, 4 frames), songs of 0 to 14 units with `SkipUnits = 3`:
  up to three turns, six frames, so that the FIFO fills up and wraps, and song
  lengths of every remainder. The code's skip is 80 units; only the difference to
  the song's length matters.
- `audio_small`: `PipeUnits = 6`, one and a half frames, as when the user's pipe
  quota is used up.
- `lifecycle`: two SIGINTs put the handler into main and into one other thread,
  on top of a `terminate_all` that may run in the third; `PipeFrames = 2` lets main
  run ahead and block. `StartupSettles` excepts two cases the code has:
  without a display the spectrogram thread returns early, and main polls for nobody,
  without end (`PollsForNobody`); and main hangs on the allocator's lock (`HangsOnHeap`),
  which `InterruptEnds` excepts too. `DeviceOpenWhilePlaying` and `ReleasedOnce` except
  sessions in which another thread runs `terminate_all`, or a SIGINT: there the code does
  release what is in use.
- `decoding`: up to four chunks of up to five samples each, arrays of 4 and 14
  samples: a song can end before the skip (3), anywhere in a turn (4 samples), at
  the array's last sample or past it, and a chunk can be too long for `pcm_l`.
- `session`: a unit is half a frame (`Hop = 1`), the FIFO holds two frames
  (`PipeUnits = 4`), the sockets half an envelope (`SockUnits = 1`): everything that can
  block does, and no envelope is ever written in one piece. Songs have up to 9 units,
  ten frames, twice the lag of five frames that `ScreenFollowsSound` allows. The lag is
  reached: with a bound one smaller the run fails. The waterfall has one row: it is the
  subject of `displays`, and here only takes data from its socket.
- `displays`: `SockUnits = 4`, one record: writes must be cut, and a second record
  meets the rest of the first. Two frames are the fewest that can be mixed.
  `Rows = 5` is not a multiple of the three rows per record, as 512 is not.
- `envelope`: frames of 4 samples of -3..2, every content, two frames and the
  overlap between them; the proofs cover every size.
- `pitch`: bins 37 to 43 hold three complete notes and the start of a fourth; bins
  77 and 79, the second harmonics of 38 and 39, lie inside `Size = 80`, those of
  41 outside; thresholds below and inside the range of the powers.

### Fairness

- Main, fft_thread and the spectrogram thread are real-time threads (`SCHED_RR`; the
  last in `spectrogram.c` 153-160) that are scheduled whenever they are not blocked;
  the GUI is an ordinary process that an ordinary kernel does not forget. That is weak fairness of each thread's
  steps taken together: a thread with several branches need not take a given one.
- No call is forced to fail. In AudioPipe the failing branch of the analysis, and
  in Lifecycle a failing `accept` or `read` of a blocked thread, carry no fairness;
  neither do SIGINT, a hang on the allocator's lock, the user closing the GUI, or the
  end of the process in Displays.
- Session has the fairness of its parts, thread by thread, and `ImplementsAudio` and
  `ImplementsDisplays` say that this gives the fairness the parts assume when they
  are looked at alone: fft_thread does come back to its read although it blocks in
  its writes, and it does get another frame, or main returns.
- Decoding has no liveness property; its loops are bounded by the file.
- In AudioPipe `SongEnds` counts a failed analysis as an end.
- Deadlock is checked in all runs but Lifecycle's, where the process really may
  stop: see `TerminateAllEnds`.

## 4. The proofs

TLAPS proves, for every value of the constants that satisfies the modules'
assumptions:

- `AudioPipeProofs`, for a FIFO of any size: `TypeCorrect`, `AnalysisInOrder`,
  `FramesFollowSound`, `OverhangIsBounded`. What no invariant of the runs says is what
  the FIFO contains: `HoldsFrames` states that it is the frames `analysed + 1` to
  `published`, one after the other, and the `copied` units that main has written of
  the next. It holds until a read is short, and from then on nothing is analysed.
  `InStep` ties `curr` and `offered` to `published` at each place of the play loop.
  The two steps that touch the FIFO are described by a lemma each, one stretch of a
  write (`CopyIsStretch`) and one read (`ReadTakes`), and all else argues from these.
  `OverhangIsBounded` adds that a turn starts inside the song (`InSong`).
  Three results further assume `WholeFrames`, that the FIFO holds a whole number of
  frames, at least one: `NoReadIsShort`, `AnalysisKeepsStep`, and `Refinement`, the
  safety part of the implementation of `FrameChannel`. They need it: with any other
  FIFO a read can be short. With whole frames free or taken a write is never cut
  (`CopyIsWhole`) and a read never short (`ReadIsWhole`); `FramesStayWhole` says so of
  every state.
- `LifecycleProofs`: `TypeCorrect`, `SlotsWork`, `SpectrogramThere`, `EnvelopeThere`,
  `StandardInputSpared`, `OnlyMainEnds`, `DeviceStaysOpen`, `EachReleasedOnce`, for any
  FIFO, any number of SIGINTs and any faults. `MainKnows` and `Handshake` say what
  main's place tells about `thread_cnt` and about the other threads; `SocketsOpened`
  what is open once its thread has passed; `DeviceLast` that the sound device is opened
  last. `Progress` is the reason standard input is spared: `terminate_all` gets past
  `snd_pcm_close` only with a device, and by then both sockets are open. None of the
  properties is inductive alone, since a SIGINT may put any thread into
  `terminate_all` from any place. `DeviceStaysOpen` has an invariant of its own,
  `DeviceKept`: a thread that closed the device is still in `terminate_all`, gone or
  stuck, and main never comes back from there. So has `EachReleasedOnce`: `Tidy` follows the
  decoder and the device through main's places, and says that main left to itself
  gets into `terminate_all` only before there is anything to release.
- `EnvelopeProofs`: `TypeCorrect`, `EnvelopeIsPeaks`, `RestartForgets`, for any frame
  size and sample width. `FromPeaks` says where each value of the envelope comes from,
  and `SentHoldsPeaks` carries the peaks of the shared half over to the next call.
- `PitchProfileProofs`: `TypeCorrect`, `StrongestIsReported`, `FrequencyIsTheNotes`, for
  any range of bins, spectra (of natural numbers) and thresholds. `FollowsNote` ties
  `old_note` and `start_freq` to the bin before the one at hand, and `BestSoFar` is the
  loop's invariant: `curr_ps` is the sum of the bins of the present note so far, `max_ps`
  the largest sum of the notes completed (`Completed`), the first of equal ones.
  `ReportsStrongest` speaks of sums over a note's bins as a set, the code adds them up in
  a loop. That the two agree (`SumGrows`, `SumTakesAny`) is an induction over finite
  sets; it is done without an induction theorem, by taking a smallest counterexample
  (`SmallestSet`, from the library's result that strict subset is well-founded).
- `DecodingProofs`: `TypeCorrect`, `StoresTheSong`, `StaysInside`, for
  any file, decoder and array sizes. The invariant says what the arrays hold at each
  place: `ssamps_l` the song up to `curr_idx`, `pcm_l` the next `num_samp` samples.
- `DisplaysProofs`: `TypeCorrect`, for sockets and waterfalls of any size and any number
  of frames. `Seen` strengthens the types: nothing on its way is made of a frame not
  yet read. `Places` says what fft_thread's place and the GUI's tell about their
  counters.
- `StreamsProofs`: `OneFrameShown`, `History`, `KeepsUp` and `ScreenPromise`, the safety
  part of the implementation of `Screen`. The argument is the same for each of the three
  sockets: put what its reader has taken of the record it is in before what waits in the
  socket, and after that what is left to write of the record fft_thread is in
  (`EnvLine`, `GuiLine`, `SpctrgmLine`). A write or a read, however it is split,
  moves a boundary and leaves the line as it is; filling a record appends a whole one and
  showing a record takes a whole one from the front. The line of the envelope consists
  of the halves of consecutive frames' envelopes (`Halves`); the other two of records of
  ever later frames (`Cut`), because a silent frame is passed over. After the end of the
  process the GUI may read half a record: then nothing more is shown from that socket.
  `ScreenPromise` makes `Screen`'s steps of `Displays`' steps from the front of the
  lines.
- `SessionProofs`: `RefinesAudio` and `RefinesDisplays`: every step of the whole is a
  step of `AudioPipe` and of `Displays`, or a stutter. So what the parts' own modules
  prove holds of the whole: `SessionProofs` takes them as instances (`AP`, `DP`), and
  `FifoHoldsWholeFrames` derives AudioPipe's `WholeFrames` from Session's assumption.
  `ScreenAndSound` adds up the lag of the analysis and the lag of the envelope to
  `ScreenFollowsSound`; `WholeFramesSeen` and `Promises` carry over that frames are whole
  and that both abstract specifications are implemented.

With this every invariant of the passing runs is a theorem, and so is the safety part
of the refinements. The assumptions are those of the modules and `WholeFrames` where
named above. `PitchAssumption` asks for spectra of natural numbers: the power of a bin
is a sum of squares. `pow`, the C library's, is modelled as repeated multiplication.

Only model-checked: the liveness properties (`SongEnds`, `StartupSettles`,
`InterruptEnds`, `FramesGetOut`, `GuiNotices`, `EndIsShown`) and the fairness that
`ImplementsChannel`, `ImplementsScreen`, `ImplementsAudio` and `ImplementsDisplays` add
to the safety parts proved here. They need `ENABLED` and temporal reasoning that is
out of the proof system's reach.

## 5. What is not modelled

- Windowing, the FFT, decibels, the inside of `sgesvd_` and the colours of the
  waterfall are numerics; Displays names their results. Whether `sgesvd_` writes
  past the 512 elements of `work` when told that there are 4288 depends on LAPACK's
  block sizes, and whether it converges on the numbers.
- The MP3 decoder: Decoding lets it return anything. Lifecycle has the decode loop
  only as a place where SIGINT may strike.
- X11 drawing, the set-up of the window and its image, window layout and printing are
  output that nothing reads; Lifecycle has the calls among them that can fail.
- The lock of stdout: `terminate_all` prints, and a thread taken out of a `printf` could
  leave that lock held just as it does the allocator's. It would hang in the same way.
- `video_enc.c`: an example of a library's authors, with a `main` of its own; its build
  rule is commented out and nothing calls it.
- The makefile and `test.sh`: they build and start the program.
- Headers of ALSA, X11 and LAPACK in `inc/`, 11,800 of the repository's 14,000 lines of
  C: declarations of libraries, without code of this program. The modules map most
  of the remaining lines that are not declarations, drawing or printing.
- Sound hardware: the card's own buffering is not in `DisplayInStep`, which
  counts half frames offered to it.

## 6. Plan

Done, in this order: `AudioPipe` with `FrameChannel` and its proofs, `Lifecycle`
and its proofs, `Displays`, `Envelope` and its proofs, `PitchProfile`; then the
analysis of a frame in `Displays`, `Screen`, `Decoding` and its proofs, `Session`,
`DisplaysProofs`, `SessionProofs` and `PitchProfileProofs`; then `StreamsProofs`,
the sums of `PitchProfileProofs`, `AudioPipeProofs` for a FIFO of any size, and
`ReleasedOnce`.

To come:

1. An abstract specification of a session's phases (start-up, playing, over) that
   Lifecycle implements.
2. The safety half of `FrameChannel` for a FIFO that does not hold whole frames, up to
   the short read that ends the session.
