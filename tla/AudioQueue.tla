----------------------------- MODULE AudioQueue -----------------------------
(***************************************************************************)
(* The audio path of the Original build (src/paperpad_main.cpp): the game  *)
(* renders a block, sized by what get_frames_remaining reports;            *)
(* queue_samples feeds it to the SDL_AudioStream that resamples it, drains *)
(* what the stream has ready and queues that on the device, which SDL's    *)
(* own thread plays down meanwhile.  Each SDL call may fail.               *)
(*                                                                         *)
(* Sound is counted in ticks of the output, 2.5 ms each, and every tick    *)
(* carries a label, in the order the game rendered them.                   *)
(***************************************************************************)
EXTENDS Integers, Sequences, FiniteSets

CONSTANTS
  OutRate,    \* output_sample_rate, set once, in units of a block's frames
  Rates,      \* the rates the game asks for
  VI,         \* ticks from one video interrupt, hence one block, to the next
  Short,      \* ticks of sound in the block of a game that is ahead,
  Long,       \* and in that of one that is behind
  Target,     \* remaining ticks up to which a game is behind
  Labels,     \* bound: labels are counted modulo Labels, more than fit the buffers
  MaxFaults,  \* bound: SDL calls that fail
  MaxChanges, \* bound: calls of set_frequency
  MaxInCall,  \* bound: ticks that pass while queue_samples converts a block
  MaxWindow,  \* bound: callbacks in one telemetry window
  None        \* no label

ASSUME RatesAssumption ==
  /\ OutRate \in Nat \ {0}
  /\ Rates \subseteq Nat \ {0}
ASSUME SizesAssumption ==
  /\ VI \in Nat \ {0} /\ Target \in Nat /\ Labels \in Nat \ {0}
  /\ Short \in Nat /\ Long \in Nat
ASSUME BoundsAssumption ==
  /\ MaxFaults \in Nat /\ MaxChanges \in Nat
  /\ MaxInCall \in Nat /\ MaxWindow \in Nat \ {0}
\* How the game's renderer is set up, for its feedback to regulate it: a game that is
\* ahead renders no more than is played until the next block, one that is behind no
\* more than twice that, the target (2.5 VI) is a short block or more, and the game's
\* rate is at least half the device's (32 to 48 kHz, docs/TESTING.md:109).
ASSUME RegulationAssumption ==
  /\ Short <= VI /\ Short <= Target
  /\ Short <= Long /\ Long <= 2 * Short
  /\ \A r \in Rates : OutRate <= 2 * r

VARIABLES
  device,       \* audio_device # 0
  rate,         \* sample_rate
  stream,       \* audio_stream: the labels fed to it and not drained
  queue,        \* the labels queued on the device
  next,         \* label of the next tick the game renders
  heard,        \* the last label played
  call,         \* where the game's thread is: idle, put, drain, queue
  block,        \* ticks in the block being queued
  prequeue,     \* queued_input_us, in ticks
  converted,    \* converted_buffer
  window,       \* audio_telemetry
  primed,       \* has_previous_output_frame
  armed,        \* next_report is set
  elapsed,      \* ticks since the game rendered a block, up to VI
  inCall,       \* ticks since queue_samples read the device's queue
  dry,          \* history: the device ran out of sound since the last full callback,
                \* no later than 5 ms after this one read its queue
  dryCallbacks, \* history: callbacks of this window that found it so
  reported,     \* history: errors in the telemetry lines written so far
  faults, changes \* spent from MaxFaults and MaxChanges

buffers   == <<stream, queue, next, heard>>
telemetry == <<window, primed, armed, dryCallbacks, reported>>
clock     == <<elapsed, inCall, dry>>
vars == <<device, rate, buffers, call, block, prequeue, converted,
          telemetry, clock, faults, changes>>

Telemetry ==
  [callbacks : Nat, under5ms : Nat, conversionErrors : Nat, queueErrors : Nat]

NoCallbacks ==
  [callbacks |-> 0, under5ms |-> 0, conversionErrors |-> 0, queueErrors |-> 0]

\* n labels from l on
Run(l, n) == [i \in 1..n |-> (l + i - 1) % Labels]

\* The resampler keeps the last tick back until it knows the one after it.
Held(r) == IF r = OutRate THEN 0 ELSE 1

Available == IF Len(stream) > Held(rate) THEN Len(stream) - Held(rate) ELSE 0

\* The ticks in the 5 ms of under_5ms_prequeue_callbacks.
FiveMs == 2

Fault == faults < MaxFaults /\ faults' = faults + 1
NoFault == UNCHANGED faults

-----------------------------------------------------------------------------
(* The device's thread *)

\* queue_samples has read what the device has queued, and not added to it yet.
Converting == call \in {"drain", "queue"}

\* One tick of time: the device plays a queued tick, or silence.
Tick ==
  /\ Converting => inCall < MaxInCall
  /\ inCall' = IF Converting THEN inCall + 1 ELSE inCall
  /\ elapsed' = IF elapsed < VI THEN elapsed + 1 ELSE elapsed
  /\ IF queue # <<>>
     THEN heard' = Head(queue) /\ queue' = Tail(queue) /\ UNCHANGED dry
     ELSE /\ dry' = (dry \/ (device /\ primed /\ (Converting => inCall < FiveMs)))
          /\ UNCHANGED <<heard, queue>>
  /\ UNCHANGED <<device, rate, stream, next, call, block, prequeue, converted,
                 telemetry, faults, changes>>

-----------------------------------------------------------------------------
(* The game's thread *)

\* set_frequency: the first call opens the device; each makes a new stream, and
\* what the old one held is gone.
SetFrequency(r) ==
  /\ call = "idle"
  /\ changes < MaxChanges
  /\ changes' = changes + 1
  /\ rate' = r
  /\ device' = TRUE
  /\ stream' = <<>>
  /\ UNCHANGED <<queue, next, heard, call, block, prequeue, converted, telemetry,
                 clock, faults>>

\* Mutant of FramesRemaining: converted to the game's rate twice.
FramesScaledTwice(available) ==
  IF device THEN ((Len(queue) + available) * rate * rate) \div (OutRate * OutRate) ELSE 0

\* get_frames_remaining, in frames of the game's rate.  A failure to read the
\* stream's availability counts as an empty stream.
FramesRemaining(available) ==
  IF device THEN ((Len(queue) + available) * rate) \div OutRate ELSE 0

\* The game renders a block: a long one when it is behind.
Render ==
  /\ call = "idle"
  /\ elapsed >= VI
  /\ \E available \in {0, Available} :
       /\ IF available # Available THEN Fault ELSE NoFault
       /\ block' = IF FramesRemaining(available) <= (Target * rate) \div OutRate
                   THEN Long ELSE Short
  /\ call' = "put"
  /\ elapsed' = 0
  /\ UNCHANGED <<device, rate, buffers, prequeue, converted, telemetry, inCall, dry,
                 changes>>

Done ==
  /\ call' = "idle"
  /\ block' = 0 /\ prequeue' = 0 /\ converted' = <<>>
  /\ inCall' = 0

\* queue_samples with no device, or an empty block, does nothing.
QueueNothing ==
  /\ call = "put"
  /\ ~device \/ block = 0
  /\ next' = (next + block) % Labels
  /\ Done
  /\ UNCHANGED <<device, rate, stream, queue, heard, telemetry, elapsed, dry,
                 faults, changes>>

CountConversionError == window' = [window EXCEPT !.conversionErrors = @ + 1]

PutFails ==
  /\ call = "put"
  /\ device /\ block # 0
  /\ Fault
  /\ CountConversionError
  /\ next' = (next + block) % Labels
  /\ Done
  /\ UNCHANGED <<device, rate, stream, queue, heard, primed, armed, dryCallbacks,
                 reported, elapsed, dry, changes>>

\* SDL_AudioStreamPut, and how much the device has queued just after it.
Put ==
  /\ call = "put"
  /\ device /\ block # 0
  /\ stream' = stream \o Run(next, block)
  /\ next' = (next + block) % Labels
  /\ prequeue' = Len(queue)
  /\ call' = "drain"
  /\ UNCHANGED <<device, rate, queue, heard, block, converted, telemetry, clock,
                 faults, changes>>

\* SDL_AudioStreamAvailable or SDL_AudioStreamGet fails: the sound stays in the
\* stream for the next callback.
DrainFails ==
  /\ call = "drain"
  /\ Fault
  /\ CountConversionError
  /\ Done
  /\ UNCHANGED <<device, rate, buffers, primed, armed, dryCallbacks, reported,
                 elapsed, dry, changes>>

\* Mutant of CountCallback: a callback counts only if nothing at all is queued.
CountEmptyCallback ==
  window' = [window EXCEPT !.callbacks = @ + 1,
                           !.under5ms = IF prequeue = 0 THEN @ + 1 ELSE @]

CountCallback ==
  window' = [window EXCEPT !.callbacks = @ + 1,
                           !.under5ms = IF prequeue < FiveMs THEN @ + 1 ELSE @]

\* Mutant of Drain: no more than a short block is drained.
DrainBlock ==
  LET n == IF Available < Short THEN Available ELSE Short IN
  /\ call = "drain"
  /\ converted' = SubSeq(stream, 1, n)
  /\ stream' = SubSeq(stream, n + 1, Len(stream))
  /\ CountCallback
  /\ call' = "queue"
  /\ UNCHANGED <<device, rate, queue, next, heard, block, prequeue, primed, armed,
                 dryCallbacks, reported, clock, faults, changes>>

Drain ==
  /\ call = "drain"
  /\ converted' = SubSeq(stream, 1, Available)
  /\ stream' = SubSeq(stream, Available + 1, Len(stream))
  /\ CountCallback
  /\ call' = "queue"
  /\ UNCHANGED <<device, rate, queue, next, heard, block, prequeue, primed, armed,
                 dryCallbacks, reported, clock, faults, changes>>

\* report_audio_telemetry: the first call only sets when the first line is due;
\* then a line, when one is due, ends the window.
Report(counters) ==
  LET found == dryCallbacks + (IF dry THEN 1 ELSE 0) IN
  /\ armed' = TRUE
  /\ \/ /\ ~armed \/ counters.callbacks < MaxWindow
        /\ window' = counters
        /\ dryCallbacks' = found
        /\ UNCHANGED reported
     \/ /\ armed
        /\ window' = NoCallbacks
        /\ dryCallbacks' = 0
        /\ reported' = reported + counters.conversionErrors + counters.queueErrors

\* Mutant of QueueAudio: a queue above the target is shortened to catch up.
QueueShortened ==
  /\ call = "queue"
  /\ queue' = IF Len(queue) > Target THEN queue \o Tail(converted) ELSE queue \o converted
  /\ primed' = (primed \/ converted # <<>>)
  /\ Report(window)
  /\ dry' = FALSE
  /\ Done
  /\ UNCHANGED <<device, rate, stream, next, heard, elapsed, faults, changes>>

\* SDL_QueueAudio, and the report that ends the call.  The bound MaxWindow stops
\* a window that is not reported from growing.
QueueAudio ==
  /\ call = "queue"
  /\ queue' = queue \o converted
  /\ primed' = (primed \/ converted # <<>>)
  /\ Report(window)
  /\ dry' = FALSE
  /\ Done
  /\ UNCHANGED <<device, rate, stream, next, heard, elapsed, faults, changes>>

QueueAudioFails ==
  /\ call = "queue"
  /\ converted # <<>>
  /\ Fault
  /\ primed' = TRUE
  /\ Report([window EXCEPT !.queueErrors = @ + 1])
  /\ dry' = FALSE
  /\ Done
  /\ UNCHANGED <<device, rate, buffers, elapsed, changes>>

-----------------------------------------------------------------------------
Init ==
  /\ device = FALSE
  /\ rate = OutRate
  /\ stream = <<>> /\ queue = <<>>
  /\ next = 0 /\ heard = None
  /\ call = "idle" /\ block = 0 /\ prequeue = 0 /\ converted = <<>>
  /\ window = NoCallbacks /\ primed = FALSE /\ armed = FALSE
  /\ elapsed = 0 /\ inCall = 0 /\ dry = FALSE
  /\ dryCallbacks = 0 /\ reported = 0
  /\ faults = 0 /\ changes = 0

QueueSamples ==
  \/ QueueNothing \/ PutFails \/ Put
  \/ DrainFails \/ Drain
  \/ QueueAudio \/ QueueAudioFails

Next ==
  \/ Tick
  \/ \E r \in Rates : SetFrequency(r)
  \/ Render
  \/ QueueSamples

Spec == Init /\ [][Next]_vars

\* The device plays, and the game renders a block for every video interrupt.
Fairness == WF_vars(Tick) /\ WF_vars(Render) /\ WF_vars(QueueSamples)

FairSpec == Spec /\ Fairness

-----------------------------------------------------------------------------
(* Properties *)

TypeOK ==
  /\ device \in BOOLEAN
  /\ rate \in Rates \cup {OutRate}
  /\ stream \in Seq(Int) /\ queue \in Seq(Int) /\ converted \in Seq(Int)
  /\ next \in Int /\ heard \in Int \cup {None}
  /\ call \in {"idle", "put", "drain", "queue"}
  /\ block \in Nat /\ prequeue \in Nat
  /\ window \in Telemetry
  /\ primed \in BOOLEAN /\ armed \in BOOLEAN
  /\ elapsed \in 0..VI /\ inCall \in 0..MaxInCall /\ dry \in BOOLEAN
  /\ dryCallbacks \in Nat /\ reported \in Nat
  /\ faults \in 0..MaxFaults /\ changes \in 0..MaxChanges

Errors == reported + window.conversionErrors + window.queueErrors

\* From the tick played last to the one rendered next, as the listener will hear
\* them.
Sound ==
  (IF heard = None THEN <<>> ELSE <<heard>>) \o queue \o converted \o stream \o <<next>>

Gaps == {i \in 1..(Len(Sound) - 1) : Sound[i + 1] # (Sound[i] + 1) % Labels}

\* Nothing the game rendered is cut, repeated or reordered on its way to the
\* speaker to catch up (queue_samples: "Never shorten already-rendered PCM"): where
\* sound is missing, a conversion or queue error has been counted or reported, or
\* the game changed the rate, which drops what the resampler held.
SoundIsContinuous == Cardinality(Gaps) <= Errors + changes

Buffered == Len(queue) + Len(converted) + Len(stream)

\* Reporting what the device and the stream hold is enough for the game to regulate
\* itself: there is never more than one long block above its target (with one tick
\* for the rounding to its rate, and one held back), also after a drain that failed,
\* and each failure adds no more than a short block.
BufferIsBounded == Buffered <= Target + 2 + Long + faults * Short

\* A device that ran dry after one full callback, and before the next had read its
\* queue or within the 5 ms after that, shows in the telemetry of that window as a
\* callback with under 5 ms queued.  A device that runs dry later in a callback that
\* found 5 ms or more and is slow to convert shows in no counter, and is no part of
\* this.
PromptUnderrunsAreCounted == dryCallbacks <= window.under5ms

\* What a failed drain left in the stream does not stay there: a later callback
\* queues all of it, although the game renders less while it is reported.
StreamDrains == []<>(Len(stream) <= Held(rate))
=============================================================================
