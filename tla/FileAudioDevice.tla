-------------------------- MODULE FileAudioDevice ---------------------------
(***************************************************************************)
(* FileAudioDevice (modules/audio_device/dummy/file_audio_device.cc) plays *)
(* to one file and records from another with a thread each, between the    *)
(* AudioDeviceModuleImpl that starts and stops it and the flags, buffers   *)
(* and transport of the AudioDeviceBuffer it exchanges data with.          *)
(*                                                                         *)
(* One thread of the application calls the module; a critical section on   *)
(* mutex_ is one action.  Audio is numbered in chunks of 10 ms.  Whether   *)
(* 10 ms have passed is a free choice.  InitPlayout and InitRecording have *)
(* been called.                                                            *)
(***************************************************************************)
EXTENDS Naturals

CONSTANT FileLen   \* chunks in the input file

ASSUME FileLenAssumption == FileLen \in Nat \ {0}

Side == {"play", "rec"}
NoChunk == 0

VARIABLES
    named,       \* named[s]: _outputFilename, _inputFilename is not empty
    on,          \* on[s]: _playing, _recording
    allocated,   \* allocated[s]: _playoutBuffer, _recordingBuffer is not null
    is_open,     \* is_open[s]: _outputFile, _inputFile is open
    pos,         \* chunks read from the input file since it was opened or rewound
    tpc,         \* tpc[s]: where the thread of a side is; "none" without one
    cpc, side,   \* where the application is, in a call for which side
    \* AudioDeviceBuffer
    active,      \* active[s]: playing_, recording_
    transport,   \* audio_transport_cb_
    rec_buffer_, \* the chunk that SetRecordedBuffer has copied
    \* for the properties
    unwritten,   \* a chunk of the transport is on its way to the output file
    delivered    \* the last chunk delivered since recording was started

device == <<on, allocated, is_open>>
buffer == <<active, transport, rec_buffer_>>
vars == <<named, device, pos, tpc, cpc, side, buffer, unwritten, delivered>>

Init ==
    /\ named \in [Side -> BOOLEAN]
    /\ on = [s \in Side |-> FALSE]
    /\ allocated = [s \in Side |-> FALSE]
    /\ is_open = [s \in Side |-> FALSE]
    /\ pos = 0
    /\ tpc = [s \in Side |-> "none"]
    /\ cpc = "idle"
    /\ side = "play"
    /\ active = [s \in Side |-> FALSE]
    /\ transport \in BOOLEAN
    /\ rec_buffer_ = NoChunk
    /\ unwritten = FALSE
    /\ delivered = NoChunk

-----------------------------------------------------------------------------
(* The calls of the module.                                                *)

\* A start while the device plays or records is ignored.
MayStart(s) == ~on[s]

\* AudioDeviceBuffer::StartPlayout and StartRecording ...
Start(s) ==
    /\ cpc = "idle"
    /\ MayStart(s)
    /\ active' = [active EXCEPT ![s] = TRUE]
    /\ cpc' = "start"
    /\ side' = s
    /\ UNCHANGED <<named, device, pos, tpc, transport, rec_buffer_, unwritten, delivered>>

Mut_RewoundNever == pos

\* The position of the input file once it is opened.
Opened == 0

Opens(s, ok) ==
    /\ on' = [on EXCEPT ![s] = ok]
    /\ allocated' = [allocated EXCEPT ![s] = ok]
    /\ is_open' = [is_open EXCEPT ![s] = ok /\ named[s]]

\* ... and then the device's: the buffer is allocated, the file is opened and the
\* thread started; if the file cannot be opened all is undone.  Only StartPlayout
\* looks whether it is already running.
DeviceStart ==
    /\ cpc = "start"
    /\ cpc' = "idle"
    /\ IF side = "play" /\ on["play"]
       THEN UNCHANGED <<device, tpc, pos, delivered>>
       ELSE /\ \E ok \in BOOLEAN :
                   /\ ~ok => named[side]
                   /\ Opens(side, ok)
                   /\ tpc' = IF ok THEN [tpc EXCEPT ![side] = "loop"] ELSE tpc
            /\ pos' = IF side = "rec" THEN Opened ELSE pos
            /\ delivered' = IF side = "rec" THEN NoChunk ELSE delivered
    /\ UNCHANGED <<named, side, buffer, unwritten>>

\* The device's StopPlayout and StopRecording clear the flag ...
Stop(s) ==
    /\ cpc = "idle"
    /\ on' = [on EXCEPT ![s] = FALSE]
    /\ cpc' = "join"
    /\ side' = s
    /\ UNCHANGED <<named, allocated, is_open, pos, tpc, buffer, unwritten, delivered>>

Mut_JoinableAlways(s) == TRUE

\* ... join the thread, if there is one ...
Joinable(s) == tpc[s] \in {"exited", "none"}

Join ==
    /\ cpc = "join"
    /\ Joinable(side)
    /\ tpc' = [tpc EXCEPT ![side] = IF @ = "exited" THEN "none" ELSE @]
    /\ cpc' = "free"
    /\ UNCHANGED <<named, device, pos, side, buffer, unwritten, delivered>>

\* ... and free the buffer and close the file; ...
FreeBuffer ==
    /\ cpc = "free"
    /\ allocated' = [allocated EXCEPT ![side] = FALSE]
    /\ is_open' = [is_open EXCEPT ![side] = FALSE]
    /\ cpc' = "stop"
    /\ UNCHANGED <<named, on, pos, tpc, side, buffer, unwritten, delivered>>

\* ... AudioDeviceBuffer::StopPlayout and StopRecording come last.
StopBuffer ==
    /\ cpc = "stop"
    /\ active' = [active EXCEPT ![side] = FALSE]
    /\ cpc' = "idle"
    /\ UNCHANGED <<named, device, pos, tpc, side, transport, rec_buffer_, unwritten,
                   delivered>>

Mut_MediaPlays == active["play"]

Media == \E s \in Side : active[s]

\* RegisterAudioCallback sets or clears the transport, not while media is active.
RegisterAudioCallback ==
    /\ cpc = "idle"
    /\ ~Media
    /\ transport' = ~transport
    /\ UNCHANGED <<named, device, pos, tpc, cpc, side, active, rec_buffer_, unwritten,
                   delivered>>

-----------------------------------------------------------------------------
(* The threads.                                                            *)

ThreadGoes(s, label) == tpc' = [tpc EXCEPT ![s] = label]

Mut_GoesOnAlways(s) == TRUE

GoesOn(s) == on[s]

\* The flag is read without the lock.
ThreadTests(s) ==
    /\ tpc[s] = "loop"
    /\ ThreadGoes(s, IF GoesOn(s) THEN "lock" ELSE "exited")
    /\ UNCHANGED <<named, device, pos, cpc, side, buffer, unwritten, delivered>>

\* PlayThreadProcess under the lock: nothing, or 10 ms have passed ...
PlayLocks ==
    /\ tpc["play"] = "lock"
    /\ ThreadGoes("play", "call") \/ ThreadGoes("play", "loop")
    /\ UNCHANGED <<named, device, pos, cpc, side, buffer, unwritten, delivered>>

\* ... the lock is released around RequestPlayoutData ...
RequestPlayoutData ==
    /\ tpc["play"] = "call"
    /\ unwritten' = (transport /\ named["play"])
    /\ ThreadGoes("play", "copy")
    /\ UNCHANGED <<named, device, pos, cpc, side, buffer, delivered>>

Writes == is_open["play"]

\* ... and taken again for GetPlayoutData and the write.
PlayWrites ==
    /\ tpc["play"] = "copy"
    /\ unwritten' = (unwritten /\ ~Writes)
    /\ ThreadGoes("play", "loop")
    /\ UNCHANGED <<named, device, pos, cpc, side, buffer, delivered>>

AtEndOfFile == pos = FileLen

\* RecThreadProcess under the lock: the next chunk goes to the AudioDeviceBuffer;
\* at the end of the file it is rewound, and nothing is read.
RecReads ==
    /\ tpc["rec"] = "lock"
    /\ \/ ThreadGoes("rec", "loop") /\ UNCHANGED <<pos, rec_buffer_>>
       \/ /\ is_open["rec"]
          /\ IF AtEndOfFile THEN pos' = 0 /\ UNCHANGED rec_buffer_
                            ELSE pos' = pos + 1 /\ rec_buffer_' = pos + 1
          /\ ThreadGoes("rec", "call")
    /\ UNCHANGED <<named, device, cpc, side, active, transport, unwritten, delivered>>

\* Without the lock, what the AudioDeviceBuffer holds is delivered.
DeliverRecordedData ==
    /\ tpc["rec"] = "call"
    /\ delivered' = rec_buffer_
    /\ ThreadGoes("rec", "loop")
    /\ UNCHANGED <<named, device, pos, cpc, side, buffer, unwritten>>

-----------------------------------------------------------------------------
StopContinues == Join \/ FreeBuffer \/ StopBuffer

PlayThreadProcess == ThreadTests("play") \/ PlayLocks \/ RequestPlayoutData \/ PlayWrites

RecThreadProcess == ThreadTests("rec") \/ RecReads \/ DeliverRecordedData

Next ==
    \/ \E s \in Side : Start(s) \/ Stop(s)
    \/ DeviceStart \/ StopContinues \/ RegisterAudioCallback
    \/ PlayThreadProcess \/ RecThreadProcess

Spec == Init /\ [][Next]_vars

\* Threads are scheduled and the transport returns.  Nobody has to start or stop.
Fairness ==
    /\ WF_vars(DeviceStart \/ StopContinues)
    /\ WF_vars(PlayThreadProcess) /\ WF_vars(RecThreadProcess)

FairSpec == Spec /\ Fairness

-----------------------------------------------------------------------------
(* Properties.                                                             *)

\* Every variable has its type.
TypeOK ==
    /\ named \in [Side -> BOOLEAN]
    /\ on \in [Side -> BOOLEAN] /\ allocated \in [Side -> BOOLEAN]
    /\ is_open \in [Side -> BOOLEAN]
    /\ pos \in 0..FileLen
    /\ tpc \in [Side -> {"none", "loop", "lock", "call", "copy", "exited"}]
    /\ cpc \in {"idle", "start", "join", "free", "stop"}
    /\ side \in Side
    /\ active \in [Side -> BOOLEAN] /\ transport \in BOOLEAN
    /\ rec_buffer_ \in 0..FileLen /\ delivered \in 0..FileLen
    /\ unwritten \in BOOLEAN

\* A thread between its look at the flag and the end of its round finds its buffer
\* allocated, though StopPlayout and StopRecording may run meanwhile and the lock
\* is released around the calls of the AudioDeviceBuffer.
BufferOutlivesRound ==
    \A s \in Side : tpc[s] \in {"lock", "call", "copy"} => allocated[s]

\* A start finds no thread of an earlier one: StartRecording, which does not look,
\* would lose it with the PlatformThread it replaces.
StartsOneThread == cpc = "start" => tpc[side] = "none"

\* The transport is never replaced while a thread may be calling it, although
\* RegisterAudioCallback looks only at the flags of the AudioDeviceBuffer.
TransportIsStable ==
    [][transport' # transport => \A s \in Side : tpc[s] # "call"]_vars

\* Every chunk that the transport gave is in the output file when the round ends,
\* the one requested while StopPlayout cleared _playing included.
RequestedIsWritten == tpc["play"] # "copy" => ~unwritten

\* Each recording delivers the file from its first chunk on, over and over, in
\* order; only the last chunk may be delivered a second time, when the end of the
\* file is met (RecThreadProcess delivers what it has after Rewind, too).
DeliversInOrder ==
    [][tpc["rec"] = "call" /\ tpc'["rec"] = "loop" =>
           \/ delivered' = (delivered % FileLen) + 1
           \/ delivered' = delivered /\ delivered = FileLen]_vars

\* StopPlayout and StopRecording return, whatever the thread was doing.
StopReturns == cpc = "join" ~> cpc = "idle"
=============================================================================
