------------------------ MODULE FileAudioDeviceProofs ------------------------
(***************************************************************************)
(* Proofs about FileAudioDevice for an input file of any length and any    *)
(* number of starts and stops.                                             *)
(***************************************************************************)
EXTENDS FileAudioDevice, TLAPS

\* A thread exists from the start of the device to the join of the stop, ...
ThreadLives(s) ==
    /\ on[s] => tpc[s] \notin {"none", "exited"}
    /\ tpc[s] # "none" => on[s] \/ (cpc = "join" /\ side = s)

\* ... and as long as it does, all that it uses does.
ThreadHas(s) ==
    tpc[s] # "none" => allocated[s] /\ active[s] /\ (is_open[s] <=> named[s])

DeviceInv ==
    /\ TypeOK
    /\ \A s \in Side : ThreadLives(s) /\ ThreadHas(s)
    /\ cpc \in {"start", "free", "stop"} => tpc[side] = "none"
    /\ cpc = "start" => active[side]
    /\ unwritten => tpc["play"] = "copy" /\ named["play"]

-----------------------------------------------------------------------------
LEMMA DeviceInvInit == Init => DeviceInv
  <1> SUFFICES ASSUME Init PROVE DeviceInv
    OBVIOUS
  <1> USE FileLenAssumption DEF Init
  <1>1. TypeOK
    <2>1. pos \in 0..FileLen /\ rec_buffer_ \in 0..FileLen /\ delivered \in 0..FileLen
      BY DEF NoChunk
    <2>2. /\ \A v \in {on, allocated, is_open, active} : v \in [Side -> BOOLEAN]
          /\ side \in Side
          /\ tpc \in [Side -> {"none", "loop", "lock", "call", "copy", "exited"}]
      BY DEF Side
    <2> QED
      BY <2>1, <2>2 DEF TypeOK
  <1>2. \A s \in Side : ThreadLives(s) /\ ThreadHas(s)
    BY DEF ThreadLives, ThreadHas
  <1> QED
    BY <1>1, <1>2 DEF DeviceInv

LEMMA TypeStep == TypeOK /\ [Next]_vars => TypeOK'
  <1> SUFFICES ASSUME TypeOK, [Next]_vars PROVE TypeOK'
    OBVIOUS
  <1> USE FileLenAssumption DEF TypeOK
  <1>1. ASSUME NEW s \in Side, Start(s) PROVE TypeOK'
    BY <1>1 DEF Start, device
  <1>2. ASSUME NEW s \in Side, Stop(s) PROVE TypeOK'
    BY <1>2 DEF Stop, buffer
  <1>3. CASE DeviceStart
    <2>1. CASE side = "play" /\ on["play"]
      BY <1>3, <2>1 DEF DeviceStart, device, buffer
    <2>2. CASE ~(side = "play" /\ on["play"])
      <3>1. PICK ok \in BOOLEAN :
              /\ Opens(side, ok)
              /\ tpc' = IF ok THEN [tpc EXCEPT ![side] = "loop"] ELSE tpc
        BY <1>3, <2>2 DEF DeviceStart
      <3>2. /\ on' \in [Side -> BOOLEAN] /\ allocated' \in [Side -> BOOLEAN]
            /\ is_open' \in [Side -> BOOLEAN]
        BY <3>1 DEF Opens
      <3>3. tpc' \in [Side -> {"none", "loop", "lock", "call", "copy", "exited"}]
        BY <3>1
      <3>4. pos' \in 0..FileLen /\ delivered' \in 0..FileLen
        BY <1>3, <2>2 DEF DeviceStart, Opened, NoChunk
      <3> QED
        BY <1>3, <3>2, <3>3, <3>4 DEF DeviceStart, buffer
    <2> QED
      BY <2>1, <2>2
  <1>4. CASE Join
    BY <1>4 DEF Join, device, buffer
  <1>5. CASE FreeBuffer
    BY <1>5 DEF FreeBuffer, buffer
  <1>6. CASE StopBuffer
    BY <1>6 DEF StopBuffer, device
  <1>7. CASE RegisterAudioCallback
    BY <1>7 DEF RegisterAudioCallback, device
  <1>8. ASSUME NEW s \in Side, ThreadTests(s) PROVE TypeOK'
    BY <1>8 DEF ThreadTests, ThreadGoes, device, buffer
  <1>9. CASE PlayLocks
    BY <1>9 DEF PlayLocks, ThreadGoes, device, buffer
  <1>10. CASE RequestPlayoutData
    BY <1>10 DEF RequestPlayoutData, ThreadGoes, device, buffer, Side
  <1>11. CASE PlayWrites
    BY <1>11 DEF PlayWrites, ThreadGoes, Writes, device, buffer, Side
  <1>12. CASE RecReads
    BY <1>12 DEF RecReads, ThreadGoes, AtEndOfFile, device, Side
  <1>13. CASE DeliverRecordedData
    BY <1>13 DEF DeliverRecordedData, ThreadGoes, device, buffer, Side
  <1>14. CASE UNCHANGED vars
    BY <1>14 DEF vars, device, buffer
  <1> QED
    BY <1>1, <1>2, <1>3, <1>4, <1>5, <1>6, <1>7, <1>8, <1>9, <1>10, <1>11, <1>12,
       <1>13, <1>14
    DEF Next, StopContinues, PlayThreadProcess, RecThreadProcess, Side

LEMMA DeviceInvStep == DeviceInv /\ [Next]_vars => DeviceInv'
  <1> SUFFICES ASSUME DeviceInv, [Next]_vars PROVE DeviceInv'
    OBVIOUS
  <1>0. TypeOK'
    BY TypeStep DEF DeviceInv
  <1> USE <1>0 DEF DeviceInv, TypeOK, ThreadLives, ThreadHas, Side
  <1>1. ASSUME NEW s \in Side, Start(s) PROVE DeviceInv'
    BY <1>1 DEF Start, MayStart, device
  <1>2. ASSUME NEW s \in Side, Stop(s) PROVE DeviceInv'
    BY <1>2 DEF Stop, buffer
  <1>3. CASE DeviceStart
    <2>1. CASE side = "play" /\ on["play"]
      BY <1>3, <2>1 DEF DeviceStart, device, buffer
    <2>2. CASE ~(side = "play" /\ on["play"])
      <3>1. PICK ok \in BOOLEAN :
              /\ Opens(side, ok)
              /\ tpc' = IF ok THEN [tpc EXCEPT ![side] = "loop"] ELSE tpc
        BY <1>3, <2>2 DEF DeviceStart
      <3>2. tpc[side] = "none" /\ active[side] /\ cpc' = "idle" /\ side' = side
        BY <1>3 DEF DeviceStart
      <3>3. UNCHANGED <<named, active, unwritten>>
        BY <1>3 DEF DeviceStart, buffer
      <3>4. CASE ok
        <4>1. /\ on' = [on EXCEPT ![side] = TRUE]
              /\ allocated' = [allocated EXCEPT ![side] = TRUE]
              /\ is_open' = [is_open EXCEPT ![side] = named[side]]
              /\ tpc' = [tpc EXCEPT ![side] = "loop"]
          BY <3>1, <3>4 DEF Opens
        <4> QED
          BY <4>1, <3>2, <3>3
      <3>5. CASE ~ok
        <4>1. /\ on' = [on EXCEPT ![side] = FALSE]
              /\ allocated' = [allocated EXCEPT ![side] = FALSE]
              /\ is_open' = [is_open EXCEPT ![side] = FALSE]
              /\ tpc' = tpc
          BY <3>1, <3>5 DEF Opens
        <4> QED
          BY <4>1, <3>2, <3>3
      <3> QED
        BY <3>4, <3>5
    <2> QED
      BY <2>1, <2>2
  <1>4. CASE Join
    BY <1>4 DEF Join, Joinable, device, buffer
  <1>5. CASE FreeBuffer
    BY <1>5 DEF FreeBuffer, buffer
  <1>6. CASE StopBuffer
    BY <1>6 DEF StopBuffer, device
  <1>7. CASE RegisterAudioCallback
    BY <1>7 DEF RegisterAudioCallback, device
  <1>8. ASSUME NEW s \in Side, ThreadTests(s) PROVE DeviceInv'
    BY <1>8 DEF ThreadTests, ThreadGoes, GoesOn, device, buffer
  <1>9. CASE PlayLocks
    BY <1>9 DEF PlayLocks, ThreadGoes, device, buffer
  <1>10. CASE RequestPlayoutData
    BY <1>10 DEF RequestPlayoutData, ThreadGoes, device, buffer
  <1>11. CASE PlayWrites
    BY <1>11 DEF PlayWrites, ThreadGoes, Writes, device, buffer
  <1>12. CASE RecReads
    BY <1>12 DEF RecReads, ThreadGoes, device
  <1>13. CASE DeliverRecordedData
    BY <1>13 DEF DeliverRecordedData, ThreadGoes, device, buffer
  <1>14. CASE UNCHANGED vars
    BY <1>14 DEF vars, device, buffer
  <1> QED
    BY <1>1, <1>2, <1>3, <1>4, <1>5, <1>6, <1>7, <1>8, <1>9, <1>10, <1>11, <1>12,
       <1>13, <1>14
    DEF Next, StopContinues, PlayThreadProcess, RecThreadProcess

LEMMA DeviceInvariant == Spec => []DeviceInv
  BY DeviceInvInit, DeviceInvStep, PTL DEF Spec

\* Every variable of the file device keeps its type (TypeOK).
THEOREM TypeCorrect == Spec => []TypeOK
  <1>1. DeviceInv => TypeOK
    BY DEF DeviceInv
  <1> QED
    BY <1>1, DeviceInvariant, PTL

\* The buffers outlive every round of the threads (BufferOutlivesRound).
THEOREM BufferCorrect == Spec => []BufferOutlivesRound
  <1>1. DeviceInv => BufferOutlivesRound
    BY DEF DeviceInv, ThreadHas, BufferOutlivesRound
  <1> QED
    BY <1>1, DeviceInvariant, PTL

\* A start never meets a thread of an earlier one (StartsOneThread).
THEOREM StartCorrect == Spec => []StartsOneThread
  <1>1. DeviceInv => StartsOneThread
    BY DEF DeviceInv, StartsOneThread
  <1> QED
    BY <1>1, DeviceInvariant, PTL

\* No chunk that the transport gave is lost (RequestedIsWritten).
THEOREM WriteCorrect == Spec => []RequestedIsWritten
  <1>1. DeviceInv => RequestedIsWritten
    BY DEF DeviceInv, RequestedIsWritten
  <1> QED
    BY <1>1, DeviceInvariant, PTL

\* The transport is not replaced under a thread that calls it (TransportIsStable).
THEOREM TransportCorrect == Spec => TransportIsStable
  <1>1. DeviceInv /\ [Next]_vars =>
            [transport' # transport => \A s \in Side : tpc[s] # "call"]_vars
    <2> SUFFICES ASSUME DeviceInv, Next, transport' # transport
                 PROVE  \A s \in Side : tpc[s] # "call"
      OBVIOUS
    <2>1. RegisterAudioCallback
      BY DEF Next, Start, Stop, DeviceStart, StopContinues, Join, FreeBuffer, StopBuffer,
             PlayThreadProcess, RecThreadProcess, ThreadTests, PlayLocks,
             RequestPlayoutData, PlayWrites, RecReads, DeliverRecordedData, buffer
    <2> QED
      BY <2>1 DEF RegisterAudioCallback, Media, DeviceInv, ThreadHas, TypeOK
  <1> QED
    BY <1>1, DeviceInvariant, PTL DEF Spec, TransportIsStable
-----------------------------------------------------------------------------
(* The order of the recorded chunks.                                       *)

\* Before a read, the position is that of the chunk delivered last, or the file
\* has been rewound; ...
BeforeRead ==
    /\ pos = delivered \/ (pos = 0 /\ delivered = FileLen)
    /\ delivered # 0 => rec_buffer_ = delivered

\* ... after it, the AudioDeviceBuffer holds the next chunk, or the last again.
AfterRead ==
    \/ pos > 0 /\ rec_buffer_ = pos /\ delivered = pos - 1
    \/ pos = 1 /\ rec_buffer_ = 1 /\ delivered = FileLen
    \/ pos = 0 /\ rec_buffer_ = FileLen /\ delivered = FileLen

OrderInv ==
    /\ tpc["rec"] \in {"loop", "lock"} => BeforeRead
    /\ tpc["rec"] = "call" => AfterRead
    /\ tpc["rec"] # "copy"

LEMMA OrderInvInit == Init => OrderInv
  BY DEF Init, OrderInv, Side

LEMMA OrderInvStep == DeviceInv /\ OrderInv /\ [Next]_vars => OrderInv'
  <1> SUFFICES ASSUME DeviceInv, OrderInv, [Next]_vars PROVE OrderInv'
    OBVIOUS
  <1>0. TypeOK
    BY DEF DeviceInv
  <1> USE <1>0, FileLenAssumption DEF OrderInv, BeforeRead, AfterRead, TypeOK, Side
  <1>1. ASSUME NEW s \in Side, Start(s) PROVE OrderInv'
    BY <1>1 DEF Start
  <1>2. ASSUME NEW s \in Side, Stop(s) PROVE OrderInv'
    BY <1>2 DEF Stop, buffer
  <1>3. CASE DeviceStart
    <2>1. CASE side = "play" /\ on["play"]
      BY <1>3, <2>1 DEF DeviceStart, buffer
    <2>2. CASE side = "play" /\ ~on["play"]
      BY <1>3, <2>2 DEF DeviceStart, buffer
    <2>3. CASE side = "rec"
      <3>1. tpc["rec"] = "none"
        BY <1>3, <2>3 DEF DeviceInv, DeviceStart
      <3>2. tpc'["rec"] \in {"none", "loop"} /\ pos' = 0 /\ delivered' = 0
        BY <1>3, <2>3, <3>1 DEF DeviceStart, Opened, NoChunk
      <3> QED
        BY <3>2
    <2> QED
      BY <2>1, <2>2, <2>3
  <1>4. CASE Join
    BY <1>4 DEF Join, buffer
  <1>5. CASE FreeBuffer
    BY <1>5 DEF FreeBuffer, buffer
  <1>6. CASE StopBuffer
    BY <1>6 DEF StopBuffer
  <1>7. CASE RegisterAudioCallback
    BY <1>7 DEF RegisterAudioCallback
  <1>8. ASSUME NEW s \in Side, ThreadTests(s) PROVE OrderInv'
    BY <1>8 DEF ThreadTests, ThreadGoes, buffer
  <1>9. CASE PlayLocks
    BY <1>9 DEF PlayLocks, ThreadGoes, buffer
  <1>10. CASE RequestPlayoutData
    BY <1>10 DEF RequestPlayoutData, ThreadGoes, buffer
  <1>11. CASE PlayWrites
    BY <1>11 DEF PlayWrites, ThreadGoes, buffer
  <1>12. CASE RecReads
    <2>1. CASE ThreadGoes("rec", "loop") /\ UNCHANGED <<pos, rec_buffer_>>
      BY <1>12, <2>1 DEF RecReads, ThreadGoes
    <2>2. CASE /\ IF AtEndOfFile THEN pos' = 0 /\ UNCHANGED rec_buffer_
                                 ELSE pos' = pos + 1 /\ rec_buffer_' = pos + 1
               /\ ThreadGoes("rec", "call")
      BY <1>12, <2>2 DEF RecReads, ThreadGoes, AtEndOfFile
    <2> QED
      BY <1>12, <2>1, <2>2 DEF RecReads
  <1>13. CASE DeliverRecordedData
    BY <1>13 DEF DeliverRecordedData, ThreadGoes, buffer
  <1>14. CASE UNCHANGED vars
    BY <1>14 DEF vars, buffer
  <1> QED
    BY <1>1, <1>2, <1>3, <1>4, <1>5, <1>6, <1>7, <1>8, <1>9, <1>10, <1>11, <1>12,
       <1>13, <1>14
    DEF Next, StopContinues, PlayThreadProcess, RecThreadProcess

\* Each recording delivers the file from its first chunk on, in order, whatever its
\* length (DeliversInOrder).
THEOREM OrderCorrect == Spec => DeliversInOrder
  <1>1. DeviceInv /\ OrderInv /\ [Next]_vars =>
            [tpc["rec"] = "call" /\ tpc'["rec"] = "loop" =>
                 \/ delivered' = (delivered % FileLen) + 1
                 \/ delivered' = delivered /\ delivered = FileLen]_vars
    <2> SUFFICES ASSUME DeviceInv, OrderInv, Next,
                        tpc["rec"] = "call" /\ tpc'["rec"] = "loop"
                 PROVE  \/ delivered' = (delivered % FileLen) + 1
                        \/ delivered' = delivered /\ delivered = FileLen
      OBVIOUS
    <2>0. TypeOK
      BY DEF DeviceInv
    <2>1. DeliverRecordedData
      <3> USE <2>0 DEF TypeOK, Side
      <3>1. ASSUME NEW s \in Side PROVE ~Start(s) /\ ~Stop(s)
        BY DEF Start, Stop
      <3>2. ~Join /\ ~FreeBuffer /\ ~StopBuffer /\ ~RegisterAudioCallback
        BY DEF Join, FreeBuffer, StopBuffer, RegisterAudioCallback
      <3>3. ~DeviceStart
        BY DEF DeviceStart, DeviceInv
      <3>4. ~ThreadTests("rec") /\ ~RecReads
        BY DEF ThreadTests, RecReads
      <3>5. ~PlayThreadProcess
        BY DEF PlayThreadProcess, ThreadTests, PlayLocks, RequestPlayoutData, PlayWrites,
               ThreadGoes
      <3> QED
        BY <3>1, <3>2, <3>3, <3>4, <3>5 DEF Next, StopContinues, RecThreadProcess
    <2>2. delivered' = rec_buffer_
      BY <2>1 DEF DeliverRecordedData
    <2>3. FileLen % FileLen = 0
      BY FileLenAssumption
    <2>4. \A n \in 0..FileLen - 1 : n % FileLen = n
      BY FileLenAssumption
    <2> QED
      BY <2>0, <2>2, <2>3, <2>4, FileLenAssumption DEF OrderInv, AfterRead, TypeOK
  <1> QED
    BY <1>1, DeviceInvariant, OrderInvInit, OrderInvStep, PTL DEF Spec, DeliversInOrder
=============================================================================
