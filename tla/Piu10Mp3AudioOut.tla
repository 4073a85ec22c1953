------------------------- MODULE Piu10Mp3AudioOut -------------------------
(***************************************************************************)
(* The MP3 decoder of the PIU10 board                                      *)
(* (src/src/engine/piu10_mp3_audio_out.cpp): the guest thread writes the   *)
(* song through the port, a worker thread finds frames, decodes them and   *)
(* keeps the audio device fed.  The two meet in DecoderInputFifo, whose    *)
(* operations are extended here with what each thread does around them.    *)
(* The bytes are positions in Song; held is the encoded vector past its    *)
(* cursor, so CompactEncoded changes nothing here.                         *)
(***************************************************************************)
EXTENDS DecoderInputFifo, FiniteSets

CONSTANTS
    Song,           \* what starts at each byte: a frame header of some format, or "-"
    HeaderBytes,    \* the bytes ParseMpegAudioFrameHeader needs
    FrameBytes,     \* frame_bytes of a frame
    InitialFrames,  \* kInitialCompatibleFrames
    DrainBytes,     \* kRingDrainBytes
    PcmTarget,      \* decoded frames in kMaximumQueuedPcmBytes
    NotifyEvery     \* 256: WriteByte notifies that often

(* Byte is the set of positions.  The frames that synchronise the decoder  *)
(* fit below the capacity at which demand ends: without that the guest and *)
(* the decoder wait for each other.                                        *)
ASSUME Mp3Assumption ==
    /\ Song \in Seq(STRING) /\ Byte = 1..Len(Song)
    /\ HeaderBytes \in Nat \ {0} /\ FrameBytes \in Nat /\ HeaderBytes <= FrameBytes
    /\ InitialFrames \in Nat \ {0}
    /\ InitialFrames * FrameBytes <= Logical
    /\ DrainBytes \in Nat \ {0} /\ PcmTarget \in Nat \ {0} /\ NotifyEvery \in Nat \ {0}

VARIABLES
    next,         \* the guest's position in the song
    call,         \* which write the guest is in: "none", "byte" or "batch"
    wasEmpty,     \* was_empty of that write
    received,     \* received_bytes
    dropped,      \* dropped_bytes # 0
    worker,       \* the worker's place in Run
    got,          \* count of the latest Pop # 0
    progressed,   \* a frame or a byte was consumed in this turn
    streamFound,  \* stream_found
    asleep,       \* the worker is blocked on wake
    pcm,          \* decoded frames the device has not played
    ready,        \* ready
    shutdown      \* shutdown

guestVars  == <<next, call, wasEmpty, received, dropped>>
workerVars == <<worker, got, progressed, streamFound>>
mp3Vars == <<vars, guestVars, workerVars, asleep, pcm, ready, shutdown>>

(* The state Open leaves behind. *)
Mp3Init ==
    /\ Init
    /\ next = 1 /\ call = "none" /\ wasEmpty = FALSE /\ received = 0 /\ dropped = FALSE
    /\ worker = "top" /\ got = FALSE /\ progressed = FALSE /\ streamFound = FALSE
    /\ asleep = FALSE /\ pcm = 0 /\ ready = TRUE /\ shutdown = FALSE

Demand == ready /\ inflight < Logical

-----------------------------------------------------------------------------
(* The guest thread. *)

WriteByte ==
    /\ call = "none" /\ ready /\ next <= Len(Song)
    /\ PushByte(next)
    /\ call' = "byte" /\ wasEmpty' = (ring = <<>>)
    /\ UNCHANGED <<next, received, dropped, workerVars, asleep, pcm, ready, shutdown>>

(* No room even in the ring: the byte is lost, the guest goes on. *)
WriteByteDropped ==
    /\ call = "none" /\ ready /\ next <= Len(Song)
    /\ Grant(1, Physical) = 0
    /\ next' = next + 1 /\ dropped' = TRUE
    /\ UNCHANGED <<vars, call, wasEmpty, received, workerVars, asleep, pcm, ready, shutdown>>

WriteBytes(n) ==
    /\ call = "none" /\ ready /\ next + n - 1 <= Len(Song)
    /\ PushBatch([i \in 1..n |-> next + i - 1])
    /\ call' = "batch" /\ wasEmpty' = (ring = <<>>)
    /\ UNCHANGED <<next, received, dropped, workerVars, asleep, pcm, ready, shutdown>>

PushLoads ==
    /\ RingPushLoad
    /\ UNCHANGED <<guestVars, workerVars, asleep, pcm, ready, shutdown>>

(* Mutant: the guest's cursor moves by what was offered, not by what was   *)
(* taken.                                                                  *)
PushPublishesAll ==
    /\ RingPushPublish
    /\ next' = next + (IF call = "byte" THEN 1 ELSE MaxBatch)
    /\ received' = received + accepted
    /\ UNCHANGED <<call, wasEmpty, dropped, workerVars, asleep, pcm, ready, shutdown>>

(* The bytes taken are in the ring; the guest's cursor moves past them.    *)
PushPublishes ==
    /\ RingPushPublish
    /\ next' = next + (IF call = "byte" THEN 1 ELSE accepted)
    /\ received' = received + accepted
    /\ UNCHANGED <<call, wasEmpty, dropped, workerVars, asleep, pcm, ready, shutdown>>

(* The write returns.  It notifies without the mutex, and only when the    *)
(* ring looked empty before the push or, for bytes, now and then.          *)
WriteReturns ==
    /\ PushReturn
    /\ call' = "none"
    /\ asleep' = IF wasEmpty \/ (call = "byte" /\ received % NotifyEvery = 0)
                   THEN FALSE ELSE asleep
    /\ UNCHANGED <<next, wasEmpty, received, dropped, workerVars, pcm, ready, shutdown>>

(* Close, once the guest thread is gone. *)
Close ==
    /\ call = "none" /\ ready
    /\ ready' = FALSE /\ shutdown' = TRUE /\ asleep' = FALSE
    /\ UNCHANGED <<vars, guestVars, workerVars, pcm>>

-----------------------------------------------------------------------------
(* The worker thread. *)

Goto(place) == worker' = place

(* Mutant: the worker decodes ahead without limit. *)
NeedsPcmAlways == TRUE

(* NeedsPcm compares the bytes queued with the playback clock, which lags  *)
(* behind the device: with less than half the target queued it is true,    *)
(* with the target queued it is false, in between it may be either.        *)
NeedsPcm     == pcm < PcmTarget
HasEnoughPcm == 2 * pcm >= PcmTarget

(* Mutant: a turn starts without looking at the shutdown flag. *)
RunTurnRegardless ==
    /\ worker = "top" /\ NeedsPcm
    /\ Goto("pop")
    /\ UNCHANGED <<vars, guestVars, got, progressed, streamFound, asleep, pcm, ready, shutdown>>

(* A turn of Run starts; with enough audio queued the worker sleeps. *)
RunTurn ==
    /\ worker = "top"
    /\ IF shutdown THEN Goto("exited") ELSE NeedsPcm /\ Goto("pop")
    /\ UNCHANGED <<vars, guestVars, got, progressed, streamFound, asleep, pcm, ready, shutdown>>

RunPop ==
    /\ worker = "pop"
    /\ IF ring = <<>> THEN UNCHANGED vars ELSE Pop(Min(DrainBytes, Len(ring)))
    /\ got' = (ring # <<>>) /\ progressed' = FALSE
    /\ Goto("decode")
    /\ UNCHANGED <<guestVars, streamFound, asleep, pcm, ready, shutdown>>

(* ParseMpegAudioFrameHeader at the byte after the first k held. *)
Format(k)   == Song[held[k + 1]]
IsHeader(k) == Format(k) # "-"

(* One frame of ValidateInitialFrames, k bytes on. *)
Candidate(k) ==
    CASE Len(held) < k + HeaderBytes -> "more"
      [] Len(held) >= k + HeaderBytes /\ ~IsHeader(k) -> "bad"
      [] Len(held) >= k + HeaderBytes /\ IsHeader(k) ->
            IF Len(held) < k + FrameBytes THEN "more"
            ELSE IF Format(k) = Format(0) THEN "good" ELSE "bad"

(* ValidateInitialFrames: the first frame that is not good decides. *)
InitialCheck ==
    LET probes == {i * FrameBytes : i \in 0..(InitialFrames - 1)}
        poor   == {k \in probes : Candidate(k) # "good"}
    IN  IF poor = {} THEN "good"
        ELSE Candidate(CHOOSE k \in poor : \A j \in poor : k <= j)

(* DecodeOne has nothing to work on yet. *)
NeedsMore ==
    IF Len(held) < HeaderBytes THEN TRUE
    ELSE /\ IsHeader(0)
         /\ IF streamFound THEN Len(held) < FrameBytes ELSE InitialCheck = "more"

(* DecodeOne skips one byte: no frame starts here. *)
SkipsByte == ~NeedsMore /\ (~IsHeader(0) \/ (~streamFound /\ InitialCheck = "bad"))

(* The inner loop ends: enough audio, or nothing to decode. *)
DecodeStops ==
    /\ worker = "decode"
    /\ HasEnoughPcm \/ NeedsMore
    /\ Goto("after")
    /\ UNCHANGED <<vars, guestVars, got, progressed, streamFound, asleep, pcm, ready, shutdown>>

(* Mutant: decoded bytes leave the encoded vector but not the count. *)
ConsumeDecodedUncounted(n) ==
    /\ n \in 1..Len(held)
    /\ held' = SubSeq(held, n + 1, Len(held))
    /\ progressed' = TRUE
    /\ Goto("decode")
    /\ UNCHANGED <<ring, inflight, step, input, reserved, accepted, failed,
                   guestVars, got, asleep, ready, shutdown>>

(* What follows every DecodeOne that moved the cursor. *)
ConsumeDecoded(n) ==
    /\ Consume(n)
    /\ progressed' = ~failed'
    /\ shutdown' = (shutdown \/ failed')
    /\ Goto(IF failed' THEN "after" ELSE "decode")
    /\ UNCHANGED <<guestVars, got, asleep, ready>>

DecodeSkips ==
    /\ worker = "decode" /\ NeedsPcm
    /\ SkipsByte
    /\ streamFound' = (streamFound /\ IsHeader(0))
    /\ ConsumeDecoded(1)
    /\ UNCHANGED pcm

(* A frame goes to minimp3, which takes n bytes of it, or none: then the   *)
(* frame is skipped and the stream looked for again.  The decoded samples  *)
(* may also be refused by the device.                                      *)
DecodeFrame(n) ==
    /\ worker = "decode" /\ NeedsPcm
    /\ ~NeedsMore /\ ~SkipsByte
    /\ streamFound' = (n # 0)
    /\ ConsumeDecoded(IF n = 0 THEN FrameBytes ELSE n)
    /\ pcm' \in IF n = 0 THEN {pcm} ELSE {pcm, pcm + 1}

(* The turn ends.  With nothing popped and nothing decoded the worker      *)
(* waits: it tests for data with the mutex held, ...                       *)
RunAfter ==
    /\ worker = "after"
    /\ Goto(IF progressed \/ got \/ shutdown \/ ring # <<>> THEN "top" ELSE "blocking")
    /\ UNCHANGED <<vars, guestVars, got, progressed, streamFound, asleep, pcm, ready, shutdown>>

(* ... and only then blocks; a notify in between wakes nobody. *)
RunBlocks ==
    /\ worker = "blocking"
    /\ Goto("waiting")
    /\ asleep' = TRUE
    /\ UNCHANGED <<vars, guestVars, got, progressed, streamFound, pcm, ready, shutdown>>

(* Mutant: the wait has no timeout. *)
WaitTimesOutNever == FALSE /\ UNCHANGED mp3Vars

(* The two milliseconds pass. *)
WaitTimesOut ==
    /\ asleep
    /\ asleep' = FALSE
    /\ UNCHANGED <<vars, guestVars, workerVars, pcm, ready, shutdown>>

RunWakes ==
    /\ worker = "waiting" /\ ~asleep
    /\ Goto("top")
    /\ UNCHANGED <<vars, guestVars, got, progressed, streamFound, asleep, pcm, ready, shutdown>>

(* The device plays a frame. *)
DevicePlays ==
    /\ pcm > 0
    /\ pcm' = pcm - 1
    /\ UNCHANGED <<vars, guestVars, workerVars, asleep, ready, shutdown>>

-----------------------------------------------------------------------------
Write    == WriteByte \/ \E n \in 1..MaxBatch : WriteBytes(n)
InWrite  == PushLoads \/ PushPublishes \/ WriteReturns
Decode   == DecodeStops \/ DecodeSkips \/ \E n \in 0..FrameBytes : DecodeFrame(n)
Worker   == RunTurn \/ RunPop \/ Decode \/ RunAfter \/ RunBlocks \/ RunWakes
Finished == worker = "exited" /\ pcm = 0 /\ UNCHANGED mp3Vars

Mp3Next ==
    \/ Write \/ WriteByteDropped \/ InWrite \/ Close
    \/ Worker \/ WaitTimesOut \/ DevicePlays
    \/ Finished

Mp3Spec == Mp3Init /\ [][Mp3Next]_mp3Vars

(* The threads and the device run; a guest that sees demand writes on.     *)
(* Nothing else is promised: not that it writes without demand, nor that   *)
(* a sleeping worker is notified.                                          *)
Mp3FairSpec ==
    /\ Mp3Spec
    /\ WF_mp3Vars(Demand /\ WriteByte)
    /\ WF_mp3Vars(InWrite)
    /\ WF_mp3Vars(Worker)
    /\ WF_mp3Vars(WaitTimesOut)
    /\ WF_mp3Vars(DevicePlays)

-----------------------------------------------------------------------------
(* Properties. *)

(* The decoder's state stays well formed: the guest never runs past the    *)
(* song, and the worker never decodes further ahead than the audio it may  *)
(* queue (NeedsPcm).                                                       *)
Mp3TypeOK ==
    /\ TypeOK
    /\ next \in 1..(Len(Song) + 1)
    /\ call \in {"none", "byte", "batch"} /\ wasEmpty \in BOOLEAN
    /\ received \in 0..Len(Song) /\ dropped \in BOOLEAN
    /\ worker \in {"top", "pop", "decode", "after", "blocking", "waiting", "exited"}
    /\ got \in BOOLEAN /\ progressed \in BOOLEAN /\ streamFound \in BOOLEAN
    /\ asleep \in BOOLEAN /\ pcm \in 0..PcmTarget
    /\ ready \in BOOLEAN /\ shutdown \in BOOLEAN

(* The decoder sees the song as the guest wrote it: what is waiting to be  *)
(* decoded is an unbroken piece of it that ends where the guest is, across *)
(* cut grants, wake-ups and resynchronisation, as long as the guest has    *)
(* not written into a full ring (WriteBytes, Pop, Consume).                *)
StreamUnbroken ==
    ~dropped =>
        LET waiting == held \o ring IN
        \A i \in 1..Len(waiting) : waiting[i] = next - 1 - Len(waiting) + i

(* A guest that follows demand gets its whole song accepted: the guest,    *)
(* waiting for room, and the decoder, waiting for three whole frames or    *)
(* for a wake-up that was lost, never wait for each other for good.        *)
SongKeepsMoving == ready ~> next > Len(Song) \/ ~ready

(* The worker always leaves Run after Close has asked it to, so the join   *)
(* in Close returns.                                                       *)
WorkerExits == shutdown ~> worker = "exited"

(* The whole decoder uses its FIFO as DecoderInputFifo allows, so what is  *)
(* true of the FIFO is true here.                                          *)
UsesFifo == Spec

=============================================================================
