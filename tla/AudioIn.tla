------------------------------ MODULE AudioIn ------------------------------
(***************************************************************************)
(* The microphone queue of the virtual host controller                     *)
(* (module/vds_hcd_core.c): vds_write_audio_in_frame puts the PCM frames   *)
(* of the daemon on audio_in_packets and drops the oldest ones beyond      *)
(* VDS_AUDIO_IN_QUEUE_MAX_BYTES, vds_fill_audio_in_locked takes bytes off  *)
(* it for an ISO IN URB, and a disconnect or the stop flushes it.          *)
(*                                                                         *)
(* Both loops run with dev->lock held; an iteration is an action, and lock *)
(* keeps everything else that takes dev->lock out until the loop is done.  *)
(*                                                                         *)
(* A byte is named by its place in the stream the daemon has written.      *)
(***************************************************************************)
EXTENDS Naturals, Sequences

CONSTANTS
    QueueMax,    \* VDS_AUDIO_IN_QUEUE_MAX_BYTES
    FrameSizes,  \* payload lengths of the daemon's PCM frames
    UrbSizes,    \* bytes the descriptors of one ISO IN URB ask for
    MaxBytes     \* bound: bytes the daemon writes

ASSUME SizesNat ==
    /\ QueueMax \in Nat /\ MaxBytes \in Nat
    /\ FrameSizes \subseteq Nat \ {0} /\ UrbSizes \subseteq Nat

VARIABLES
    lock,     \* who holds dev->lock across a loop: "write", "fill", or "free"
    todo,     \* length of the frame being written, or bytes left to fill
    packets,  \* audio_in_packets: the bytes lo .. hi - 1 of each that are left
    queued,   \* audio_in_queued_bytes
    written,  \* bytes accepted from the daemon so far
    heard,    \* the byte after the last one given to the host
    flushed   \* the value of written at the last flush

audioVars == <<lock, todo, packets, queued, written, heard, flushed>>

Free == lock = "free"

Left(p) == p.hi - p.lo

(* The guarded subtraction from audio_in_queued_bytes.                     *)
Less(n) == IF queued > n THEN queued - n ELSE 0

AudioInit ==
    /\ lock = "free" /\ todo = 0 /\ packets = <<>> /\ queued = 0
    /\ written = 0 /\ heard = 0 /\ flushed = 0

(* vds_write_audio_in_frame takes dev->lock with a frame of n bytes.       *)
WriteBegin(n) ==
    /\ Free /\ written + n <= MaxBytes
    /\ lock' = "write" /\ todo' = n
    /\ UNCHANGED <<packets, queued, written, heard, flushed>>

(* Mutant: room for the new frame is not counted.                          *)
CrowdedLate == packets # <<>> /\ queued > QueueMax

(* The loop's condition: the oldest frame has to make room.                *)
Crowded == packets # <<>> /\ queued + todo > QueueMax

WriteDrop ==
    /\ lock = "write" /\ Crowded
    /\ queued' = Less(Left(packets[1]))
    /\ packets' = Tail(packets)
    /\ UNCHANGED <<lock, todo, written, heard, flushed>>

WriteAppend ==
    /\ lock = "write" /\ ~Crowded
    /\ packets' = Append(packets, [lo |-> written, hi |-> written + todo])
    /\ queued' = queued + todo
    /\ written' = written + todo
    /\ lock' = "free" /\ todo' = 0
    /\ UNCHANGED <<heard, flushed>>

(* vds_iso_in_urb takes dev->lock for a URB of n bytes.                    *)
FillBegin(n) ==
    /\ Free
    /\ lock' = "fill" /\ todo' = n
    /\ UNCHANGED <<packets, queued, written, heard, flushed>>

(* One iteration: the head gives what it has, at most what is asked for,   *)
(* and is freed when it is empty.                                          *)
FillStep ==
    /\ lock = "fill" /\ todo > 0 /\ packets # <<>>
    /\ LET n == IF todo < Left(packets[1]) THEN todo ELSE Left(packets[1])
       IN  /\ heard' = packets[1].lo + n
           /\ todo' = todo - n
           /\ queued' = Less(n)
           /\ packets' = IF n = Left(packets[1])
                         THEN Tail(packets)
                         ELSE [packets EXCEPT ![1].lo = @ + n]
    /\ UNCHANGED <<lock, written, flushed>>

(* The rest of the URB is silence.                                         *)
FillEnd ==
    /\ lock = "fill" /\ (todo = 0 \/ packets = <<>>)
    /\ lock' = "free" /\ todo' = 0
    /\ UNCHANGED <<packets, queued, written, heard, flushed>>

(* The microphone's part of vds_flush_buffered_frames_locked.              *)
FlushAudio ==
    /\ packets' = <<>> /\ queued' = 0 /\ flushed' = written
    /\ UNCHANGED <<lock, todo, written, heard>>

-----------------------------------------------------------------------------
AudioTypeOK ==
    /\ lock \in {"free", "write", "fill"} /\ todo \in Nat
    /\ packets \in Seq([lo : Nat, hi : Nat])
    /\ queued \in Nat /\ written \in Nat /\ heard \in Nat /\ flushed \in Nat

(* The byte count that decides what is dropped is exact, and more than one *)
(* frame is kept only within the limit: the host hears the microphone at   *)
(* most QueueMax bytes, or one frame, late, whatever was dropped, partly   *)
(* read or flushed in between.                                             *)
MicBacklog ==
    Free => /\ queued = (IF packets = <<>> THEN 0 ELSE written - packets[1].lo)
            /\ Len(packets) > 1 => queued <= QueueMax

(* What is left to hear is in the order it was written, without a gap,     *)
(* and holds no byte that was heard before or that a flush has cancelled:  *)
(* no sound is repeated, and none from before a disconnect is played.      *)
MicInOrder ==
    \A i \in DOMAIN packets :
        /\ packets[i].lo < packets[i].hi
        /\ packets[i].lo >= heard /\ packets[i].lo >= flushed
        /\ packets[i].hi = IF i = Len(packets) THEN written ELSE packets[i + 1].lo

(* The microphone queue neither lags nor garbles: its count and its        *)
(* contents are right.                                                     *)
MicFaithful == MicBacklog /\ MicInOrder

(* Strengthening, for the proofs.  The queue is ordered as a whole, and    *)
(* the count is exact between the iterations of a loop as well.            *)
AudioInv ==
    /\ AudioTypeOK /\ MicInOrder
    /\ heard <= written /\ flushed <= written
    /\ \A i \in DOMAIN packets : packets[i].hi <= written
    /\ \A i, j \in DOMAIN packets : i < j => packets[i].hi <= packets[j].lo
    /\ lock = "write" => todo > 0
    /\ queued = (IF packets = <<>> THEN 0 ELSE written - packets[1].lo)
    /\ Len(packets) > 1 => queued <= QueueMax
=============================================================================
