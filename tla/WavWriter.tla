------------------------------ MODULE WavWriter ------------------------------
(***************************************************************************)
(* audio::WavWriter: a float WAV file whose header is written with length  *)
(* 0 when it is opened and patched when it is closed.  The stream buffers, *)
(* so a write that will not reach the disk may fail much later, and once   *)
(* it has failed the stream refuses everything.                            *)
(***************************************************************************)
EXTENDS Naturals, FiniteSetsExt

CONSTANTS kFramePayloadBytes,
          HeaderBytes,          \* bytes write_header writes
          BufferBytes,          \* the most the stream keeps in memory
          Word,                 \* 2^32
          ClampMargin,          \* 16: the clamp is 0xfffffff0
          RiffBytes,            \* 36: the header without its first 8 bytes
          MaxRecorded             \* bound: frames counted

ASSUME SizesAssumption ==
    /\ kFramePayloadBytes \in Nat \ {0} /\ HeaderBytes \in Nat /\ MaxRecorded \in Nat
    /\ BufferBytes \in Nat /\ BufferBytes >= HeaderBytes
    /\ Word \in Nat /\ ClampMargin \in 1..Word /\ RiffBytes \in 0..Word

VARIABLES
    is_open, good,          \* output_: a file is open; no failure since
    disk, buffered,         \* bytes of the file, bytes still in memory
    header,                 \* the two lengths in the file's header
    data_bytes_, recorded_frames_

output_ == <<is_open, good>>
file == <<disk, buffered, header>>
counters == <<data_bytes_, recorded_frames_>>
writerVars == <<output_, file, counters>>

ClampedDataBytes(data_bytes) == Min({data_bytes, Word - ClampMargin})

(* Mutant of RiffSize: the format chunk is forgotten. *)
RiffOfData(data_bytes) == ClampedDataBytes(data_bytes)

(* 36U + clamped_data_bytes, in 32 bits. *)
RiffSize(data_bytes) == (RiffBytes + ClampedDataBytes(data_bytes)) % Word

Header(data_bytes) == [riff |-> RiffSize(data_bytes), data |-> ClampedDataBytes(data_bytes)]

WriterInit ==
    /\ is_open = FALSE /\ good = TRUE
    /\ disk = 0 /\ buffered = 0 /\ header = Header(0)
    /\ data_bytes_ = 0 /\ recorded_frames_ = 0

(* Mutant of Open: the counters of the last recording are kept. *)
OpenWithoutReset ==
    /\ ~is_open
    /\ is_open' = TRUE /\ good' = TRUE
    /\ disk' = 0 /\ buffered' = HeaderBytes /\ header' = Header(0)
    /\ UNCHANGED counters

(* The file is truncated, and starts with a header of length 0. *)
Open ==
    /\ ~is_open
    /\ is_open' = TRUE /\ good' = TRUE
    /\ disk' = 0 /\ buffered' = HeaderBytes /\ header' = Header(0)
    /\ data_bytes_' = 0 /\ recorded_frames_' = 0

OpenFails ==
    /\ ~is_open
    /\ good' = FALSE
    /\ UNCHANGED <<is_open, file, counters>>

Count ==
    /\ recorded_frames_ < MaxRecorded
    /\ data_bytes_' = data_bytes_ + kFramePayloadBytes
    /\ recorded_frames_' = recorded_frames_ + 1

(* Some of what waits is written out, and the rest fits the buffer. *)
WriteFrame ==
    /\ good /\ is_open
    /\ Count
    /\ LET all == disk + buffered + kFramePayloadBytes
       IN  \E kept \in 0..Min({BufferBytes, all - disk}) :
              disk' = all - kept /\ buffered' = kept
    /\ UNCHANGED <<output_, header>>

(* Mutant of WriteFrameFails: frames are counted when nothing is written. *)
WriteFrameAnyway ==
    /\ Count
    /\ good' = FALSE
    /\ disk' \in disk..(disk + buffered) /\ buffered' = 0
    /\ UNCHANGED <<is_open, header>>

(* The disk is full, or there is no file: what is counted is lost.  The     *)
(* next call returns at once.                                              *)
WriteFrameFails ==
    /\ good
    /\ Count
    /\ good' = FALSE
    /\ disk' \in disk..(disk + buffered) /\ buffered' = 0
    /\ UNCHANGED <<is_open, header>>

(* Mutant of CloseFile: the length is taken in frames. *)
CloseInFrames ==
    /\ good /\ is_open
    /\ is_open' = FALSE
    /\ disk' = disk + buffered /\ buffered' = 0
    /\ header' = Header(recorded_frames_)
    /\ UNCHANGED <<good, counters>>

(* seekp empties the buffer, the header is patched, the file closed. *)
CloseFile ==
    /\ good /\ is_open
    /\ is_open' = FALSE
    /\ disk' = disk + buffered /\ buffered' = 0
    /\ header' = Header(data_bytes_)
    /\ UNCHANGED <<good, counters>>

(* Any of the three fails, or no file was open: the header stays. *)
CloseFails ==
    /\ good
    /\ good' = FALSE /\ is_open' = FALSE
    /\ disk' \in disk..(disk + buffered) /\ buffered' = 0
    /\ UNCHANGED <<header, counters>>

(* After a failure close returns at once and the destructor of the stream   *)
(* closes the file, as it does when main returns without closing.          *)
DestroyWriter ==
    /\ is_open
    /\ is_open' = FALSE /\ good' = FALSE
    /\ disk' \in disk..(disk + buffered) /\ buffered' = 0
    /\ UNCHANGED <<header, counters>>

WriterNext == Open \/ OpenFails \/ WriteFrame \/ WriteFrameFails \/ CloseFile \/ CloseFails \/ DestroyWriter

WriterSpec == WriterInit /\ [][WriterNext]_writerVars
-----------------------------------------------------------------------------
(* Type invariant. *)
WriterTypeOK ==
    /\ is_open \in BOOLEAN /\ good \in BOOLEAN
    /\ disk \in Nat /\ buffered \in 0..BufferBytes
    /\ header \in [riff : 0..(Word - 1), data : 0..(Word - 1)]
    /\ data_bytes_ \in Nat /\ recorded_frames_ \in Nat

DataOnDisk == IF disk < HeaderBytes THEN 0 ELSE disk - HeaderBytes

(* Whichever write, seek or close fails, the header never promises samples  *)
(* that are not in the file: a reader is never sent past its end.          *)
HeaderNeverOverclaims == header.data <= DataOnDisk

(* A recording closed without a failure is complete, and its header says    *)
(* how long it is, up to the clamp; a recording that is not has length 0.  *)
PatchedOrEmpty ==
    \/ header = Header(0)
    \/ /\ ~is_open
       /\ DataOnDisk = data_bytes_ \/ ~good
       /\ header.data = ClampedDataBytes(DataOnDisk)

(* recorded_frames and data_bytes, which main prints, exceed what is in the *)
(* file by no more than the stream's buffer and the one frame that failed. *)
CountersNearFile ==
    /\ data_bytes_ = recorded_frames_ * kFramePayloadBytes
    /\ data_bytes_ - DataOnDisk \in 0..(BufferBytes + kFramePayloadBytes)

(* The two lengths of the header agree, unless the data come so near to 2^32 *)
(* bytes that the outer one wraps: the clamp leaves 16 bytes, it needs 36.  *)
LengthsAgree ==
    header.riff = RiffBytes + header.data \/ header.data >= Word - RiffBytes

(* What a failing disk may do to a recording, as one property: whatever     *)
(* fails, header, file and counters stay this close to one another.        *)
RecordingIsHonest ==
    WriterTypeOK /\ HeaderNeverOverclaims /\ PatchedOrEmpty /\ CountersNearFile /\ LengthsAgree
=============================================================================
