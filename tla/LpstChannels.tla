---------------------------- MODULE LpstChannels ----------------------------
(***************************************************************************)
(* File channels of the LinchpinST virtual machine: OPEN, CLOSE, READ,     *)
(* WRITE, READREC, WRITEREC, FSIZE and UNLINK (lpst_run_io.c), over C      *)
(* streams whose writes stay in a buffer until fseek, fflush or fclose.    *)
(*                                                                         *)
(* A file name stands for the path it resolves to, and an aggregate in VM  *)
(* memory for the bytes a transfer moves.  The directory and the contents  *)
(* of files (dir, data) are the host's.                                    *)
(***************************************************************************)
EXTENDS Integers, Sequences, FiniteSets

CONSTANTS
  File,           \* files by name
  Names,          \* those the program opens and unlinks
  Obj, Image,     \* the OBJ file, open when the program starts, and its bytes
  Byte, Zero,
  MaxNode,        \* bound on the files that exist at one time, by name or open
  MaxChannels,    \* LPST_MAX_CHANNELS
  IdMod,          \* 2^16 in the code: next_channel_id is a uint16_t
  FalseId,        \* LPST_FALSE_SENTINEL
  Error,          \* 0xFFFF, the status of a failed READ or WRITE
  Block,          \* bytes FSIZE counts by, 256
  WordRecords,    \* values of slot 0xCC from here on are bytes, 128
  Negative,       \* and from here on negative, 2^15
  DefaultRecord,  \* record size for slot 0xCC <= 0, 256
  RecordSizes,    \* values the program stores in slot 0xCC
  MaxLength,      \* bound on the length of a file
  MaxWords,       \* bound on the word or record count of a transfer
  MaxOpens        \* OPEN is not modelled once next_channel_id passes this

ASSUME ChannelAssumption ==
  /\ MaxChannels \in Nat \ {0} /\ IdMod \in Nat /\ MaxChannels + 1 < IdMod
  /\ FalseId \in MaxChannels + 1 .. IdMod - 1 /\ Error \in 1 .. IdMod - 1
  /\ MaxOpens \in Nat /\ MaxNode \in Nat \ {0} /\ MaxLength \in Nat /\ MaxWords \in Nat

ASSUME FileAssumption == Obj \in File /\ Names \subseteq File /\ Zero \in Byte /\ Image \in Seq(Byte)

ASSUME RecordAssumption ==
  /\ Block \in Nat \ {0} /\ DefaultRecord \in Nat
  /\ WordRecords \in Nat /\ Negative \in Nat /\ WordRecords <= Negative
  /\ RecordSizes \subseteq Nat

VARIABLES
  dir,       \* name -> the file of that name, 0 if none
  data,      \* file -> its bytes on the disk
  channels,  \* the channel table
  next_channel_id, active_channel_id,
  slot_CC,   \* system variable 0xCC
  reply      \* history: the last file instruction, its channel and offset, the
             \* bytes it read or was given, and the word it pushed

vars == <<dir, data, channels, next_channel_id, active_channel_id, slot_CC, reply>>

Node == 1 .. MaxNode
Id == 0 .. IdMod - 1
NoBytes == <<>>

\* fp is the file behind the stream, 0 if NULL; the buffer holds bytes for
\* position `at` that have not reached the disk.
Closed == [in_use |-> FALSE, fp |-> 0, path |-> Obj, writable |-> FALSE,
           position |-> 0, size_bytes |-> 0, at |-> 0, buffer |-> NoBytes]

\* lpst_channel
Channel ==
  [in_use : BOOLEAN, fp : 0 .. MaxNode, path : File, writable : BOOLEAN,
   position : Nat, size_bytes : Nat, at : Nat, buffer : Seq(Byte)]

TypeOK ==
  /\ dir \in [File -> 0 .. MaxNode]
  /\ data \in [Node -> Seq(Byte)]
  /\ channels \in [1 .. MaxChannels -> Channel]
  /\ \A i \in 1 .. MaxChannels :
       /\ channels[i].buffer # NoBytes => channels[i].fp # 0
       /\ channels[i].fp # 0 => channels[i].in_use
  /\ next_channel_id \in Id /\ active_channel_id \in Id
  /\ slot_CC \in RecordSizes

\* Channel 1 is the OBJ file, even if it cannot be opened a second time.
Init ==
  /\ dir = [f \in File |-> IF f = Obj THEN 1 ELSE 0]
  /\ data = [n \in Node |-> IF n = 1 THEN Image ELSE NoBytes]
  /\ \E fp \in {0, 1} :
       channels = [i \in 1 .. MaxChannels |->
                     IF i = 1 THEN [Closed EXCEPT !.in_use = TRUE, !.fp = fp] ELSE Closed]
  /\ next_channel_id = 2 /\ active_channel_id = FalseId
  /\ slot_CC \in RecordSizes
  /\ reply = [op |-> "none", channel |-> FalseId, at |-> 0, bytes |-> NoBytes, value |-> 0]

-----------------------------------------------------------------------------
(* Bytes of a file.                                                         *)

Larger(a, b) == IF a > b THEN a ELSE b
Smaller(a, b) == IF a < b THEN a ELSE b

\* The file d after a write of bs at an offset: a gap reads as zeroes.
Overwrite(d, at, bs) ==
  IF bs = NoBytes THEN d
  ELSE [i \in 1 .. Larger(Len(d), at + Len(bs)) |->
          IF i \in at + 1 .. at + Len(bs) THEN bs[i - at]
          ELSE IF i <= Len(d) THEN d[i] ELSE Zero]

\* fread of n bytes at an offset.
Stored(d, at, n) == SubSeq(d, at + 1, Smaller(Len(d), at + n))

ZeroFilled(bs, n) == [i \in 1 .. n |-> IF i <= Len(bs) THEN bs[i] ELSE Zero]

\* A buffer that is never written out.
Unflushed(ch) == data

\* What fseek, fflush and fclose make of the disk.
Flushed(ch) ==
  IF ch.buffer = NoBytes THEN data
  ELSE [data EXCEPT ![ch.fp] = Overwrite(@, ch.at, ch.buffer)]

\* Files that have a name or are open.
InUse == {dir[f] : f \in File} \cup {channels[i].fp : i \in 1 .. MaxChannels}
Unused == Node \ InUse

-----------------------------------------------------------------------------
(* resolve_channel                                                          *)

\* find_channel
Found(id) == id \in 1 .. MaxChannels /\ channels[id].in_use

Named(c) == IF c = FalseId THEN active_channel_id ELSE c
Resolved(c) == Named(c) # FalseId /\ Found(Named(c))
Streaming(c) == Resolved(c) /\ channels[Named(c)].fp # 0
Activated(c) == active_channel_id' = IF Resolved(c) THEN Named(c) ELSE active_channel_id

ReplyAt(op, c, at, bs, v) ==
  reply' = [op |-> op, channel |-> c, at |-> at, bytes |-> bs, value |-> v]
Reply(op, c, bs, v) == ReplyAt(op, c, 0, bs, v)

\* OPEN, CLOSE and UNLINK move no bytes.
Answer(op, c, v) == Reply(op, c, NoBytes, v)
OpenOp(create) == IF create THEN "create" ELSE "open"

-----------------------------------------------------------------------------
(* OPEN and CLOSE.                                                          *)

\* alloc_channel
NextId(id) == (id + 1) % IdMod
FreshId == IF next_channel_id = FalseId THEN NextId(next_channel_id) ELSE next_channel_id
SlotFree == FreshId \in 1 .. MaxChannels /\ ~channels[FreshId].in_use

\* fopen with "w+b" empties the file or makes it, and with "rb" or "r+b"
\* needs one; the path search has found the file already.
CanOpen(f, create) == IF create THEN dir[f] # 0 \/ Unused # {} ELSE dir[f] # 0

OpenStream(f, create, writable) ==
  LET fp == IF dir[f] # 0 THEN dir[f] ELSE CHOOSE n \in Unused : TRUE IN
    /\ dir' = [dir EXCEPT ![f] = fp]
    /\ data' = IF create THEN [data EXCEPT ![fp] = NoBytes] ELSE data
    /\ channels' = [channels EXCEPT ![FreshId] =
         [Closed EXCEPT !.in_use = TRUE, !.fp = fp, !.path = f, !.writable = writable]]

\* Access family: 0 reads, 2 updates, 1 and 3 create.
Open(f, access) ==
  LET create == access \in {1, 3}
      writable == access # 0
  IN
    /\ CanOpen(f, create) /\ SlotFree
    /\ OpenStream(f, create, writable)
    /\ next_channel_id' = NextId(FreshId)
    /\ Answer(OpenOp(create), FalseId, FreshId)
    /\ UNCHANGED <<active_channel_id, slot_CC>>

\* No name, a path too long, or no file on the search path: no channel is
\* taken.
OpenRefused ==
  /\ Answer("open", FalseId, FalseId)
  /\ UNCHANGED <<dir, data, channels, next_channel_id, active_channel_id, slot_CC>>

\* fopen fails, and the id has been spent.
OpenFails(f, access) ==
  /\ access \in {0, 2} => dir[f] # 0
  /\ SlotFree
  /\ channels' = [channels EXCEPT ![FreshId] = Closed]
  /\ next_channel_id' = NextId(FreshId)
  /\ Answer("open", FalseId, FalseId)
  /\ UNCHANGED <<dir, data, active_channel_id, slot_CC>>

\* alloc_channel finds no slot.
OpenNoChannel(f, access) ==
  /\ access \in {0, 2} => dir[f] # 0
  /\ ~SlotFree
  /\ next_channel_id' = NextId(FreshId)
  /\ Answer("open", FalseId, FalseId)
  /\ UNCHANGED <<dir, data, channels, active_channel_id, slot_CC>>

\* close_channel without fp = NULL.
StreamKept(ch) == [ch EXCEPT !.in_use = FALSE]

\* close_channel, and what alloc_channel clears before the slot is used again.
Released(ch) == Closed

\* The closing of a channel by its id forgets it as the active one; by
\* FALSE, active_channel_id is left at an id that is not in use.
Close(c) ==
  /\ IF Resolved(c)
       THEN /\ active_channel_id' = IF c = FalseId THEN active_channel_id ELSE FalseId
            /\ data' = Flushed(channels[Named(c)])
            /\ channels' = [channels EXCEPT ![Named(c)] = Released(@)]
       ELSE UNCHANGED <<active_channel_id, data, channels>>
  /\ Answer("close", c, 0)
  /\ UNCHANGED <<dir, next_channel_id, slot_CC>>

-----------------------------------------------------------------------------
(* Transfers.  Each seeks first, which writes the buffer out.               *)

\* position += total_read
Moved(ch, n) == ch.position + n

Read(c, n) ==
  LET ch == channels[Named(c)]
      d == Flushed(ch)[ch.fp]
      bs == Stored(d, ch.position, 2 * n)
  IN
    /\ Activated(c)
    /\ IF Streaming(c)
         THEN /\ data' = Flushed(ch)
              /\ channels' = [channels EXCEPT
                   ![Named(c)].position = Moved(ch, Len(bs)),
                   ![Named(c)].at = 0, ![Named(c)].buffer = NoBytes]
              /\ Reply("read", c, ZeroFilled(bs, 2 * n), IF Len(bs) = 2 * n THEN 0 ELSE Error)
         ELSE /\ UNCHANGED <<data, channels>>
              /\ Reply("read", c, ZeroFilled(NoBytes, 2 * n), Error)
    /\ UNCHANGED <<dir, next_channel_id, slot_CC>>

\* WRITE leaves its bytes in the buffer or, when that fills, on the disk.
\* A stream opened to read takes none, and the status is 0 all the same.
Write(c, bs, kept) ==
  LET ch == channels[Named(c)]
      taken == IF ch.writable THEN bs ELSE NoBytes
      end == ch.position + Len(taken)
  IN
    /\ Activated(c)
    /\ Streaming(c) => end <= MaxLength
    /\ IF Streaming(c)
         THEN /\ data' = IF kept THEN Flushed(ch)
                         ELSE [Flushed(ch) EXCEPT ![ch.fp] = Overwrite(@, ch.position, taken)]
              /\ channels' = [channels EXCEPT ![Named(c)] =
                   [ch EXCEPT !.position = end,
                              !.size_bytes = Larger(@, end),
                              !.at = IF kept THEN ch.position ELSE 0,
                              !.buffer = IF kept THEN taken ELSE NoBytes]]
              /\ Reply("write", c, bs, 0)
         ELSE UNCHANGED <<data, channels>> /\ Answer("write", c, Error)
    /\ UNCHANGED <<dir, next_channel_id, slot_CC>>

\* get_record_size_bytes
RecordBytes(size) ==
  IF size = 0 \/ size >= Negative THEN DefaultRecord
  ELSE IF size < WordRecords THEN 2 * size ELSE size

RecordSize == RecordBytes(slot_CC)

\* Whole words of the destination are filled.
EvenUp(n) == 2 * ((n + 1) \div 2)

ReadRec(c, record, n) ==
  LET ch == channels[Named(c)]
      count == n * RecordSize
      at == record * RecordSize
      bs == Stored(Flushed(ch)[ch.fp], at, count)
  IN
    /\ Activated(c)
    /\ IF Streaming(c)
         THEN /\ data' = Flushed(ch)
              /\ channels' = [channels EXCEPT ![Named(c)].at = 0, ![Named(c)].buffer = NoBytes]
              /\ ReplyAt("readrec", c, at, ZeroFilled(bs, EvenUp(count)), Len(bs))
         ELSE /\ UNCHANGED <<data, channels>>
              /\ ReplyAt("readrec", c, at, ZeroFilled(NoBytes, EvenUp(count)), 0)
    /\ UNCHANGED <<dir, next_channel_id, slot_CC>>

\* Words are written whole, so the last byte of an odd count is not; the
\* word pushed is the count, whatever fwrite has written.
WriteRec(c, record, words) ==
  LET ch == channels[Named(c)]
      count == Len(words)
      at == record * RecordSize
      bs == IF ch.writable THEN SubSeq(words, 1, 2 * (count \div 2)) ELSE NoBytes
  IN
    /\ Activated(c)
    /\ Streaming(c) => at + count <= MaxLength
    /\ IF Streaming(c)
         THEN /\ data' = [Flushed(ch) EXCEPT ![ch.fp] = Overwrite(@, at, bs)]
              /\ channels' = [channels EXCEPT ![Named(c)] =
                   [ch EXCEPT !.size_bytes = Larger(@, at + count),
                              !.at = 0, !.buffer = NoBytes]]
              /\ ReplyAt("writerec", c, at, words, count)
         ELSE UNCHANGED <<data, channels>> /\ Answer("writerec", c, 0)
    /\ UNCHANGED <<dir, next_channel_id, slot_CC>>

\* query_channel_size_bytes: the size of the file that has the name now, as
\* the disk has it; the stream only if there is none; and, for an empty
\* file, the highest position the channel has tried to write.
FileSize(ch) ==
  LET size == IF dir[ch.path] # 0 THEN Len(data[dir[ch.path]])
              ELSE Len(Flushed(ch)[ch.fp])
  IN IF size > 0 THEN size ELSE ch.size_bytes

FSize(c) ==
  LET ch == channels[Named(c)] IN
    /\ Activated(c)
    /\ IF Streaming(c)
         THEN /\ IF dir[ch.path] # 0 THEN UNCHANGED <<data, channels>>
                 ELSE /\ data' = Flushed(ch)
                      /\ channels' = [channels EXCEPT
                           ![Named(c)].at = 0, ![Named(c)].buffer = NoBytes]
              /\ Answer("fsize", c, (FileSize(ch) + Block - 1) \div Block)
         ELSE UNCHANGED <<data, channels>> /\ Answer("fsize", c, 0)
    /\ UNCHANGED <<dir, next_channel_id, slot_CC>>

\* UNLINK pushes 0 whether or not remove succeeds, and closes nothing: an
\* open file lives on without its name.
Unlink(f, removed) ==
  /\ dir[f] # 0
  /\ dir' = IF removed THEN [dir EXCEPT ![f] = 0] ELSE dir
  /\ Answer("unlink", FalseId, 0)
  /\ UNCHANGED <<data, channels, next_channel_id, active_channel_id, slot_CC>>

UnlinkNotFound(f) ==
  /\ dir[f] = 0
  /\ Answer("unlink", FalseId, FalseId)
  /\ UNCHANGED <<dir, data, channels, next_channel_id, active_channel_id, slot_CC>>

SetRecordSize(size) ==
  /\ slot_CC' = size
  /\ UNCHANGED <<dir, data, channels, next_channel_id, active_channel_id, reply>>

-----------------------------------------------------------------------------
Program == 1 .. MaxChannels \cup {FalseId}   \* what the program names a channel with
Output(n) == [1 .. n -> Byte]

\* The program opens a file on two channels only to read it on both.
Exclusive(f, writable) ==
  \A i \in 1 .. MaxChannels :
    channels[i].in_use /\ channels[i].fp = dir[f] /\ dir[f] # 0
      => ~channels[i].writable /\ ~writable

OpenStep ==
  /\ next_channel_id < MaxOpens
  /\ \/ OpenRefused
     \/ \E f \in Names, access \in 0 .. 3 :
          \/ Exclusive(f, access # 0) /\ Open(f, access)
          \/ OpenFails(f, access) \/ OpenNoChannel(f, access)

ReadStep ==
  \E c \in Program, n \in 0 .. MaxWords :
    Read(c, n) \/ \E record \in 0 .. MaxWords : ReadRec(c, record, n)

WriteStep ==
  \E c \in Program, n \in 0 .. MaxWords :
    \/ \E bs \in Output(n), kept \in BOOLEAN : Write(c, bs, kept)
    \/ \E bs \in Output(n * RecordSize), record \in 0 .. MaxWords : WriteRec(c, record, bs)

OtherStep ==
  \/ \E c \in Program : Close(c) \/ FSize(c)
  \/ \E f \in Names : UnlinkNotFound(f)
  \/ \E size \in RecordSizes : SetRecordSize(size)

Next ==
  \/ OpenStep \/ ReadStep \/ WriteStep \/ OtherStep
  \/ \E f \in Names, removed \in BOOLEAN : Unlink(f, removed)

Spec == Init /\ [][Next]_vars
=============================================================================
