------------------------- MODULE LpstChannelsProofs -------------------------
(***************************************************************************)
(* The channel table keeps its types (FileTypes), and a program that keeps *)
(* the rules of LpstFileProgram reads back what it wrote (KeepsFiles).     *)
(*                                                                         *)
(* A transfer touches one channel and the file behind it; what the file    *)
(* shows, with the buffer of the channel, is what Files promises.  Links   *)
(* says that a file with bytes in a buffer is open on one channel, so this *)
(* is well defined, and Fresh that OPEN pushes no channel named before.    *)
(***************************************************************************)
EXTENDS LpstFileProgram, SequenceTheorems, TLAPS

-----------------------------------------------------------------------------
(* Bytes and channels.                                                      *)

\* A write leaves bytes in a file.
LEMMA Bytes ==
  ASSUME NEW d \in Seq(Byte), NEW at \in Nat, NEW bs \in Seq(Byte)
  PROVE  Overwrite(d, at, bs) \in Seq(Byte)
<1>1. CASE bs = NoBytes
  BY <1>1 DEF Overwrite
<1>2. CASE bs # NoBytes
  <2> DEFINE n == Larger(Len(d), at + Len(bs))
             w == [i \in 1 .. n |-> IF i \in at + 1 .. at + Len(bs) THEN bs[i - at]
                                    ELSE IF i <= Len(d) THEN d[i] ELSE Zero]
  <2>1. Len(d) \in Nat /\ Len(bs) \in Nat /\ n \in Nat
    BY LenProperties DEF Larger
  <2>2. \A i \in 1 .. Len(bs) : bs[i] \in Byte
    BY ElementOfSeq
  <2>3. \A i \in 1 .. Len(d) : d[i] \in Byte
    BY ElementOfSeq
  <2>4. ASSUME NEW i \in 1 .. n PROVE w[i] \in Byte
    <3>1. CASE i \in at + 1 .. at + Len(bs)
      <4>1. i - at \in 1 .. Len(bs)
        BY <2>1, <3>1
      <4> QED
        BY <2>2, <3>1, <4>1
    <3>2. CASE i \notin at + 1 .. at + Len(bs)
      BY <2>1, <2>3, <3>2, FileAssumption
    <3> QED
      BY <3>1, <3>2
  <2>5. w \in [1 .. n -> Byte]
    BY <2>4
  <2>6. Overwrite(d, at, bs) = w
    BY <1>2 DEF Overwrite
  <2> HIDE DEF n, w
  <2> QED
    BY <2>1, <2>5, <2>6
<1> QED
  BY <1>1, <1>2

\* The fields of a channel that is closed.
LEMMA ClosedChannel ==
  /\ Closed \in Channel
  /\ Closed.in_use = FALSE /\ Closed.fp = 0 /\ Closed.buffer = NoBytes
  /\ Closed.writable = FALSE
<1>1. NoBytes \in Seq(Byte)
  BY DEF NoBytes
<1> QED
  BY <1>1, FileAssumption, ChannelAssumption DEF Closed, Channel

\* What a transfer makes of its channel.
MovedTo(ch, p, z, a, b) == [ch EXCEPT !.position = p, !.size_bytes = z, !.at = a, !.buffer = b]

\* What a read, which writes the buffer out, makes of it.
Rewound(ch, p) == [ch EXCEPT !.position = p, !.at = 0, !.buffer = NoBytes]

\* A read keeps the file, the name and the access of its channel.
LEMMA RewoundChannel ==
  ASSUME NEW ch \in Channel, NEW p \in Nat
  PROVE  /\ Rewound(ch, p) \in Channel
         /\ Rewound(ch, p).fp = ch.fp
         /\ Rewound(ch, p).path = ch.path
         /\ Rewound(ch, p).writable = ch.writable
         /\ Rewound(ch, p).in_use = ch.in_use
         /\ Rewound(ch, p).position = p
         /\ Rewound(ch, p).buffer = NoBytes
<1>1. NoBytes \in Seq(Byte)
  BY DEF NoBytes
<1> QED
  BY <1>1 DEF Channel, Rewound

\* A transfer by record leaves the position.
LEMMA RewoundThere ==
  ASSUME NEW ch \in Channel
  PROVE  [ch EXCEPT !.at = 0, !.buffer = NoBytes] = Rewound(ch, ch.position)
BY DEF Channel, Rewound

\* What the file of a channel holds when its buffer is written out.
Effective(d, ch) == IF ch.buffer = NoBytes THEN d ELSE Overwrite(d, ch.at, ch.buffer)

\* Writing out the buffer of a channel changes its own file only.
LEMMA FlushedFile ==
  ASSUME TypeOK, NEW k \in 1 .. MaxChannels
  PROVE  /\ Flushed(channels[k]) \in [Node -> Seq(Byte)]
         /\ \A n \in Node : n # channels[k].fp => Flushed(channels[k])[n] = data[n]
         /\ channels[k].fp # 0 =>
              /\ channels[k].fp \in Node
              /\ Effective(data[channels[k].fp], channels[k]) \in Seq(Byte)
              /\ Flushed(channels[k])[channels[k].fp] = Effective(data[channels[k].fp], channels[k])
<1> DEFINE ch == channels[k]
<1>1. ch \in Channel /\ (ch.buffer # NoBytes => ch.fp # 0) /\ data \in [Node -> Seq(Byte)]
  BY DEF TypeOK
<1>2. ch.fp \in 0 .. MaxNode /\ ch.at \in Nat /\ ch.buffer \in Seq(Byte)
  BY <1>1 DEF Channel
<1> HIDE DEF ch
<1>3. ch.fp # 0 => ch.fp \in Node
  BY <1>2 DEF Node
<1>4. CASE ch.buffer = NoBytes
  BY <1>1, <1>3, <1>4 DEF Flushed, Effective, ch
<1>5. CASE ch.buffer # NoBytes
  <2> DEFINE e == Overwrite(data[ch.fp], ch.at, ch.buffer)
  <2>1. e \in Seq(Byte)
    BY <1>1, <1>2, <1>3, <1>5, Bytes
  <2>2. Flushed(ch) = [data EXCEPT ![ch.fp] = e] /\ Effective(data[ch.fp], ch) = e
    BY <1>5 DEF Flushed, Effective
  <2> HIDE DEF e
  <2> QED
    BY <1>1, <1>3, <1>5, <2>1, <2>2 DEF ch
<1> QED
  BY <1>4, <1>5

\* resolve_channel finds a channel of the table that is in use.
LEMMA Resolving ==
  ASSUME TypeOK, NEW c, Resolved(c)
  PROVE  /\ Named(c) \in 1 .. MaxChannels /\ channels[Named(c)].in_use
         /\ channels[Named(c)] \in Channel
         /\ Streaming(c) => channels[Named(c)].fp # 0
BY DEF Resolved, Found, Streaming, TypeOK

\* The channel a transfer makes active has an id.
LEMMA ActiveType ==
  ASSUME TypeOK, NEW c, Activated(c)
  PROVE  active_channel_id' \in Id
<1>1. active_channel_id \in Id
  BY DEF TypeOK
<1>2. Resolved(c) => Named(c) \in Id
  BY ChannelAssumption DEF Resolved, Found, Id
<1> QED
  BY <1>1, <1>2 DEF Activated

-----------------------------------------------------------------------------
(* Types.                                                                   *)

\* Only a channel opened to write has bytes in its buffer.
Buffered == \A i \in 1 .. MaxChannels : channels[i].buffer # NoBytes => channels[i].writable

Types == TypeOK /\ Buffered

\* A step that changes one channel and the file behind it, and opens and
\* closes nothing.
Touches(k, new) ==
  /\ k \in 1 .. MaxChannels /\ channels[k].fp # 0
  /\ channels' = [channels EXCEPT ![k] = new]
  /\ new \in Channel
  /\ new.fp = channels[k].fp /\ new.path = channels[k].path
  /\ new.writable = channels[k].writable /\ new.in_use = channels[k].in_use
  /\ new.buffer # NoBytes => new.writable
  /\ data' \in [Node -> Seq(Byte)]
  /\ \A n \in Node : n # channels[k].fp => data'[n] = data[n]
  /\ UNCHANGED <<dir, next_channel_id, slot_CC>>

\* A step that touches one channel keeps the types.
LEMMA TouchesKeeps ==
  ASSUME Types, NEW k, NEW new, Touches(k, new), active_channel_id' \in Id
  PROVE  Types'
<1>1. channels' \in [1 .. MaxChannels -> Channel]
  BY DEF Types, TypeOK, Touches
<1>2. \A i \in 1 .. MaxChannels : channels'[i] = IF i = k THEN new ELSE channels[i]
  BY DEF Types, TypeOK, Touches
<1>3. \A i \in 1 .. MaxChannels :
        /\ channels'[i].buffer # NoBytes => channels'[i].fp # 0
        /\ channels'[i].fp # 0 => channels'[i].in_use
        /\ channels'[i].buffer # NoBytes => channels'[i].writable
  BY <1>2 DEF Types, TypeOK, Buffered, Touches
<1>4. dir' = dir /\ data' \in [Node -> Seq(Byte)] /\ next_channel_id' = next_channel_id
      /\ slot_CC' = slot_CC
  BY DEF Touches
<1> QED
  BY <1>1, <1>3, <1>4 DEF Types, TypeOK, Buffered

\* A stream that is read: its buffer is written out first.
LEMMA ReadTouches ==
  ASSUME Types, NEW k \in 1 .. MaxChannels, channels[k].fp # 0, NEW p \in Nat,
         channels' = [channels EXCEPT ![k] = Rewound(channels[k], p)],
         data' = Flushed(channels[k]), UNCHANGED <<dir, next_channel_id, slot_CC>>
  PROVE  /\ Touches(k, Rewound(channels[k], p))
         /\ Rewound(channels[k], p).position = p
         /\ Effective(data'[channels[k].fp], Rewound(channels[k], p))
              = Effective(data[channels[k].fp], channels[k])
<1>1. channels[k] \in Channel
  BY DEF Types, TypeOK
<1>2. PICK ch \in Channel : ch = channels[k]
  BY <1>1
<1>3. PICK new : new = Rewound(ch, p)
  OBVIOUS
<1>4. /\ new \in Channel /\ new.fp = ch.fp /\ new.path = ch.path /\ new.writable = ch.writable
      /\ new.in_use = ch.in_use /\ new.position = p /\ new.buffer = NoBytes
  BY <1>3, RewoundChannel
<1>5. /\ data' \in [Node -> Seq(Byte)]
      /\ \A n \in Node : n # ch.fp => data'[n] = data[n]
      /\ data'[ch.fp] = Effective(data[ch.fp], ch)
  BY <1>2, FlushedFile DEF Types
<1>6. Touches(k, new)
  BY <1>2, <1>3, <1>4, <1>5 DEF Touches
<1> QED
  BY <1>2, <1>3, <1>4, <1>5, <1>6 DEF Effective

-----------------------------------------------------------------------------
(* What each transfer does to its channel and the file behind it.           *)

\* The bytes a read finds, the buffer of the channel written out.
Current(k) == Effective(data[channels[k].fp], channels[k])

\* The channel of a stream, its file and the bytes a read of it finds.
LEMMA StreamFacts ==
  ASSUME Types, NEW c, Streaming(c)
  PROVE  /\ Resolved(c) /\ Named(c) \in 1 .. MaxChannels
         /\ channels[Named(c)] \in Channel /\ channels[Named(c)].fp \in Node
         /\ channels[Named(c)].fp # 0
         /\ channels[Named(c)].position \in Nat /\ channels[Named(c)].size_bytes \in Nat
         /\ Current(Named(c)) \in Seq(Byte)
         /\ Flushed(channels[Named(c)])[channels[Named(c)].fp] = Current(Named(c))
         /\ Flushed(channels[Named(c)]) \in [Node -> Seq(Byte)]
         /\ \A n \in Node : n # channels[Named(c)].fp => Flushed(channels[Named(c)])[n] = data[n]
<1>1. Resolved(c) /\ channels[Named(c)].fp # 0 /\ Named(c) \in 1 .. MaxChannels
      /\ channels[Named(c)] \in Channel
  BY Resolving DEF Streaming, Types
<1>2. channels[Named(c)].position \in Nat /\ channels[Named(c)].size_bytes \in Nat
  BY <1>1 DEF Channel
<1> QED
  BY <1>1, <1>2, FlushedFile DEF Types, Current

\* fread returns no more than it was asked for, and what the file holds there.
LEMMA StoredBytes ==
  ASSUME NEW d \in Seq(Byte), NEW at \in Nat, NEW n \in Nat
  PROVE  /\ Len(Stored(d, at, n)) = Promise!Available(d, at, n)
         /\ Len(Stored(d, at, n)) \in Nat
         /\ ZeroFilled(Stored(d, at, n), n) = Promise!Padded(d, at, n)
<1>1. Len(d) \in Nat
  OBVIOUS
<1> DEFINE m == Smaller(Len(d), at + n)
           bs == Stored(d, at, n)
<1>2. m \in Nat /\ m <= Len(d)
  BY <1>1 DEF Smaller
<1>3. bs = SubSeq(d, at + 1, m)
  BY DEF Stored
<1>4. CASE at <= m
  <2>1. /\ Len(bs) = m - at
        /\ \A i \in 1 .. m - at : bs[i] = d[at + i]
    BY <1>1, <1>2, <1>3, <1>4
  <2>2. Len(bs) = Promise!Available(d, at, n)
    BY <1>1, <1>4, <2>1 DEF Promise!Available, Smaller
  <2>3. \A i \in 1 .. n : (IF i <= Len(bs) THEN bs[i] ELSE Zero)
                            = IF at + i <= Len(d) THEN d[at + i] ELSE Zero
    BY <1>1, <1>4, <2>1 DEF Smaller
  <2> HIDE DEF bs
  <2>4. ZeroFilled(bs, n) = Promise!Padded(d, at, n)
    BY <2>3 DEF ZeroFilled, Promise!Padded
  <2>5. Len(bs) \in Nat
    BY <1>2, <1>4, <2>1
  <2> QED
    BY <2>2, <2>4, <2>5 DEF bs
<1>5. CASE at > m
  <2>0. at > Len(d)
    BY <1>1, <1>5 DEF Smaller
  <2>1. bs = <<>>
    BY <1>1, <1>2, <1>3, <1>5
  <2>2. Len(bs) = 0 /\ Promise!Available(d, at, n) = 0
    BY <1>1, <2>0, <2>1 DEF Promise!Available
  <2>3. \A i \in 1 .. n : (IF i <= Len(bs) THEN bs[i] ELSE Zero)
                            = IF at + i <= Len(d) THEN d[at + i] ELSE Zero
    BY <1>1, <2>0, <2>2
  <2> HIDE DEF bs
  <2>4. ZeroFilled(bs, n) = Promise!Padded(d, at, n)
    BY <2>3 DEF ZeroFilled, Promise!Padded
  <2> QED
    BY <2>2, <2>4 DEF bs
<1> QED
  BY <1>1, <1>2, <1>4, <1>5

\* A write past the end fills with zeroes, in the code and in Files.
LEMMA WrittenBytes ==
  ASSUME NEW d \in Seq(Byte), NEW at \in Nat, NEW bs \in Seq(Byte)
  PROVE  Overwrite(d, at, bs) = Promise!Overlaid(d, at, bs)
<1>1. Len(d) \in Nat /\ Len(bs) \in Nat
  OBVIOUS
<1>2. Larger(Len(d), at + Len(bs)) = IF Len(d) > at + Len(bs) THEN Len(d) ELSE at + Len(bs)
  BY DEF Larger
<1>3. \A i \in Nat : i \in at + 1 .. at + Len(bs) <=> i > at /\ i <= at + Len(bs)
  BY <1>1
<1>4. Larger(Len(d), at + Len(bs)) \in Nat
  BY <1>1 DEF Larger
<1> QED
  BY <1>2, <1>3, <1>4 DEF Overwrite, Promise!Overlaid, NoBytes

\* READ moves the position by the bytes it finds; the file shows the same bytes.
LEMMA ReadDoes ==
  ASSUME Types, NEW c, Streaming(c), NEW n \in Nat, Read(c, n)
  PROVE  \E new :
           /\ Touches(Named(c), new)
           /\ new.position = channels[Named(c)].position
                             + Len(Stored(Current(Named(c)), channels[Named(c)].position, 2 * n))
           /\ Effective(data'[channels[Named(c)].fp], new) = Current(Named(c))
<1> DEFINE k == Named(c)
           p == channels[k].position + Len(Stored(Current(k), channels[k].position, 2 * n))
<1>1. k \in 1 .. MaxChannels /\ channels[k].fp # 0 /\ channels[k].position \in Nat
      /\ Current(k) \in Seq(Byte) /\ Flushed(channels[k])[channels[k].fp] = Current(k)
      /\ channels[k] \in Channel
  BY StreamFacts
<1>2. p \in Nat
  <2>1. Len(Stored(Current(k), channels[k].position, 2 * n)) \in Nat
    BY <1>1, StoredBytes
  <2> QED
    BY <1>1, <2>1
<1>3. /\ channels' = [channels EXCEPT ![k].position = p, ![k].at = 0, ![k].buffer = NoBytes]
      /\ data' = Flushed(channels[k]) /\ UNCHANGED <<dir, next_channel_id, slot_CC>>
  BY <1>1 DEF Read, Moved
<1> HIDE DEF p
<1>4. channels' = [channels EXCEPT ![k] = Rewound(channels[k], p)]
  BY <1>1, <1>3 DEF Rewound, Types, TypeOK, Channel
<1>5. /\ Touches(k, Rewound(channels[k], p))
      /\ Rewound(channels[k], p).position = p
      /\ Effective(data'[channels[k].fp], Rewound(channels[k], p)) = Current(k)
  BY <1>1, <1>2, <1>3, <1>4, ReadTouches DEF Current
<1> QED
  BY <1>5 DEF p

\* READREC leaves the position; the file shows the same bytes.
LEMMA ReadRecDoes ==
  ASSUME Types, NEW c, Streaming(c), NEW record, NEW n, ReadRec(c, record, n)
  PROVE  \E new :
           /\ Touches(Named(c), new)
           /\ new.position = channels[Named(c)].position
           /\ Effective(data'[channels[Named(c)].fp], new) = Current(Named(c))
<1> DEFINE k == Named(c)
           p == channels[k].position
<1>1. k \in 1 .. MaxChannels /\ channels[k].fp # 0 /\ p \in Nat /\ channels[k] \in Channel
  BY StreamFacts
<1>2. /\ channels' = [channels EXCEPT ![k].at = 0, ![k].buffer = NoBytes]
      /\ data' = Flushed(channels[k]) /\ UNCHANGED <<dir, next_channel_id, slot_CC>>
  BY DEF ReadRec
<1>3. channels' = [channels EXCEPT ![k] = Rewound(channels[k], p)]
  BY <1>1, <1>2 DEF Rewound, Types, TypeOK, Channel
<1> HIDE DEF p
<1>4. /\ Touches(k, Rewound(channels[k], p))
      /\ Rewound(channels[k], p).position = p
      /\ Effective(data'[channels[k].fp], Rewound(channels[k], p)) = Current(k)
  BY <1>1, <1>2, <1>3, ReadTouches DEF Current
<1> QED
  BY <1>4 DEF p

\* FSIZE leaves the position; the file shows the same bytes, written out or not.
LEMMA FSizeDoes ==
  ASSUME Types, NEW c, Streaming(c), FSize(c)
  PROVE  \E new :
           /\ Touches(Named(c), new)
           /\ new.position = channels[Named(c)].position
           /\ Effective(data'[channels[Named(c)].fp], new) = Current(Named(c))
<1> DEFINE k == Named(c)
           p == channels[k].position
<1>1. k \in 1 .. MaxChannels /\ channels[k].fp # 0 /\ p \in Nat /\ channels[k] \in Channel
  BY StreamFacts
<1>2. UNCHANGED <<dir, next_channel_id, slot_CC>>
  BY DEF FSize
<1>3. CASE UNCHANGED <<data, channels>>
  <2>1. channels' = [channels EXCEPT ![k] = channels[k]]
    BY <1>1, <1>3 DEF Types, TypeOK
  <2>2. data' \in [Node -> Seq(Byte)] /\ \A m \in Node : data'[m] = data[m]
    BY <1>3 DEF Types, TypeOK
  <2>3. Touches(k, channels[k])
    BY <1>1, <1>2, <2>1, <2>2 DEF Touches, Types, Buffered
  <2>4. Effective(data'[channels[k].fp], channels[k]) = Current(k)
    BY <1>3 DEF Current
  <2> QED
    BY <2>3, <2>4
<1>4. CASE /\ channels' = [channels EXCEPT ![k].at = 0, ![k].buffer = NoBytes]
           /\ data' = Flushed(channels[k])
  <2>1. channels' = [channels EXCEPT ![k] = Rewound(channels[k], p)]
    BY <1>1, <1>4 DEF Rewound, Types, TypeOK, Channel
  <2> HIDE DEF p
  <2>2. /\ Touches(k, Rewound(channels[k], p))
        /\ Rewound(channels[k], p).position = p
        /\ Effective(data'[channels[k].fp], Rewound(channels[k], p)) = Current(k)
    BY <1>1, <1>2, <1>4, <2>1, ReadTouches DEF Current
  <2> QED
    BY <2>2 DEF p
<1> QED
  BY <1>3, <1>4 DEF FSize

\* The bytes a stream takes: none if it was opened to read.
Accepted(k, bs) == IF channels[k].writable THEN bs ELSE NoBytes

\* A write to the file behind a channel, on the disk or in the buffer.
Writes(k, p, z, at, bs, kept) ==
  /\ channels' = [channels EXCEPT ![k] =
       MovedTo(channels[k], p, z, IF kept THEN at ELSE 0, IF kept THEN bs ELSE NoBytes)]
  /\ data' = IF kept THEN Flushed(channels[k])
             ELSE [Flushed(channels[k]) EXCEPT ![channels[k].fp] = Overwrite(@, at, bs)]
  /\ UNCHANGED <<dir, next_channel_id, slot_CC>>

\* Bytes written show in the file, from the buffer as from the disk.
LEMMA WriteTouches ==
  ASSUME Types, NEW k \in 1 .. MaxChannels, channels[k].fp # 0,
         NEW p \in Nat, NEW z \in Nat, NEW at \in Nat, NEW bs \in Seq(Byte), NEW kept \in BOOLEAN,
         bs # NoBytes => channels[k].writable, Writes(k, p, z, at, bs, kept)
  PROVE  \E new :
           /\ Touches(k, new) /\ new.position = p
           /\ Effective(data'[channels[k].fp], new) = Overwrite(Current(k), at, bs)
<1>1. PICK ch \in Channel : ch = channels[k]
  BY DEF Types, TypeOK
<1>2. PICK a \in Nat : a = IF kept THEN at ELSE 0
  OBVIOUS
<1>3. PICK b \in Seq(Byte) : b = IF kept THEN bs ELSE NoBytes
  <2>1. NoBytes \in Seq(Byte)
    BY DEF NoBytes
  <2> QED
    BY <2>1
<1>4. MovedTo(ch, p, z, a, b) \in Channel
  BY <1>1, <1>2, <1>3 DEF MovedTo, Channel
<1>5. PICK new :
        /\ new = MovedTo(ch, p, z, a, b)
        /\ new \in Channel /\ new.fp = ch.fp /\ new.path = ch.path /\ new.writable = ch.writable
        /\ new.in_use = ch.in_use /\ new.position = p /\ new.at = a /\ new.buffer = b
  <2>1. ch \in Channel
    BY <1>1
  <2> QED
    BY <1>4, <2>1 DEF MovedTo, Channel
<1>6. channels' = [channels EXCEPT ![k] = new]
  BY <1>1, <1>2, <1>3, <1>5 DEF Writes
<1>7. PICK fl \in [Node -> Seq(Byte)] : fl = Flushed(channels[k])
  BY FlushedFile DEF Types
<1>8. /\ \A n \in Node : n # ch.fp => fl[n] = data[n]
      /\ fl[ch.fp] = Current(k) /\ ch.fp \in Node /\ Current(k) \in Seq(Byte)
  BY <1>1, <1>7, FlushedFile DEF Types, Current
<1>9. Overwrite(Current(k), at, bs) \in Seq(Byte)
  BY <1>8, Bytes
<1>10. data' = IF kept THEN fl ELSE [fl EXCEPT ![ch.fp] = Overwrite(Current(k), at, bs)]
  BY <1>1, <1>7, <1>8 DEF Writes
<1>11. /\ data' \in [Node -> Seq(Byte)]
       /\ \A n \in Node : n # ch.fp => data'[n] = data[n]
       /\ data'[ch.fp] = IF kept THEN Current(k) ELSE Overwrite(Current(k), at, bs)
  BY <1>8, <1>9, <1>10
<1>12. Touches(k, new)
  BY <1>1, <1>3, <1>5, <1>6, <1>11 DEF Touches, Writes
<1>13. Effective(data'[ch.fp], new) = Overwrite(Current(k), at, bs)
  <2>1. CASE kept
    <3>1. new.at = at /\ new.buffer = bs /\ data'[ch.fp] = Current(k)
      BY <1>2, <1>3, <1>5, <1>11, <2>1
    <3>2. bs = NoBytes => Overwrite(Current(k), at, bs) = Current(k)
      BY DEF Overwrite
    <3>3. Effective(Current(k), new)
            = IF bs = NoBytes THEN Current(k) ELSE Overwrite(Current(k), at, bs)
      BY <3>1 DEF Effective
    <3> QED
      BY <3>1, <3>2, <3>3
  <2>2. CASE ~kept
    <3>1. new.buffer = NoBytes /\ data'[ch.fp] = Overwrite(Current(k), at, bs)
      BY <1>3, <1>5, <1>11, <2>2
    <3> QED
      BY <3>1 DEF Effective
  <2> QED
    BY <2>1, <2>2
<1> QED
  BY <1>1, <1>5, <1>12, <1>13

\* WRITE moves the position past the bytes it takes.
LEMMA WriteDoes ==
  ASSUME Types, NEW c, Streaming(c), NEW bs \in Seq(Byte), NEW kept \in BOOLEAN, Write(c, bs, kept)
  PROVE  \E new :
           /\ Touches(Named(c), new)
           /\ new.position = channels[Named(c)].position + Len(Accepted(Named(c), bs))
           /\ Effective(data'[channels[Named(c)].fp], new) =
                Overwrite(Current(Named(c)), channels[Named(c)].position, Accepted(Named(c), bs))
<1> DEFINE k == Named(c)
           at == channels[k].position
           taken == Accepted(k, bs)
           end == at + Len(taken)
           z == Larger(channels[k].size_bytes, end)
<1>1. k \in 1 .. MaxChannels /\ channels[k].fp # 0 /\ at \in Nat /\ channels[k] \in Channel
      /\ channels[k].size_bytes \in Nat
  BY StreamFacts
<1>2. taken \in Seq(Byte) /\ (taken # NoBytes => channels[k].writable)
  BY DEF Accepted, NoBytes
<1>3. end \in Nat /\ z \in Nat
  BY <1>1, <1>2 DEF Larger
<1>4. /\ data' = IF kept THEN Flushed(channels[k])
                 ELSE [Flushed(channels[k]) EXCEPT ![channels[k].fp] = Overwrite(@, at, taken)]
      /\ channels' = [channels EXCEPT ![k] =
           [channels[k] EXCEPT !.position = end, !.size_bytes = Larger(@, end),
                               !.at = IF kept THEN at ELSE 0,
                               !.buffer = IF kept THEN taken ELSE NoBytes]]
      /\ UNCHANGED <<dir, next_channel_id, slot_CC>>
  BY DEF Write, Accepted
<1>5. channels' = [channels EXCEPT ![k] =
         MovedTo(channels[k], end, z, IF kept THEN at ELSE 0, IF kept THEN taken ELSE NoBytes)]
  BY <1>1, <1>4 DEF MovedTo, Channel
<1> HIDE DEF at, taken, end, z
<1>a. Writes(k, end, z, at, taken, kept)
  BY <1>4, <1>5 DEF Writes
<1>6. \E new :
        /\ Touches(k, new) /\ new.position = end
        /\ Effective(data'[channels[k].fp], new) = Overwrite(Current(k), at, taken)
  BY <1>1, <1>2, <1>3, <1>a, WriteTouches
<1> QED
  BY <1>6 DEF at, taken, end

\* WRITEREC writes all the bytes of an even count and leaves the position.
LEMMA WriteRecDoes ==
  ASSUME Types, NEW c, Streaming(c), NEW record, NEW words \in Seq(Byte),
         record * RecordSize \in Nat, Len(words) % 2 = 0, WriteRec(c, record, words)
  PROVE  \E new :
           /\ Touches(Named(c), new)
           /\ new.position = channels[Named(c)].position
           /\ Effective(data'[channels[Named(c)].fp], new) =
                Overwrite(Current(Named(c)), record * RecordSize, Accepted(Named(c), words))
<1> DEFINE k == Named(c)
           at == record * RecordSize
           bs == Accepted(k, words)
           z == Larger(channels[k].size_bytes, at + Len(words))
<1>1. k \in 1 .. MaxChannels /\ channels[k].fp # 0 /\ at \in Nat /\ channels[k] \in Channel
      /\ channels[k].size_bytes \in Nat /\ channels[k].position \in Nat
  BY StreamFacts
<1>2. bs \in Seq(Byte) /\ (bs # NoBytes => channels[k].writable)
  BY DEF Accepted, NoBytes
<1>3. z \in Nat
  BY <1>1 DEF Larger
<1>4. SubSeq(words, 1, 2 * (Len(words) \div 2)) = words
  <2>1. 2 * (Len(words) \div 2) = Len(words)
    OBVIOUS
  <2> QED
    BY <2>1
<1>5. /\ data' = [Flushed(channels[k]) EXCEPT ![channels[k].fp] = Overwrite(@, at, bs)]
      /\ channels' = [channels EXCEPT ![k] =
           [channels[k] EXCEPT !.size_bytes = Larger(@, at + Len(words)),
                               !.at = 0, !.buffer = NoBytes]]
      /\ UNCHANGED <<dir, next_channel_id, slot_CC>>
  BY <1>4 DEF WriteRec, Accepted
<1>6. channels' = [channels EXCEPT ![k] =
         MovedTo(channels[k], channels[k].position, z, IF FALSE THEN at ELSE 0,
                 IF FALSE THEN bs ELSE NoBytes)]
  BY <1>1, <1>5 DEF MovedTo, Channel
<1> HIDE DEF at, bs, z
<1>a. Writes(k, channels[k].position, z, at, bs, FALSE)
  BY <1>5, <1>6 DEF Writes
<1>b. FALSE \in BOOLEAN
  OBVIOUS
<1>7. \E new :
        /\ Touches(k, new) /\ new.position = channels[k].position
        /\ Effective(data'[channels[k].fp], new) = Overwrite(Current(k), at, bs)
  <2>1. PICK kept \in BOOLEAN : ~kept
    BY <1>b
  <2>2. Writes(k, channels[k].position, z, at, bs, kept)
    BY <1>a, <2>1
  <2> QED
    BY <1>1, <1>2, <1>3, <2>1, <2>2, WriteTouches
<1> QED
  BY <1>7 DEF at, bs

-----------------------------------------------------------------------------
(* Types of every step.                                                     *)

\* The ids OPEN spends are words.
LEMMA IdType ==
  ASSUME TypeOK
  PROVE  FreshId \in Id /\ NextId(FreshId) \in Id
<1>1. IdMod \in Nat \ {0} /\ next_channel_id \in Nat /\ next_channel_id \in Id
  BY ChannelAssumption DEF TypeOK, Id
<1>2. \A n \in Nat : NextId(n) \in Id
  BY <1>1 DEF NextId, Id
<1>3. FreshId \in Id
  BY <1>1, <1>2 DEF FreshId
<1> QED
  BY <1>1, <1>2, <1>3 DEF Id

\* What the program gives an instruction.
LEMMA Inputs ==
  ASSUME TypeOK
  PROVE  /\ \A n \in 0 .. MaxWords : n \in Nat /\ Output(n) \subseteq Seq(Byte)
         /\ RecordSize \in Nat
         /\ \A n \in 0 .. MaxWords : n * RecordSize \in Nat
         /\ \A n \in 0 .. MaxWords : \A bs \in Output(n * RecordSize) :
              bs \in Seq(Byte) /\ Len(bs) = n * RecordSize
<1>1. \A n \in Nat : Output(n) \subseteq Seq(Byte)
  BY DEF Output
<1>2. \A n \in Nat : \A bs \in Output(n) : Len(bs) = n
  BY DEF Output
<1>3. RecordSize \in Nat
  BY RecordAssumption DEF TypeOK, RecordSize, RecordBytes
<1>4. \A n \in 0 .. MaxWords : n \in Nat
  BY ChannelAssumption
<1>5. \A n \in 0 .. MaxWords : n * RecordSize \in Nat
  BY <1>3, <1>4
<1> QED
  BY <1>1, <1>2, <1>3, <1>4, <1>5

\* A step that leaves the channel table and the disk alone.
LEMMA QuietKeeps ==
  ASSUME Types, UNCHANGED <<data, channels, next_channel_id, slot_CC>>,
         dir' \in [File -> 0 .. MaxNode], active_channel_id' \in Id
  PROVE  Types'
BY DEF Types, TypeOK, Buffered

\* A step that puts a channel without a buffer in the table.
LEMMA SlotKeeps ==
  ASSUME Types, NEW k, NEW new \in Channel, channels' = [channels EXCEPT ![k] = new],
         new.buffer = NoBytes, new.fp # 0 => new.in_use,
         dir' \in [File -> 0 .. MaxNode], data' \in [Node -> Seq(Byte)],
         next_channel_id' \in Id, active_channel_id' \in Id, slot_CC' = slot_CC
  PROVE  Types'
<1>1. channels' \in [1 .. MaxChannels -> Channel]
  BY DEF Types, TypeOK
<1>2. \A i \in 1 .. MaxChannels : channels'[i] = new \/ channels'[i] = channels[i]
  BY DEF Types, TypeOK
<1>3. \A i \in 1 .. MaxChannels :
        /\ channels'[i].buffer # NoBytes => channels'[i].fp # 0
        /\ channels'[i].fp # 0 => channels'[i].in_use
        /\ channels'[i].buffer # NoBytes => channels'[i].writable
  BY <1>2 DEF Types, TypeOK, Buffered
<1> QED
  BY <1>1, <1>3 DEF Types, TypeOK, Buffered

\* The node a file opens on, and the channel it opens.
Target(f) == IF dir[f] # 0 THEN dir[f] ELSE CHOOSE n \in Unused : TRUE
NewChannel(f, fp, writable) ==
  [Closed EXCEPT !.in_use = TRUE, !.fp = fp, !.path = f, !.writable = writable]

\* The fields of a channel that OPEN pushes.
LEMMA OpenedChannel ==
  ASSUME NEW f \in File, NEW fp \in Node, NEW writable \in BOOLEAN
  PROVE  /\ NewChannel(f, fp, writable) \in Channel
         /\ NewChannel(f, fp, writable).in_use = TRUE
         /\ NewChannel(f, fp, writable).fp = fp
         /\ NewChannel(f, fp, writable).path = f
         /\ NewChannel(f, fp, writable).writable = writable
         /\ NewChannel(f, fp, writable).position = 0
         /\ NewChannel(f, fp, writable).buffer = NoBytes
<1>1. NoBytes \in Seq(Byte) /\ fp \in 0 .. MaxNode
  BY DEF NoBytes, Node
<1> QED
  BY <1>1, ClosedChannel DEF NewChannel, Closed, Channel

\* OPEN finds the file of the name, or a new one that nothing uses.
LEMMA TargetNode ==
  ASSUME TypeOK, NEW f \in File, NEW create, CanOpen(f, create)
  PROVE  /\ Target(f) \in Node
         /\ dir[f] # 0 => Target(f) = dir[f]
         /\ dir[f] = 0 => Target(f) \in Unused
<1>1. dir[f] \in 0 .. MaxNode
  BY DEF TypeOK
<1>2. CASE dir[f] # 0
  BY <1>1, <1>2 DEF Target, Node
<1>3. CASE dir[f] = 0
  <2>1. Unused # {}
    BY <1>3 DEF CanOpen
  <2>2. Target(f) \in Unused
    BY <1>3, <2>1 DEF Target
  <2> QED
    BY <1>3, <2>2 DEF Unused
<1> QED
  BY <1>2, <1>3

\* What an OPEN that succeeds assigns.
LEMMA OpenDoes ==
  ASSUME TypeOK, NEW f \in File, NEW access, Open(f, access)
  PROVE  /\ Target(f) \in Node /\ FreshId \in 1 .. MaxChannels /\ ~channels[FreshId].in_use
         /\ dir' = [dir EXCEPT ![f] = Target(f)]
         /\ data' = IF access \in {1, 3} THEN [data EXCEPT ![Target(f)] = NoBytes] ELSE data
         /\ channels' = [channels EXCEPT ![FreshId] = NewChannel(f, Target(f), access # 0)]
         /\ next_channel_id' = NextId(FreshId)
         /\ reply' = [op |-> OpenOp(access \in {1, 3}), channel |-> FalseId, at |-> 0,
                      bytes |-> NoBytes, value |-> FreshId]
         /\ UNCHANGED <<active_channel_id, slot_CC>>
<1>1. Target(f) \in Node
  BY TargetNode DEF Open
<1> QED
  BY <1>1 DEF Open, OpenStream, SlotFree, Target, NewChannel, Answer, Reply, ReplyAt

\* OPEN keeps the types.
LEMMA OpenKeepsTypes ==
  ASSUME Types, NEW f \in Names, NEW access, Open(f, access)
  PROVE  Types'
<1>0. f \in File /\ (access # 0) \in BOOLEAN
  BY FileAssumption
<1>1. /\ Target(f) \in Node
      /\ dir' = [dir EXCEPT ![f] = Target(f)]
      /\ data' = IF access \in {1, 3} THEN [data EXCEPT ![Target(f)] = NoBytes] ELSE data
      /\ channels' = [channels EXCEPT ![FreshId] = NewChannel(f, Target(f), access # 0)]
      /\ next_channel_id' = NextId(FreshId)
      /\ UNCHANGED <<active_channel_id, slot_CC>>
  BY <1>0, OpenDoes DEF Types
<1>2. PICK new : new = NewChannel(f, Target(f), access # 0)
  OBVIOUS
<1>3. new \in Channel /\ new.buffer = NoBytes /\ new.in_use
  BY <1>0, <1>1, <1>2, OpenedChannel
<1>4. dir' \in [File -> 0 .. MaxNode]
  <2>1. Target(f) \in 0 .. MaxNode /\ dir \in [File -> 0 .. MaxNode]
    BY <1>1 DEF Types, TypeOK, Node
  <2> QED
    BY <1>1, <2>1
<1>5. data' \in [Node -> Seq(Byte)]
  <2>1. NoBytes \in Seq(Byte)
    BY DEF NoBytes
  <2> QED
    BY <1>1, <2>1 DEF Types, TypeOK
<1>6. next_channel_id' \in Id /\ active_channel_id' \in Id
  BY <1>1, IdType DEF Types, TypeOK
<1>7. channels' = [channels EXCEPT ![FreshId] = new] /\ slot_CC' = slot_CC
  BY <1>1, <1>2
<1> QED
  BY <1>3, <1>4, <1>5, <1>6, <1>7, SlotKeeps

\* CLOSE writes the buffer out and frees the slot.
LEMMA CloseDoes ==
  ASSUME Types, NEW c, Close(c), Resolved(c)
  PROVE  /\ Named(c) \in 1 .. MaxChannels
         /\ data' = Flushed(channels[Named(c)]) /\ data' \in [Node -> Seq(Byte)]
         /\ channels' = [channels EXCEPT ![Named(c)] = Closed]
         /\ active_channel_id' = IF c = FalseId THEN active_channel_id ELSE FalseId
         /\ UNCHANGED <<dir, next_channel_id, slot_CC>>
<1>1. Named(c) \in 1 .. MaxChannels
  BY Resolving DEF Types
<1>2. Flushed(channels[Named(c)]) \in [Node -> Seq(Byte)]
  BY <1>1, FlushedFile DEF Types
<1> QED
  BY <1>1, <1>2 DEF Close, Released

\* CLOSE keeps the types.
LEMMA CloseKeepsTypes ==
  ASSUME Types, NEW c \in Program, Close(c)
  PROVE  Types'
<1>1. FalseId \in Id /\ active_channel_id \in Id
  BY ChannelAssumption DEF Types, TypeOK, Id
<1>2. CASE Resolved(c)
  <2>1. /\ channels' = [channels EXCEPT ![Named(c)] = Closed]
        /\ data' \in [Node -> Seq(Byte)] /\ UNCHANGED <<dir, next_channel_id, slot_CC>>
        /\ active_channel_id' \in Id
    BY <1>1, <1>2, CloseDoes
  <2>2. dir' \in [File -> 0 .. MaxNode] /\ next_channel_id' \in Id
    BY <2>1 DEF Types, TypeOK
  <2> QED
    BY <2>1, <2>2, ClosedChannel, SlotKeeps
<1>3. CASE ~Resolved(c)
  <2>1. UNCHANGED <<active_channel_id, data, channels, dir, next_channel_id, slot_CC>>
    BY <1>3 DEF Close
  <2> QED
    BY <1>1, <2>1, QuietKeeps DEF Types, TypeOK
<1> QED
  BY <1>2, <1>3

\* A transfer on a channel that streams changes that channel and its file;
\* on another it changes nothing.
Transfers(c) ==
  \/ \E n \in 0 .. MaxWords :
       \/ Read(c, n)
       \/ \E record \in 0 .. MaxWords : ReadRec(c, record, n)
       \/ \E bs \in Output(n), kept \in BOOLEAN : Write(c, bs, kept)
       \/ \E bs \in Output(n * RecordSize), record \in 0 .. MaxWords : WriteRec(c, record, bs)
  \/ FSize(c)

\* WRITEREC touches one channel, for a record of any size.
LEMMA WriteRecKeepsTypes ==
  ASSUME Types, NEW c, Streaming(c), NEW record \in 0 .. MaxWords, NEW n \in 0 .. MaxWords,
         NEW words \in Output(n * RecordSize), WriteRec(c, record, words)
  PROVE  \E new : Touches(Named(c), new)
<1> DEFINE k == Named(c)
           at == record * RecordSize
           bs == IF channels[k].writable THEN SubSeq(words, 1, 2 * (Len(words) \div 2)) ELSE NoBytes
           z == Larger(channels[k].size_bytes, at + Len(words))
<1>1. k \in 1 .. MaxChannels /\ channels[k].fp # 0 /\ channels[k] \in Channel
      /\ channels[k].size_bytes \in Nat /\ channels[k].position \in Nat
  BY StreamFacts
<1>2. at \in Nat /\ words \in Seq(Byte) /\ Len(words) \in Nat
  BY Inputs DEF Types
<1>3. bs \in Seq(Byte) /\ (bs # NoBytes => channels[k].writable)
  <2>1. SubSeq(words, 1, 2 * (Len(words) \div 2)) \in Seq(Byte) /\ NoBytes \in Seq(Byte)
    BY <1>2 DEF NoBytes
  <2> QED
    BY <2>1
<1>4. z \in Nat
  BY <1>1, <1>2 DEF Larger
<1>5. /\ data' = [Flushed(channels[k]) EXCEPT ![channels[k].fp] = Overwrite(@, at, bs)]
      /\ channels' = [channels EXCEPT ![k] =
           [channels[k] EXCEPT !.size_bytes = Larger(@, at + Len(words)),
                               !.at = 0, !.buffer = NoBytes]]
      /\ UNCHANGED <<dir, next_channel_id, slot_CC>>
  BY DEF WriteRec
<1>6. channels' = [channels EXCEPT ![k] =
         MovedTo(channels[k], channels[k].position, z, IF FALSE THEN at ELSE 0,
                 IF FALSE THEN bs ELSE NoBytes)]
  BY <1>1, <1>5 DEF MovedTo, Channel
<1> HIDE DEF at, bs, z
<1>7. Writes(k, channels[k].position, z, at, bs, FALSE)
  BY <1>5, <1>6 DEF Writes
<1>8. PICK kept \in BOOLEAN : Writes(k, channels[k].position, z, at, bs, kept)
  BY <1>7
<1> QED
  BY <1>1, <1>2, <1>3, <1>4, <1>8, WriteTouches

\* A transfer on a stream touches its channel only.
LEMMA TransferTouches ==
  ASSUME Types, NEW c, Streaming(c), Transfers(c)
  PROVE  \E new : Touches(Named(c), new)
<1>1. ASSUME NEW n \in 0 .. MaxWords, Read(c, n)
      PROVE  \E new : Touches(Named(c), new)
  BY <1>1, ReadDoes, Inputs DEF Types
<1>2. ASSUME NEW n \in 0 .. MaxWords, NEW record \in 0 .. MaxWords, ReadRec(c, record, n)
      PROVE  \E new : Touches(Named(c), new)
  BY <1>2, ReadRecDoes
<1>3. ASSUME NEW n \in 0 .. MaxWords, NEW bs \in Output(n), NEW kept \in BOOLEAN,
             Write(c, bs, kept)
      PROVE  \E new : Touches(Named(c), new)
  <2>1. bs \in Seq(Byte)
    BY Inputs DEF Types
  <2> QED
    BY <1>3, <2>1, WriteDoes
<1>4. ASSUME NEW n \in 0 .. MaxWords, NEW bs \in Output(n * RecordSize),
             NEW record \in 0 .. MaxWords, WriteRec(c, record, bs)
      PROVE  \E new : Touches(Named(c), new)
  BY <1>4, WriteRecKeepsTypes
<1>5. CASE FSize(c)
  BY <1>5, FSizeDoes
<1> QED
  BY <1>1, <1>2, <1>3, <1>4, <1>5 DEF Transfers

\* A transfer that finds no stream leaves files and channels alone.
LEMMA TransferIdle ==
  ASSUME NEW c, ~Streaming(c), Transfers(c)
  PROVE  UNCHANGED <<dir, data, channels, next_channel_id, slot_CC>>
BY DEF Transfers, Read, ReadRec, Write, WriteRec, FSize

\* Every transfer makes the channel it resolves active.
LEMMA TransferActivates ==
  ASSUME NEW c, Transfers(c)
  PROVE  Activated(c)
BY DEF Transfers, Read, ReadRec, Write, WriteRec, FSize

\* A transfer keeps the types.
LEMMA TransferKeepsTypes ==
  ASSUME Types, NEW c, Transfers(c)
  PROVE  Types'
<1>1. active_channel_id' \in Id
  BY TransferActivates, ActiveType DEF Types
<1>2. CASE Streaming(c)
  BY <1>1, <1>2, TransferTouches, TouchesKeeps
<1>3. CASE ~Streaming(c)
  <2>1. UNCHANGED <<dir, data, channels, next_channel_id, slot_CC>>
    BY <1>3, TransferIdle
  <2> QED
    BY <1>1, <2>1, QuietKeeps DEF Types, TypeOK
<1> QED
  BY <1>2, <1>3

\* An OPEN that fails.
Refusal ==
  /\ next_channel_id < MaxOpens
  /\ \/ OpenRefused
     \/ \E f \in Names, access \in 0 .. 3 : OpenFails(f, access) \/ OpenNoChannel(f, access)

\* An OPEN that fails keeps the types.
LEMMA RefusalKeepsTypes ==
  ASSUME Types, Refusal
  PROVE  Types'
<1>1. UNCHANGED <<dir, data, active_channel_id, slot_CC>>
  BY DEF Refusal, OpenRefused, OpenFails, OpenNoChannel
<1>2. next_channel_id' \in Id
  BY IdType DEF Refusal, OpenRefused, OpenFails, OpenNoChannel, Types, TypeOK
<1>3. channels' = channels \/ channels' = [channels EXCEPT ![FreshId] = Closed]
  BY DEF Refusal, OpenRefused, OpenFails, OpenNoChannel
<1>4. CASE channels' = channels
  BY <1>1, <1>2, <1>4 DEF Types, TypeOK, Buffered
<1>5. CASE channels' = [channels EXCEPT ![FreshId] = Closed]
  BY <1>1, <1>2, <1>5, ClosedChannel, SlotKeeps DEF Types, TypeOK
<1> QED
  BY <1>3, <1>4, <1>5

\* The instructions, by what they may change.
LEMMA Instructions ==
  ASSUME Next
  PROVE  \/ Refusal
         \/ \E f \in Names, access \in 0 .. 3 :
              /\ Exclusive(f, access # 0) /\ Open(f, access)
              /\ next_channel_id < MaxOpens
         \/ \E c \in Program : Transfers(c) \/ Close(c)
         \/ \E f \in Names : UnlinkNotFound(f) \/ \E removed \in BOOLEAN : Unlink(f, removed)
         \/ \E size \in RecordSizes : SetRecordSize(size)
BY DEF Next, OpenStep, ReadStep, WriteStep, OtherStep, Refusal, Transfers

\* Every step keeps the types.
LEMMA StepKeepsTypes ==
  Types /\ [Next]_vars => Types'
<1> SUFFICES ASSUME Types, [Next]_vars PROVE Types'
  OBVIOUS
<1>1. ASSUME NEW f \in Names, NEW access, Open(f, access) PROVE Types'
  BY <1>1, OpenKeepsTypes
<1>2. ASSUME NEW c \in Program, Transfers(c) \/ Close(c) PROVE Types'
  BY <1>2, TransferKeepsTypes, CloseKeepsTypes
<1>3. ASSUME NEW f \in Names, UnlinkNotFound(f) \/ \E removed \in BOOLEAN : Unlink(f, removed)
      PROVE  Types'
  <2>1. /\ UNCHANGED <<data, channels, next_channel_id, active_channel_id, slot_CC>>
        /\ dir' = dir \/ dir' = [dir EXCEPT ![f] = 0]
    BY <1>3 DEF UnlinkNotFound, Unlink
  <2>2. 0 \in 0 .. MaxNode
    BY ChannelAssumption
  <2>3. dir' \in [File -> 0 .. MaxNode]
    BY <2>1, <2>2 DEF Types, TypeOK
  <2> QED
    BY <2>1, <2>3, QuietKeeps DEF Types, TypeOK
<1>4. ASSUME NEW size \in RecordSizes, SetRecordSize(size) PROVE Types'
  BY <1>4 DEF SetRecordSize, Types, TypeOK, Buffered
<1>5. CASE UNCHANGED vars
  BY <1>5 DEF vars, Types, TypeOK, Buffered
<1> QED
  BY <1>1, <1>2, <1>3, <1>4, <1>5, RefusalKeepsTypes, Instructions

\* The machine starts with the types.
LEMMA InitTypes ==
  Init => Types
<1> SUFFICES ASSUME Init PROVE Types
  OBVIOUS
<1>1. PICK fp \in {0, 1} :
        channels = [i \in 1 .. MaxChannels |->
                      IF i = 1 THEN [Closed EXCEPT !.in_use = TRUE, !.fp = fp] ELSE Closed]
  BY DEF Init
<1> DEFINE first == [Closed EXCEPT !.in_use = TRUE, !.fp = fp]
<1>2. first \in Channel /\ first.in_use /\ first.buffer = NoBytes
  <2>1. fp \in 0 .. MaxNode /\ NoBytes \in Seq(Byte)
    BY ChannelAssumption DEF NoBytes
  <2> QED
    BY <2>1, ClosedChannel, FileAssumption DEF Closed, Channel
<1> HIDE DEF first
<1>3. \A i \in 1 .. MaxChannels : channels[i] = IF i = 1 THEN first ELSE Closed
  BY <1>1 DEF first
<1>4. channels \in [1 .. MaxChannels -> Channel]
  <2>1. channels = [i \in 1 .. MaxChannels |-> IF i = 1 THEN first ELSE Closed]
    BY <1>1 DEF first
  <2> QED
    BY <1>2, <2>1, ClosedChannel
<1>5. dir \in [File -> 0 .. MaxNode]
  BY ChannelAssumption DEF Init
<1>6. data \in [Node -> Seq(Byte)]
  <2>1. NoBytes \in Seq(Byte)
    BY DEF NoBytes
  <2> QED
    BY <2>1, FileAssumption DEF Init
<1>7. next_channel_id \in Id /\ active_channel_id \in Id /\ slot_CC \in RecordSizes
  BY ChannelAssumption DEF Init, Id
<1> QED
  BY <1>2, <1>3, <1>4, <1>5, <1>6, <1>7, ClosedChannel DEF Types, TypeOK, Buffered

\* The types, and that only a channel opened to write buffers bytes, are invariant.
LEMMA TypesInvariant == Spec => []Types
<1> QED
  BY InitTypes, StepKeepsTypes, PTL DEF Spec

\* The channel table, the directory and the files keep their types: no stream
\* has bytes to write without a file, and none is open in a slot that is free.
THEOREM FileTypes == Spec => []TypeOK
<1>1. Types => TypeOK
  BY DEF Types
<1> QED
  BY <1>1, TypesInvariant, PTL

-----------------------------------------------------------------------------
(* Programs that keep the rules.                                            *)

\* A file that is open keeps its name, two names are two files, and one that a
\* channel writes is open on no other.
Links ==
  /\ \A f, g \in File : dir[f] # 0 /\ dir[f] = dir[g] => f = g
  /\ \A i \in 1 .. MaxChannels :
       channels[i].fp # 0 => dir[channels[i].path] = channels[i].fp
  /\ \A i, j \in 1 .. MaxChannels :
       i # j /\ channels[i].fp # 0 /\ channels[i].fp = channels[j].fp
         => ~channels[i].writable /\ ~channels[j].writable
  /\ Even(slot_CC)

FileInv == Types /\ Links

\* A step of the table that keeps every channel on its file, or closes it.
LEMMA FewerLinks ==
  ASSUME FileInv, dir' = dir, Even(slot_CC'),
         \A i \in 1 .. MaxChannels :
           \/ channels'[i].fp = 0
           \/ /\ channels'[i].fp = channels[i].fp /\ channels'[i].path = channels[i].path
              /\ channels'[i].writable = channels[i].writable
  PROVE  Links'
<1>1. \A i \in 1 .. MaxChannels :
        channels'[i].fp # 0 => dir'[channels'[i].path] = channels'[i].fp
  BY DEF FileInv, Links
<1>2. \A i, j \in 1 .. MaxChannels :
        i # j /\ channels'[i].fp # 0 /\ channels'[i].fp = channels'[j].fp
          => ~channels'[i].writable /\ ~channels'[j].writable
  BY DEF FileInv, Links
<1>3. \A f, g \in File : dir'[f] # 0 /\ dir'[f] = dir'[g] => f = g
  BY DEF FileInv, Links
<1>4. Even(slot_CC)'
  BY DEF Even, RecordBytes
<1> QED
  BY <1>1, <1>2, <1>3, <1>4 DEF Links

\* A transfer keeps the links.
LEMMA TouchesLinks ==
  ASSUME FileInv, NEW k, NEW new, Touches(k, new), Even(slot_CC')
  PROVE  Links'
<1>1. \A i \in 1 .. MaxChannels : channels'[i] = IF i = k THEN new ELSE channels[i]
  BY DEF FileInv, Types, TypeOK, Touches
<1>2. \A i \in 1 .. MaxChannels :
        /\ channels'[i].fp = channels[i].fp /\ channels'[i].path = channels[i].path
        /\ channels'[i].writable = channels[i].writable
  BY <1>1 DEF Touches
<1>3. dir' = dir
  BY DEF Touches
<1> QED
  BY <1>2, <1>3, FewerLinks

\* CLOSE keeps the links.
LEMMA ClosedLinks ==
  ASSUME FileInv, NEW k, channels' = [channels EXCEPT ![k] = Closed], dir' = dir, Even(slot_CC')
  PROVE  Links'
<1>1. \A i \in 1 .. MaxChannels : channels'[i] = Closed \/ channels'[i] = channels[i]
  BY DEF FileInv, Types, TypeOK
<1> QED
  BY <1>1, ClosedChannel, FewerLinks

\* An OPEN of a file that no channel writes keeps the links.
LEMMA OpenLinks ==
  ASSUME FileInv, NEW f \in Names, NEW access \in 0 .. 3,
         Exclusive(f, access # 0), Open(f, access), Even(slot_CC')
  PROVE  Links'
<1>0. f \in File /\ (access # 0) \in BOOLEAN /\ TypeOK
  BY FileAssumption DEF FileInv, Types
<1>1. /\ Target(f) \in Node /\ FreshId \in 1 .. MaxChannels /\ ~channels[FreshId].in_use
      /\ dir' = [dir EXCEPT ![f] = Target(f)]
      /\ channels' = [channels EXCEPT ![FreshId] = NewChannel(f, Target(f), access # 0)]
  BY <1>0, OpenDoes
<1>2. /\ dir[f] # 0 => Target(f) = dir[f]
      /\ dir[f] = 0 => Target(f) \in Unused
  BY <1>0, TargetNode DEF Open
<1>3. PICK new : new = NewChannel(f, Target(f), access # 0)
  OBVIOUS
<1>4. new.fp = Target(f) /\ new.path = f /\ new.writable = (access # 0)
  BY <1>0, <1>1, <1>3, OpenedChannel
<1>5. \A i \in 1 .. MaxChannels :
        channels'[i] = IF i = FreshId THEN new ELSE channels[i]
  BY <1>0, <1>1, <1>3 DEF TypeOK
<1>6. \A g \in File : dir'[g] = IF g = f THEN Target(f) ELSE dir[g]
  BY <1>0, <1>1 DEF TypeOK
<1>7. Target(f) # 0
  BY <1>1 DEF Node
<1>8. \A i \in 1 .. MaxChannels : channels[i].path \in File
  BY <1>0 DEF TypeOK, Channel
<1>9. \A g \in File : g # f => dir[g] # Target(f)
  BY <1>0, <1>2, <1>7 DEF Unused, InUse, FileInv, Links
<1>10. \A i \in 1 .. MaxChannels : channels[i].fp = Target(f) =>
         dir[f] = Target(f) /\ channels[i].in_use /\ ~channels[i].writable /\ access = 0
  <2> SUFFICES ASSUME NEW i \in 1 .. MaxChannels, channels[i].fp = Target(f)
               PROVE  /\ dir[f] = Target(f) /\ channels[i].in_use
                      /\ ~channels[i].writable /\ access = 0
    OBVIOUS
  <2>1. dir[f] = Target(f)
    BY <1>2 DEF Unused, InUse
  <2>2. channels[i].in_use
    BY <1>0, <1>7 DEF TypeOK
  <2> QED
    BY <1>7, <2>1, <2>2 DEF Exclusive
<1>11. \A i \in 1 .. MaxChannels :
         channels'[i].fp # 0 => dir'[channels'[i].path] = channels'[i].fp
  <2> SUFFICES ASSUME NEW i \in 1 .. MaxChannels, channels'[i].fp # 0
               PROVE  dir'[channels'[i].path] = channels'[i].fp
    OBVIOUS
  <2>1. CASE i = FreshId
    BY <1>0, <1>4, <1>5, <1>6, <2>1
  <2>2. CASE i # FreshId
    <3>1. channels'[i] = channels[i] /\ dir[channels[i].path] = channels[i].fp
      BY <1>5, <2>2 DEF FileInv, Links
    <3>2. channels[i].path = f => dir[f] = Target(f)
      BY <1>2, <1>5, <2>2, <3>1
    <3> QED
      BY <1>6, <1>8, <3>1, <3>2
  <2> QED
    BY <2>1, <2>2
<1>12. \A i, j \in 1 .. MaxChannels :
         i # j /\ channels'[i].fp # 0 /\ channels'[i].fp = channels'[j].fp
           => ~channels'[i].writable /\ ~channels'[j].writable
  <2> SUFFICES ASSUME NEW i \in 1 .. MaxChannels, NEW j \in 1 .. MaxChannels,
                      i # j, channels'[i].fp # 0, channels'[i].fp = channels'[j].fp
               PROVE  ~channels'[i].writable /\ ~channels'[j].writable
    OBVIOUS
  <2>0. access = 0 => new.writable = FALSE
    BY <1>4
  <2>1. CASE i = FreshId
    <3>1. channels'[i] = new /\ channels'[j] = channels[j] /\ channels[j].fp = Target(f)
      BY <1>4, <1>5, <2>1
    <3> QED
      BY <1>10, <2>0, <3>1
  <2>2. CASE j = FreshId
    <3>1. channels'[j] = new /\ channels'[i] = channels[i] /\ channels[i].fp = Target(f)
      BY <1>4, <1>5, <2>2
    <3> QED
      BY <1>10, <2>0, <3>1
  <2>3. CASE i # FreshId /\ j # FreshId
    <3>1. channels'[i] = channels[i] /\ channels'[j] = channels[j]
      BY <1>5, <2>3
    <3> QED
      BY <3>1 DEF FileInv, Links
  <2> QED
    BY <2>1, <2>2, <2>3
<1>13. \A g, h \in File : dir'[g] # 0 /\ dir'[g] = dir'[h] => g = h
  BY <1>6, <1>9 DEF FileInv, Links
<1>14. Even(slot_CC)'
  BY DEF Even, RecordBytes
<1> QED
  BY <1>11, <1>12, <1>13, <1>14 DEF Links

\* Every step of a program that keeps the rules keeps the links.
LEMMA StepKeepsFiles ==
  FileInv /\ [Next /\ KeepsRules]_vars => FileInv'
<1> SUFFICES ASSUME FileInv, [Next /\ KeepsRules]_vars PROVE FileInv'
  OBVIOUS
<1>0. Types /\ Types'
  BY StepKeepsTypes DEF FileInv
<1>1. CASE UNCHANGED vars
  <2>1. Links'
    BY <1>1 DEF vars, FileInv, Links, Even, RecordBytes
  <2> QED
    BY <1>0, <2>1 DEF FileInv
<1>2. CASE Next /\ KeepsRules
  <2>0. Even(slot_CC')
    BY <1>2 DEF KeepsRules
  <2>1. ASSUME NEW f \in Names, NEW access \in 0 .. 3, Exclusive(f, access # 0), Open(f, access)
        PROVE  Links'
    BY <2>0, <2>1, OpenLinks
  <2>2. ASSUME NEW c \in Program, Transfers(c) PROVE Links'
    <3>1. CASE Streaming(c)
      BY <1>0, <2>0, <2>2, <3>1, TransferTouches, TouchesLinks
    <3>2. CASE ~Streaming(c)
      <4>1. UNCHANGED <<dir, channels>>
        BY <2>2, <3>2, TransferIdle
      <4> QED
        BY <2>0, <4>1, FewerLinks
    <3> QED
      BY <3>1, <3>2
  <2>3. ASSUME NEW c \in Program, Close(c) PROVE Links'
    <3>1. CASE Resolved(c)
      BY <1>0, <2>0, <2>3, <3>1, CloseDoes, ClosedLinks
    <3>2. CASE ~Resolved(c)
      <4>1. UNCHANGED <<dir, channels>>
        BY <2>3, <3>2 DEF Close
      <4> QED
        BY <2>0, <4>1, FewerLinks
    <3> QED
      BY <3>1, <3>2
  <2>4. ASSUME Refusal PROVE Links'
    <3>1. dir' = dir /\ (channels' = channels \/ channels' = [channels EXCEPT ![FreshId] = Closed])
      BY <2>4 DEF Refusal, OpenRefused, OpenFails, OpenNoChannel
    <3> QED
      BY <2>0, <3>1, FewerLinks, ClosedLinks
  <2>5. ASSUME NEW f \in Names, UnlinkNotFound(f) \/ \E removed \in BOOLEAN : Unlink(f, removed)
        PROVE  Links'
    <3>1. channels' = channels /\ (dir' = dir \/ dir' = [dir EXCEPT ![f] = 0])
      BY <2>5 DEF UnlinkNotFound, Unlink
    <3>2. CASE dir' = dir
      BY <2>0, <3>1, <3>2, FewerLinks
    <3>3. CASE dir' = [dir EXCEPT ![f] = 0]
      <4>1. \A g \in File : dir'[g] = IF g = f THEN 0 ELSE dir[g]
        BY <1>0, <3>3 DEF Types, TypeOK
      <4>2. \A i \in 1 .. MaxChannels : channels[i].path \in File
        BY <1>0 DEF Types, TypeOK, Channel
      <4>3. \A i \in 1 .. MaxChannels :
              channels'[i].fp # 0 => dir'[channels'[i].path] = channels'[i].fp
        BY <1>2, <3>1, <4>1, <4>2 DEF KeepsRules, FileInv, Links
      <4>4. \A g, h \in File : dir'[g] # 0 /\ dir'[g] = dir'[h] => g = h
        BY <4>1 DEF FileInv, Links
      <4>5. \A i, j \in 1 .. MaxChannels :
              i # j /\ channels'[i].fp # 0 /\ channels'[i].fp = channels'[j].fp
                => ~channels'[i].writable /\ ~channels'[j].writable
        BY <3>1 DEF FileInv, Links
      <4>6. Even(slot_CC)'
        BY <2>0 DEF Even, RecordBytes
      <4> QED
        BY <4>3, <4>4, <4>5, <4>6 DEF Links
    <3> QED
      BY <3>1, <3>2, <3>3
  <2>6. ASSUME NEW size \in RecordSizes, SetRecordSize(size) PROVE Links'
    <3>1. UNCHANGED <<dir, channels>>
      BY <2>6 DEF SetRecordSize
    <3> QED
      BY <2>0, <3>1, FewerLinks
  <2>7. Links'
    BY <1>2, <2>1, <2>2, <2>3, <2>4, <2>5, <2>6, Instructions
  <2> QED
    BY <1>0, <2>7 DEF FileInv
<1> QED
  BY <1>1, <1>2

\* The OBJ file is linked when the machine starts.
LEMMA InitFiles ==
  Init /\ Even(slot_CC) => FileInv
<1> SUFFICES ASSUME Init, Even(slot_CC) PROVE FileInv
  OBVIOUS
<1>1. Types
  BY InitTypes
<1>2. PICK fp \in {0, 1} :
        channels = [i \in 1 .. MaxChannels |->
                      IF i = 1 THEN [Closed EXCEPT !.in_use = TRUE, !.fp = fp] ELSE Closed]
  BY DEF Init
<1> DEFINE first == [Closed EXCEPT !.in_use = TRUE, !.fp = fp]
<1>3. first.fp = fp /\ first.path = Obj
  BY DEF Closed
<1> HIDE DEF first
<1>4. \A i \in 1 .. MaxChannels : channels[i] = IF i = 1 THEN first ELSE Closed
  BY <1>2 DEF first
<1>5. dir = [f \in File |-> IF f = Obj THEN 1 ELSE 0]
  BY DEF Init
<1>6. \A i \in 1 .. MaxChannels : channels[i].fp # 0 => i = 1 /\ channels[i].fp = 1 /\ channels[i].path = Obj
  BY <1>3, <1>4, ClosedChannel
<1>7. \A i \in 1 .. MaxChannels : channels[i].fp # 0 => dir[channels[i].path] = channels[i].fp
  BY <1>5, <1>6, FileAssumption
<1>8. \A f, g \in File : dir[f] # 0 /\ dir[f] = dir[g] => f = g
  BY <1>5
<1>9. \A i, j \in 1 .. MaxChannels :
        i # j /\ channels[i].fp # 0 /\ channels[i].fp = channels[j].fp
          => ~channels[i].writable /\ ~channels[j].writable
  BY <1>6
<1> QED
  BY <1>1, <1>7, <1>8, <1>9 DEF FileInv, Links

\* The links are invariant.
LEMMA FilesInvariant == DisciplinedSpec => []FileInv
<1> QED
  BY InitFiles, StepKeepsFiles, PTL DEF DisciplinedSpec

-----------------------------------------------------------------------------
(* The contents of files.                                                   *)

\* A file holds what the disk holds, with the buffer of any channel that has
\* it open.
Shown ==
  \A f \in File : dir[f] # 0 =>
    /\ \A i \in 1 .. MaxChannels :
         channels[i].fp = dir[f] => FileContent(f) = Effective(data[dir[f]], channels[i])
    /\ (\A i \in 1 .. MaxChannels : channels[i].fp # dir[f]) => FileContent(f) = data[dir[f]]

\* Under the links, the content of a file is what its channels show.
LEMMA FilesShown ==
  FileInv => Shown
<1> SUFFICES ASSUME FileInv, NEW f \in File, dir[f] # 0
             PROVE  /\ \A i \in 1 .. MaxChannels :
                         channels[i].fp = dir[f] => FileContent(f) = Effective(data[dir[f]], channels[i])
                    /\ (\A i \in 1 .. MaxChannels : channels[i].fp # dir[f])
                         => FileContent(f) = data[dir[f]]
  BY DEF Shown
<1>1. CASE Writers(f) = {}
  <2>1. FileContent(f) = data[dir[f]]
    BY <1>1 DEF FileContent
  <2>2. \A i \in 1 .. MaxChannels :
          channels[i].fp = dir[f] => Effective(data[dir[f]], channels[i]) = data[dir[f]]
    BY <1>1 DEF Writers, Effective
  <2> QED
    BY <2>1, <2>2
<1>2. CASE Writers(f) # {}
  <2>1. PICK w \in Writers(f) : FileContent(f) = Flushed(channels[w])[dir[f]]
    BY <1>2 DEF FileContent
  <2>2. w \in 1 .. MaxChannels /\ channels[w].fp = dir[f] /\ channels[w].buffer # NoBytes
    BY <2>1 DEF Writers
  <2>3. FileContent(f) = Effective(data[dir[f]], channels[w])
    BY <2>1, <2>2, FlushedFile DEF FileInv, Types
  <2>4. \A i \in 1 .. MaxChannels : channels[i].fp = dir[f] => i = w
    BY <2>2 DEF FileInv, Types, Buffered, Links
  <2> QED
    BY <2>2, <2>3, <2>4
<1> QED
  BY <1>1, <1>2

\* The mapping, before and after a step.
LEMMA ShownThen ==
  ASSUME FileInv'
  PROVE  \A f \in File : dir'[f] # 0 =>
           /\ \A i \in 1 .. MaxChannels :
                channels'[i].fp = dir'[f] => FileContent(f)' = Effective(data'[dir'[f]], channels'[i])
           /\ (\A i \in 1 .. MaxChannels : channels'[i].fp # dir'[f])
                => FileContent(f)' = data'[dir'[f]]
<1>1. FileInv' => Shown'
  BY FilesShown, PTL
<1> QED
  BY <1>1 DEF Shown

\* The state of Files behind an open channel.
LEMMA OpenChannel ==
  ASSUME FileInv, NEW k \in OpenIds
  PROVE  /\ k \in 1 .. MaxChannels /\ channels[k].fp # 0 /\ channels[k].in_use
         /\ channels[k] \in Channel /\ channels[k].path \in DOMAIN Content
         /\ channels[k].path \in File /\ dir[channels[k].path] = channels[k].fp
         /\ channels[k].fp \in Node
         /\ OpenFiles[k] = [file |-> channels[k].path, pos |-> channels[k].position,
                            writable |-> channels[k].writable]
         /\ k \in DOMAIN OpenFiles
         /\ Content[channels[k].path] = Current(k)
         /\ Promise!Data(k) = Current(k)
<1>1. /\ k \in 1 .. MaxChannels /\ channels[k].fp # 0 /\ channels[k].in_use
      /\ channels[k] \in Channel /\ channels[k].path \in File
      /\ dir[channels[k].path] = channels[k].fp
  BY DEF OpenIds, FileInv, Links, Types, TypeOK, Channel
<1>2. channels[k].fp \in Node
  BY <1>1 DEF Channel, Node
<1>3. OpenFiles[k] = [file |-> channels[k].path, pos |-> channels[k].position,
                      writable |-> channels[k].writable]
      /\ k \in DOMAIN OpenFiles
  BY DEF OpenFiles
<1>4. channels[k].path \in DOMAIN Content /\ Content[channels[k].path] = FileContent(channels[k].path)
  BY <1>1 DEF Content
<1>5. FileContent(channels[k].path) = Current(k)
  BY <1>1, FilesShown DEF Shown, Current
<1>6. Promise!Data(k) = Content[channels[k].path]
  BY <1>3 DEF Promise!Data
<1> QED
  BY <1>1, <1>2, <1>3, <1>4, <1>5, <1>6

\* A step that changes one channel and its file.
LEMMA TouchedMapping ==
  ASSUME FileInv, FileInv', NEW k, NEW new, Touches(k, new)
  PROVE  /\ k \in OpenIds /\ OpenIds' = OpenIds
         /\ OpenFiles' = [OpenFiles EXCEPT ![k].pos = new.position]
         /\ Content' = [Content EXCEPT ![channels[k].path] = Effective(data'[channels[k].fp], new)]
<1>1. k \in OpenIds /\ k \in 1 .. MaxChannels
  BY DEF Touches, OpenIds
<1>2. \A i \in 1 .. MaxChannels : channels'[i] = IF i = k THEN new ELSE channels[i]
  BY DEF FileInv, Types, TypeOK, Touches
<1>3. new.fp = channels[k].fp /\ new.path = channels[k].path /\ new.writable = channels[k].writable
      /\ dir' = dir
  BY DEF Touches
<1>4. OpenIds' = OpenIds
  BY <1>2, <1>3 DEF OpenIds
<1>5. OpenFiles' = [OpenFiles EXCEPT ![k].pos = new.position]
  BY <1>1, <1>2, <1>3, <1>4 DEF OpenFiles, OpenIds
<1>6. DOMAIN Content' = DOMAIN Content
  BY <1>3 DEF Content
<1>7. PICK f \in File : f = channels[k].path /\ dir[f] = channels[k].fp /\ dir[f] # 0
                        /\ f \in DOMAIN Content
  BY <1>1, OpenChannel
<1>8. FileContent(f)' = Effective(data'[channels[k].fp], new)
  <2>1. dir'[f] # 0 /\ channels'[k].fp = dir'[f]
    BY <1>1, <1>2, <1>3, <1>7
  <2>2. FileContent(f)' = Effective(data'[dir'[f]], channels'[k])
    BY <1>1, <2>1, ShownThen
  <2> QED
    BY <1>1, <1>2, <1>3, <1>7, <2>2
<1>9. ASSUME NEW g \in File, dir[g] # 0, g # f
      PROVE  FileContent(g)' = FileContent(g)
  <2>1. dir[g] # dir[f] /\ dir[g] \in Node
    BY <1>7, <1>9 DEF FileInv, Links, Types, TypeOK, Node
  <2>2. data'[dir[g]] = data[dir[g]] /\ dir'[g] = dir[g]
    BY <1>3, <1>7, <2>1 DEF Touches
  <2>3. CASE \E i \in 1 .. MaxChannels : channels[i].fp = dir[g]
    <3>1. PICK i \in 1 .. MaxChannels : channels[i].fp = dir[g]
      BY <2>3
    <3>2. channels'[i] = channels[i]
      BY <1>2, <1>7, <2>1, <3>1
    <3>3. FileContent(g) = Effective(data[dir[g]], channels[i])
      BY <1>9, <3>1, FilesShown DEF Shown
    <3>4. FileContent(g)' = Effective(data'[dir'[g]], channels'[i])
      BY <1>9, <2>2, <3>1, <3>2, ShownThen
    <3> QED
      BY <2>2, <3>2, <3>3, <3>4
  <2>4. CASE \A i \in 1 .. MaxChannels : channels[i].fp # dir[g]
    <3>1. \A i \in 1 .. MaxChannels : channels'[i].fp # dir'[g]
      BY <1>2, <1>3, <2>2, <2>4
    <3>2. FileContent(g) = data[dir[g]]
      BY <1>9, <2>4, FilesShown DEF Shown
    <3>3. FileContent(g)' = data'[dir'[g]]
      BY <1>9, <2>2, <3>1, ShownThen
    <3> QED
      BY <2>2, <3>2, <3>3
  <2> QED
    BY <2>3, <2>4
<1> DEFINE e == Effective(data'[channels[k].fp], new)
<1>10. Content' = [Content EXCEPT ![f] = e]
  <2>1. DOMAIN Content = {g \in File : dir[g] # 0}
    BY DEF Content
  <2>2. \A g \in DOMAIN Content : Content'[g] = IF g = f THEN e ELSE Content[g]
    <3> SUFFICES ASSUME NEW g \in DOMAIN Content
                 PROVE  Content'[g] = IF g = f THEN e ELSE Content[g]
      OBVIOUS
    <3>1. Content'[g] = FileContent(g)' /\ Content[g] = FileContent(g)
      BY <1>6, <2>1 DEF Content
    <3>2. CASE g = f
      BY <1>8, <3>1, <3>2
    <3>3. CASE g # f
      BY <1>9, <2>1, <3>1, <3>3
    <3> QED
      BY <3>2, <3>3
  <2>3. Content' = [g \in DOMAIN Content' |-> Content'[g]]
    BY DEF Content
  <2>4. Content = [g \in DOMAIN Content |-> Content[g]]
    BY DEF Content
  <2> HIDE DEF e
  <2> QED
    BY <1>6, <1>7, <2>2, <2>3, <2>4
<1> QED
  BY <1>1, <1>4, <1>5, <1>7, <1>10

\* A step that changes no file and no channel that is open.
LEMMA SameMapping ==
  ASSUME FileInv, FileInv', UNCHANGED <<dir, data>>,
         \A i \in 1 .. MaxChannels :
           channels'[i] = channels[i] \/ (channels[i].fp = 0 /\ channels'[i].fp = 0)
  PROVE  Content' = Content /\ OpenFiles' = OpenFiles /\ OpenIds' = OpenIds
<1>1. OpenIds' = OpenIds
  BY DEF OpenIds
<1>2. \A i \in OpenIds : channels'[i] = channels[i]
  BY DEF OpenIds
<1>3. OpenFiles' = OpenFiles
  BY <1>1, <1>2 DEF OpenFiles
<1>4. ASSUME NEW f \in File, dir[f] # 0
      PROVE  FileContent(f)' = FileContent(f)
  <2>1. CASE \E i \in 1 .. MaxChannels : channels[i].fp = dir[f]
    <3>1. PICK i \in 1 .. MaxChannels : channels[i].fp = dir[f]
      BY <2>1
    <3>2. channels'[i] = channels[i]
      BY <1>4, <3>1
    <3>3. FileContent(f) = Effective(data[dir[f]], channels[i])
      BY <1>4, <3>1, FilesShown DEF Shown
    <3>4. FileContent(f)' = Effective(data'[dir'[f]], channels'[i])
      BY <1>4, <3>1, <3>2, ShownThen
    <3> QED
      BY <3>2, <3>3, <3>4
  <2>2. CASE \A i \in 1 .. MaxChannels : channels[i].fp # dir[f]
    <3>1. \A i \in 1 .. MaxChannels : channels'[i].fp # dir'[f]
      BY <1>4, <2>2
    <3>2. FileContent(f) = data[dir[f]]
      BY <1>4, <2>2, FilesShown DEF Shown
    <3>3. FileContent(f)' = data'[dir'[f]]
      BY <1>4, <3>1, ShownThen
    <3> QED
      BY <3>2, <3>3
  <2> QED
    BY <2>1, <2>2
<1>5. Content' = Content
  BY <1>4 DEF Content
<1> QED
  BY <1>1, <1>3, <1>5

-----------------------------------------------------------------------------
(* Steps of Files.                                                          *)

\* FALSE stands for the channel named last, in the code and in Files.
LEMMA Meaning ==
  ASSUME FileInv, NEW c \in Program, reply'.channel = c
  PROVE  /\ Streaming(c) => Named(c) \in OpenIds /\ Promise!Means(Named(c))
         /\ ~Streaming(c) => \A k \in OpenIds : ~Promise!Means(k)
<1>1. FalseId \notin 1 .. MaxChannels /\ OpenIds \subseteq 1 .. MaxChannels
  BY ChannelAssumption DEF OpenIds
<1>2. ASSUME Streaming(c)
      PROVE  Named(c) \in OpenIds /\ Promise!Means(Named(c))
  <2>1. Named(c) \in OpenIds
    BY <1>2, StreamFacts DEF FileInv, OpenIds
  <2>2. c = FalseId => Last = {Named(c)}
    BY <2>1 DEF Named, Last
  <2> QED
    BY <2>1, <2>2 DEF Promise!Means, Named
<1>3. ASSUME NEW k \in OpenIds, Promise!Means(k)
      PROVE  Streaming(c)
  <2>1. channels[k].in_use /\ channels[k].fp # 0 /\ k \in 1 .. MaxChannels /\ k # FalseId
    BY <1>1, OpenChannel
  <2>2. Named(c) = k
    <3>1. c = k \/ (c = FalseId /\ Last = {k})
      BY <1>3 DEF Promise!Means
    <3>2. Last = {k} => active_channel_id = k
      BY DEF Last
    <3> QED
      BY <2>1, <3>1, <3>2 DEF Named
  <2> QED
    BY <2>1, <2>2 DEF Streaming, Resolved, Found
<1> QED
  BY <1>2, <1>3

\* A transfer by stream or record on a channel that streams.
LEMMA Activating ==
  ASSUME FileInv, NEW c, Streaming(c), Activated(c), OpenIds' = OpenIds
  PROVE  Last' = {Named(c)}
<1>1. Named(c) \in OpenIds /\ active_channel_id' = Named(c)
  BY StreamFacts DEF FileInv, OpenIds, Activated
<1> QED
  BY <1>1 DEF Last

\* The state of Files for the channel of a transfer.
LEMMA TransferState ==
  ASSUME FileInv, NEW c, Streaming(c)
  PROVE  LET k == Named(c) IN
           /\ k \in OpenIds /\ channels[k].path \in DOMAIN Content
           /\ OpenFiles[k].file = channels[k].path
           /\ OpenFiles[k].pos = channels[k].position
           /\ OpenFiles[k].writable = channels[k].writable
           /\ Content[channels[k].path] = Current(k) /\ Promise!Data(k) = Current(k)
           /\ channels[k].position \in Nat /\ Current(k) \in Seq(Byte)
<1>1. Named(c) \in OpenIds /\ channels[Named(c)].position \in Nat /\ Current(Named(c)) \in Seq(Byte)
  BY StreamFacts DEF FileInv, OpenIds
<1>2. PICK k \in OpenIds : k = Named(c)
  BY <1>1
<1>3. /\ channels[k].path \in DOMAIN Content
      /\ OpenFiles[k] = [file |-> channels[k].path, pos |-> channels[k].position,
                         writable |-> channels[k].writable]
      /\ Content[channels[k].path] = Current(k) /\ Promise!Data(k) = Current(k)
  BY OpenChannel
<1>4. /\ OpenFiles[k].file = channels[k].path /\ OpenFiles[k].pos = channels[k].position
      /\ OpenFiles[k].writable = channels[k].writable
  BY <1>3
<1> QED
  BY <1>1, <1>2, <1>3, <1>4

\* Bytes as long as they were asked for.
LEMMA PaddedLength ==
  ASSUME NEW d, NEW at, NEW n \in Nat
  PROVE  Len(Promise!Padded(d, at, n)) = n
BY DEF Promise!Padded

\* READ on a stream is Read of Files.
LEMMA ReadRefines ==
  ASSUME FileInv, FileInv', NEW c \in Program, NEW n \in 0 .. MaxWords, Streaming(c), Read(c, n)
  PROVE  Promise!Transfer(Named(c))
<1> DEFINE k == Named(c)
           d == Current(k)
           p == channels[k].position
           bs == Stored(d, p, 2 * n)
<1>0. n \in Nat /\ 2 * n \in Nat
  BY ChannelAssumption
<1>1. /\ k \in OpenIds /\ channels[k].path \in DOMAIN Content
      /\ OpenFiles[k].file = channels[k].path /\ OpenFiles[k].pos = p
      /\ Content[channels[k].path] = d /\ Promise!Data(k) = d /\ p \in Nat /\ d \in Seq(Byte)
  BY TransferState
<1>2. PICK new :
        /\ Touches(k, new) /\ new.position = p + Len(bs)
        /\ Effective(data'[channels[k].fp], new) = d
  BY <1>0, ReadDoes DEF FileInv
<1>3. /\ OpenIds' = OpenIds
      /\ OpenFiles' = [OpenFiles EXCEPT ![k].pos = new.position]
      /\ Content' = [Content EXCEPT ![channels[k].path] = d]
  BY <1>2, TouchedMapping
<1>4. Content' = Content
  BY <1>1, <1>3 DEF Content
<1>5. /\ Len(bs) = Promise!Available(d, p, 2 * n) /\ Len(bs) \in Nat
      /\ ZeroFilled(bs, 2 * n) = Promise!Padded(d, p, 2 * n)
  BY <1>0, <1>1, StoredBytes
<1>6. reply' = [op |-> "read", channel |-> c, at |-> 0, bytes |-> ZeroFilled(bs, 2 * n),
                value |-> IF Len(bs) = 2 * n THEN 0 ELSE Error]
  BY StreamFacts DEF Read, Reply, ReplyAt, FileInv
<1>7. Last' = {k} /\ Promise!Means(k)
  <2>1. Activated(c)
    BY DEF Read
  <2>2. reply'.channel = c
    BY <1>6
  <2> QED
    BY <1>3, <2>1, <2>2, Activating, Meaning
<1>8. Len(reply'.bytes) = 2 * n
  BY <1>0, <1>5, <1>6, PaddedLength
<1>9. Promise!Read(k, 2 * n)
  <2>1. reply'.op = "read" /\ reply'.bytes = Promise!Padded(d, p, 2 * n)
    BY <1>5, <1>6
  <2>2. (reply'.value = 0) <=> (Len(bs) = 2 * n)
    BY <1>6, ChannelAssumption
  <2>3. OpenFiles' = [OpenFiles EXCEPT ![k].pos = @ + Len(bs)]
    BY <1>1, <1>2, <1>3
  <2> HIDE DEF d, p, bs, k
  <2> QED
    BY <1>1, <1>4, <1>5, <2>1, <2>2, <2>3 DEF Promise!Read
<1> HIDE DEF k, d, p, bs
<1>10. Promise!Read(k, Len(reply'.bytes))
  BY <1>8, <1>9
<1>11. Promise!Transfer(k)
  BY <1>7, <1>10 DEF Promise!Transfer
<1> QED
  BY <1>11 DEF k

\* WRITE on a stream is Write of Files.
LEMMA WriteRefines ==
  ASSUME FileInv, FileInv', NEW c \in Program, NEW n \in 0 .. MaxWords, NEW bs \in Output(n),
         NEW kept \in BOOLEAN, Streaming(c), Write(c, bs, kept)
  PROVE  Promise!Transfer(Named(c))
<1> DEFINE k == Named(c)
           d == Current(k)
           p == channels[k].position
           taken == Accepted(k, bs)
           path == channels[k].path
<1>0. bs \in Seq(Byte) /\ taken \in Seq(Byte)
  <2>1. bs \in Seq(Byte) /\ NoBytes \in Seq(Byte)
    BY Inputs DEF FileInv, Types, NoBytes
  <2> QED
    BY <2>1 DEF Accepted
<1>1. /\ k \in OpenIds /\ path \in DOMAIN Content
      /\ OpenFiles[k].file = path /\ OpenFiles[k].pos = p
      /\ OpenFiles[k].writable = channels[k].writable
      /\ Content[path] = d /\ p \in Nat /\ d \in Seq(Byte)
  BY TransferState
<1>2. PICK new :
        /\ Touches(k, new) /\ new.position = p + Len(taken)
        /\ Effective(data'[channels[k].fp], new) = Overwrite(d, p, taken)
  BY <1>0, WriteDoes DEF FileInv
<1>3. /\ OpenIds' = OpenIds
      /\ OpenFiles' = [OpenFiles EXCEPT ![k].pos = new.position]
      /\ Content' = [Content EXCEPT ![path] = Overwrite(d, p, taken)]
  BY <1>2, TouchedMapping
<1>4. Overwrite(d, p, taken) = Promise!Overlaid(d, p, taken)
  BY <1>0, <1>1, WrittenBytes
<1>5. reply' = [op |-> "write", channel |-> c, at |-> 0, bytes |-> bs, value |-> 0]
  BY DEF Write, Reply, ReplyAt
<1>6. Last' = {k} /\ Promise!Means(k)
  <2>1. Activated(c)
    BY DEF Write
  <2>2. reply'.channel = c
    BY <1>5
  <2> QED
    BY <1>3, <2>1, <2>2, Activating, Meaning
<1>7. Promise!Taken(k, bs) = taken
  BY <1>1 DEF Promise!Taken, Accepted, NoBytes
<1>8. reply'.op = "write" /\ reply'.value = 0 /\ reply'.bytes = bs
  BY <1>5
<1> HIDE DEF k, d, p, taken, path
<1>9. Promise!Write(k, bs)
  <2>1. OpenFiles' = [OpenFiles EXCEPT ![k].pos = @ + Len(taken)]
    BY <1>1, <1>2, <1>3
  <2>2. Content' = [Content EXCEPT ![path] = Promise!Overlaid(@, p, taken)]
    BY <1>1, <1>3, <1>4
  <2> QED
    BY <1>1, <1>7, <1>8, <2>1, <2>2 DEF Promise!Write
<1>10. Promise!Transfer(k)
  BY <1>6, <1>8, <1>9 DEF Promise!Transfer
<1> QED
  BY <1>10 DEF k

\* Records of an even size fill whole words.
LEMMA EvenRecords ==
  ASSUME FileInv, NEW n \in 0 .. MaxWords
  PROVE  /\ n * RecordSize \in Nat /\ (n * RecordSize) % 2 = 0
         /\ EvenUp(n * RecordSize) = n * RecordSize
<1>1. RecordSize \in Nat /\ n \in Nat /\ n * RecordSize \in Nat
  BY Inputs DEF FileInv, Types
<1>2. RecordSize % 2 = 0
  BY DEF FileInv, Links, Even, RecordSize
<1>3. PICK h \in Nat : RecordSize = 2 * h
  BY <1>1, <1>2
<1>4. n * RecordSize = 2 * (n * h) /\ n * h \in Nat
  BY <1>1, <1>3
<1>5. \A m \in Nat : (2 * m) % 2 = 0 /\ 2 * ((2 * m + 1) \div 2) = 2 * m
  OBVIOUS
<1> QED
  BY <1>1, <1>4, <1>5 DEF EvenUp

\* A transfer by record leaves the position of its channel.
LEMMA SamePosition ==
  ASSUME NEW k \in OpenIds
  PROVE  [OpenFiles EXCEPT ![k].pos = channels[k].position] = OpenFiles
BY DEF OpenFiles

\* READREC on a stream is ReadAt of Files.
LEMMA ReadRecRefines ==
  ASSUME FileInv, FileInv', NEW c \in Program, NEW record \in 0 .. MaxWords,
         NEW n \in 0 .. MaxWords, Streaming(c), ReadRec(c, record, n)
  PROVE  Promise!Transfer(Named(c))
<1> DEFINE k == Named(c)
           d == Current(k)
           count == n * RecordSize
           at == record * RecordSize
           bs == Stored(d, at, count)
<1>0. count \in Nat /\ at \in Nat /\ EvenUp(count) = count
  BY EvenRecords
<1>1. /\ k \in OpenIds /\ channels[k].path \in DOMAIN Content
      /\ OpenFiles[k].pos = channels[k].position
      /\ Content[channels[k].path] = d /\ Promise!Data(k) = d /\ d \in Seq(Byte)
  BY TransferState
<1>2. PICK new :
        /\ Touches(k, new) /\ new.position = channels[k].position
        /\ Effective(data'[channels[k].fp], new) = d
  BY ReadRecDoes DEF FileInv
<1>3. /\ OpenIds' = OpenIds
      /\ OpenFiles' = [OpenFiles EXCEPT ![k].pos = new.position]
      /\ Content' = [Content EXCEPT ![channels[k].path] = d]
  BY <1>2, TouchedMapping
<1>4. Content' = Content /\ OpenFiles' = OpenFiles
  <2>1. Content' = Content
    BY <1>1, <1>3 DEF Content
  <2>2. OpenFiles' = OpenFiles
    BY <1>1, <1>2, <1>3, SamePosition
  <2> QED
    BY <2>1, <2>2
<1>5. /\ Len(bs) = Promise!Available(d, at, count)
      /\ ZeroFilled(bs, count) = Promise!Padded(d, at, count)
  BY <1>0, <1>1, StoredBytes
<1>6. reply' = [op |-> "readrec", channel |-> c, at |-> at, bytes |-> ZeroFilled(bs, EvenUp(count)),
                value |-> Len(bs)]
  BY StreamFacts DEF ReadRec, ReplyAt, FileInv
<1>7. Last' = {k} /\ Promise!Means(k)
  <2>1. Activated(c)
    BY DEF ReadRec
  <2>2. reply'.channel = c
    BY <1>6
  <2> QED
    BY <1>3, <2>1, <2>2, Activating, Meaning
<1> HIDE DEF k, d, count, at, bs
<1>8. /\ reply'.op = "readrec" /\ reply'.at = at /\ reply'.value = Promise!Available(d, at, count)
      /\ reply'.bytes = Promise!Padded(d, at, count)
  BY <1>0, <1>5, <1>6
<1>9. Len(reply'.bytes) = count
  BY <1>0, <1>8, PaddedLength
<1>10. Promise!ReadAt(k, at, count)
  BY <1>1, <1>4, <1>8 DEF Promise!ReadAt
<1>11. Promise!Transfer(k)
  BY <1>7, <1>8, <1>9, <1>10 DEF Promise!Transfer
<1> QED
  BY <1>11 DEF k

\* WRITEREC on a stream is WriteAt of Files.
LEMMA WriteRecRefines ==
  ASSUME FileInv, FileInv', NEW c \in Program, NEW record \in 0 .. MaxWords,
         NEW n \in 0 .. MaxWords, NEW words \in Output(n * RecordSize),
         Streaming(c), WriteRec(c, record, words)
  PROVE  Promise!Transfer(Named(c))
<1> DEFINE k == Named(c)
           d == Current(k)
           at == record * RecordSize
           taken == Accepted(k, words)
           path == channels[k].path
<1>0. /\ at \in Nat /\ words \in Seq(Byte) /\ Len(words) % 2 = 0 /\ taken \in Seq(Byte)
  <2>1. at \in Nat /\ (n * RecordSize) % 2 = 0
    BY EvenRecords
  <2>2. words \in Seq(Byte) /\ Len(words) = n * RecordSize /\ NoBytes \in Seq(Byte)
    BY Inputs DEF FileInv, Types, NoBytes
  <2> QED
    BY <2>1, <2>2 DEF Accepted
<1>1. /\ k \in OpenIds /\ path \in DOMAIN Content
      /\ OpenFiles[k].file = path /\ OpenFiles[k].pos = channels[k].position
      /\ OpenFiles[k].writable = channels[k].writable
      /\ Content[path] = d /\ d \in Seq(Byte)
  BY TransferState
<1>2. PICK new :
        /\ Touches(k, new) /\ new.position = channels[k].position
        /\ Effective(data'[channels[k].fp], new) = Overwrite(d, at, taken)
  BY <1>0, WriteRecDoes DEF FileInv
<1>3. /\ OpenIds' = OpenIds
      /\ OpenFiles' = [OpenFiles EXCEPT ![k].pos = new.position]
      /\ Content' = [Content EXCEPT ![path] = Overwrite(d, at, taken)]
  BY <1>2, TouchedMapping
<1>4. OpenFiles' = OpenFiles
  BY <1>1, <1>2, <1>3 DEF OpenFiles
<1>5. Overwrite(d, at, taken) = Promise!Overlaid(d, at, taken)
  BY <1>0, <1>1, WrittenBytes
<1>6. reply' = [op |-> "writerec", channel |-> c, at |-> at, bytes |-> words, value |-> Len(words)]
  BY DEF WriteRec, ReplyAt
<1>7. Last' = {k} /\ Promise!Means(k)
  <2>1. Activated(c)
    BY DEF WriteRec
  <2>2. reply'.channel = c
    BY <1>6
  <2> QED
    BY <1>3, <2>1, <2>2, Activating, Meaning
<1>8. Promise!Taken(k, words) = taken
  BY <1>1 DEF Promise!Taken, Accepted, NoBytes
<1> HIDE DEF k, d, at, taken, path
<1>9. reply'.op = "writerec" /\ reply'.at = at /\ reply'.value = Len(words) /\ reply'.bytes = words
  BY <1>6
<1>10. Promise!WriteAt(k, at, words)
  <2>1. Content' = [Content EXCEPT ![path] = Promise!Overlaid(@, at, taken)]
    BY <1>1, <1>3, <1>5
  <2> QED
    BY <1>1, <1>4, <1>8, <1>9, <2>1 DEF Promise!WriteAt
<1>11. Promise!Transfer(k)
  BY <1>7, <1>9, <1>10 DEF Promise!Transfer
<1> QED
  BY <1>11 DEF k

\* FSIZE on a stream changes nothing a program can read.
LEMMA FSizeRefines ==
  ASSUME FileInv, FileInv', NEW c \in Program, Streaming(c), FSize(c)
  PROVE  Promise!Transfer(Named(c))
<1> DEFINE k == Named(c)
           d == Current(k)
<1>1. /\ k \in OpenIds /\ channels[k].path \in DOMAIN Content
      /\ OpenFiles[k].pos = channels[k].position
      /\ Content[channels[k].path] = d
  BY TransferState
<1>2. PICK new :
        /\ Touches(k, new) /\ new.position = channels[k].position
        /\ Effective(data'[channels[k].fp], new) = d
  BY FSizeDoes DEF FileInv
<1>3. /\ OpenIds' = OpenIds
      /\ OpenFiles' = [OpenFiles EXCEPT ![k].pos = new.position]
      /\ Content' = [Content EXCEPT ![channels[k].path] = d]
  BY <1>2, TouchedMapping
<1>4. Content' = Content /\ OpenFiles' = OpenFiles
  <2>1. Content' = Content
    BY <1>1, <1>3 DEF Content
  <2>2. OpenFiles' = OpenFiles
    BY <1>1, <1>2, <1>3, SamePosition
  <2> QED
    BY <2>1, <2>2
<1>5. reply'.op = "fsize" /\ reply'.channel = c
  BY DEF FSize, Answer, Reply, ReplyAt
<1>6. Last' = {k} /\ Promise!Means(k)
  <2>1. Activated(c)
    BY DEF FSize
  <2> QED
    BY <1>3, <1>5, <2>1, Activating, Meaning
<1> HIDE DEF k, d
<1>7. Promise!Size(k)
  BY <1>4, <1>5 DEF Promise!Size
<1>8. Promise!Transfer(k)
  BY <1>6, <1>7 DEF Promise!Transfer
<1> QED
  BY <1>8 DEF k

\* A read without a file finds zeroes.
LEMMA NoFile ==
  ASSUME NEW m \in Nat
  PROVE  ZeroFilled(NoBytes, m) = Promise!Padded(<<>>, 0, Len(ZeroFilled(NoBytes, m)))
<1>1. Len(ZeroFilled(NoBytes, m)) = m
  BY DEF ZeroFilled
<1>2. \A i \in 1 .. m : ~(i <= Len(<<>>)) /\ ~(0 + i <= Len(<<>>))
  OBVIOUS
<1>3. ZeroFilled(NoBytes, m) = Promise!Padded(<<>>, 0, m)
  BY <1>2 DEF ZeroFilled, Promise!Padded, NoBytes
<1> QED
  BY <1>1, <1>3

\* What a transfer that finds no stream answers.
LEMMA IdleReply ==
  ASSUME FileInv, NEW c \in Program, ~Streaming(c), Transfers(c)
  PROVE  /\ reply'.op \in {"read", "write", "readrec", "writerec", "fsize"}
         /\ reply'.channel = c
         /\ reply'.op \in {"read", "readrec"} =>
              reply'.bytes = Promise!Padded(<<>>, 0, Len(reply'.bytes))
<1>1. ASSUME NEW n \in 0 .. MaxWords, Read(c, n)
      PROVE  /\ reply'.op = "read" /\ reply'.channel = c
             /\ reply'.bytes = Promise!Padded(<<>>, 0, Len(reply'.bytes))
  <2>1. reply'.op = "read" /\ reply'.channel = c /\ reply'.bytes = ZeroFilled(NoBytes, 2 * n)
    BY <1>1 DEF Read, Reply, ReplyAt
  <2>2. 2 * n \in Nat
    BY ChannelAssumption
  <2> QED
    BY <2>1, <2>2, NoFile
<1>2. ASSUME NEW n \in 0 .. MaxWords, NEW record \in 0 .. MaxWords, ReadRec(c, record, n)
      PROVE  /\ reply'.op = "readrec" /\ reply'.channel = c
             /\ reply'.bytes = Promise!Padded(<<>>, 0, Len(reply'.bytes))
  <2>1. /\ reply'.op = "readrec" /\ reply'.channel = c
        /\ reply'.bytes = ZeroFilled(NoBytes, EvenUp(n * RecordSize))
    BY <1>2 DEF ReadRec, ReplyAt
  <2>2. EvenUp(n * RecordSize) \in Nat
    BY EvenRecords
  <2> QED
    BY <2>1, <2>2, NoFile
<1>3. ASSUME NEW bs, NEW kept, Write(c, bs, kept)
      PROVE  reply'.op = "write" /\ reply'.channel = c
  BY <1>3 DEF Write, Answer, Reply, ReplyAt
<1>4. ASSUME NEW record, NEW bs, WriteRec(c, record, bs)
      PROVE  reply'.op = "writerec" /\ reply'.channel = c
  BY <1>4 DEF WriteRec, Answer, Reply, ReplyAt
<1>5. ASSUME FSize(c)
      PROVE  reply'.op = "fsize" /\ reply'.channel = c
  BY <1>5 DEF FSize, Answer, Reply, ReplyAt
<1> QED
  BY <1>1, <1>2, <1>3, <1>4, <1>5 DEF Transfers

\* A transfer that finds no stream is Unopened of Files.
LEMMA IdleRefines ==
  ASSUME FileInv, FileInv', NEW c \in Program, ~Streaming(c), Transfers(c)
  PROVE  Promise!Unopened
<1>1. UNCHANGED <<dir, data, channels>>
  BY TransferIdle
<1>2. Content' = Content /\ OpenFiles' = OpenFiles /\ OpenIds' = OpenIds
  BY <1>1, SameMapping
<1>3. Last' \in {Last, {}}
  <2>1. Activated(c)
    BY TransferActivates
  <2>2. Resolved(c) => Named(c) \notin OpenIds
    BY DEF Streaming, OpenIds
  <2>3. Resolved(c) => Last' = {}
    BY <1>2, <2>1, <2>2 DEF Last, Activated
  <2>4. ~Resolved(c) => Last' = Last
    BY <1>2, <2>1 DEF Last, Activated
  <2> QED
    BY <2>3, <2>4
<1>4. /\ reply'.op \in {"read", "write", "readrec", "writerec", "fsize"}
      /\ reply'.channel = c
      /\ reply'.op \in {"read", "readrec"} =>
           reply'.bytes = Promise!Padded(<<>>, 0, Len(reply'.bytes))
  BY IdleReply
<1>5. \A k \in DOMAIN OpenFiles : ~Promise!Means(k)
  <2>1. DOMAIN OpenFiles = OpenIds
    BY DEF OpenFiles
  <2> QED
    BY <1>4, <2>1, Meaning
<1> QED
  BY <1>2, <1>3, <1>4, <1>5 DEF Promise!Unopened

\* Every transfer is a step of Files.
LEMMA TransferRefines ==
  ASSUME FileInv, FileInv', NEW c \in Program, Transfers(c)
  PROVE  Promise!Unopened \/ \E k \in DOMAIN OpenFiles : Promise!Transfer(k)
<1>1. CASE ~Streaming(c)
  BY <1>1, IdleRefines
<1>2. CASE Streaming(c)
  <2>1. ASSUME NEW n \in 0 .. MaxWords, Read(c, n) PROVE Promise!Transfer(Named(c))
    BY <1>2, <2>1, ReadRefines
  <2>2. ASSUME NEW n \in 0 .. MaxWords, NEW record \in 0 .. MaxWords, ReadRec(c, record, n)
        PROVE  Promise!Transfer(Named(c))
    BY <1>2, <2>2, ReadRecRefines
  <2>3. ASSUME NEW n \in 0 .. MaxWords, NEW bs \in Output(n), NEW kept \in BOOLEAN,
               Write(c, bs, kept)
        PROVE  Promise!Transfer(Named(c))
    BY <1>2, <2>3, WriteRefines
  <2>4. ASSUME NEW n \in 0 .. MaxWords, NEW bs \in Output(n * RecordSize),
               NEW record \in 0 .. MaxWords, WriteRec(c, record, bs)
        PROVE  Promise!Transfer(Named(c))
    BY <1>2, <2>4, WriteRecRefines
  <2>5. ASSUME FSize(c) PROVE Promise!Transfer(Named(c))
    BY <1>2, <2>5, FSizeRefines
  <2>6. Promise!Transfer(Named(c))
    BY <2>1, <2>2, <2>3, <2>4, <2>5 DEF Transfers
  <2>7. Named(c) \in DOMAIN OpenFiles
    BY <1>2, StreamFacts DEF FileInv, OpenIds, OpenFiles
  <2> QED
    BY <2>6, <2>7
<1> QED
  BY <1>1, <1>2

\* CLOSE of a channel with a stream: its buffer reaches the disk.
LEMMA CloseStreamRefines ==
  ASSUME FileInv, FileInv', NEW c \in Program, Streaming(c), Close(c)
  PROVE  Promise!Close(Named(c))
<1> DEFINE k == Named(c)
<1>1. /\ k \in 1 .. MaxChannels /\ k \in OpenIds /\ channels[k].fp \in Node
      /\ Flushed(channels[k])[channels[k].fp] = Current(k)
      /\ \A n \in Node : n # channels[k].fp => Flushed(channels[k])[n] = data[n]
  BY StreamFacts DEF FileInv, OpenIds
<1>2. /\ data' = Flushed(channels[k]) /\ channels' = [channels EXCEPT ![k] = Closed]
      /\ active_channel_id' = IF c = FalseId THEN active_channel_id ELSE FalseId
      /\ dir' = dir
  BY CloseDoes DEF FileInv, Streaming
<1>3. reply'.op = "close" /\ reply'.channel = c
  BY DEF Close, Answer, Reply, ReplyAt
<1>4. Promise!Means(k)
  BY <1>3, Meaning
<1> HIDE DEF k
<1>5. \A i \in 1 .. MaxChannels : channels'[i] = IF i = k THEN Closed ELSE channels[i]
  BY <1>2 DEF FileInv, Types, TypeOK
<1>6. OpenIds' = OpenIds \ {k}
  BY <1>1, <1>5, ClosedChannel DEF OpenIds
<1>7. OpenFiles' = Promise!Without(OpenFiles, k)
  <2>1. \A i \in OpenIds \ {k} : channels'[i] = channels[i]
    BY <1>5 DEF OpenIds
  <2>2. OpenFiles' = [i \in OpenIds \ {k} |-> OpenFiles[i]]
    BY <1>6, <2>1 DEF OpenFiles
  <2>3. DOMAIN OpenFiles = OpenIds
    BY DEF OpenFiles
  <2> QED
    BY <2>2, <2>3 DEF Promise!Without
<1>8. Last' = {}
  <2>1. CASE c = FalseId
    <3>1. active_channel_id' = k
      BY <1>2, <2>1 DEF k, Named
    <3> QED
      BY <1>6, <3>1 DEF Last
  <2>2. CASE c # FalseId
    <3>1. active_channel_id' = FalseId /\ FalseId \notin OpenIds
      BY <1>2, <2>2, ChannelAssumption DEF OpenIds
    <3> QED
      BY <1>6, <3>1 DEF Last
  <2> QED
    BY <2>1, <2>2
<1>9. ASSUME NEW f \in File, dir[f] # 0
      PROVE  FileContent(f)' = FileContent(f)
  <2>0. dir'[f] = dir[f] /\ dir[f] \in Node
    BY <1>2, <1>9 DEF FileInv, Types, TypeOK, Node
  <2>1. CASE dir[f] = channels[k].fp
    <3>1. FileContent(f) = Current(k)
      BY <1>1, <1>9, <2>1, FilesShown DEF Shown, Current
    <3>2. data'[dir'[f]] = Current(k)
      BY <1>1, <1>2, <2>0, <2>1 DEF k
    <3>3. CASE \E i \in 1 .. MaxChannels : channels'[i].fp = dir'[f]
      <4>1. PICK i \in 1 .. MaxChannels : channels'[i].fp = dir'[f]
        BY <3>3
      <4>2. i # k /\ channels'[i] = channels[i] /\ channels[i].fp = channels[k].fp
        BY <1>5, <1>9, <2>0, <2>1, <4>1, ClosedChannel
      <4>3. channels[i].buffer = NoBytes
        BY <1>1, <1>9, <2>1, <4>2 DEF FileInv, Links, Types, Buffered
      <4>4. FileContent(f)' = Effective(data'[dir'[f]], channels'[i])
        BY <1>9, <2>0, <4>1, ShownThen
      <4> QED
        BY <3>1, <3>2, <4>2, <4>3, <4>4 DEF Effective
    <3>4. CASE \A i \in 1 .. MaxChannels : channels'[i].fp # dir'[f]
      <4>1. FileContent(f)' = data'[dir'[f]]
        BY <1>9, <2>0, <3>4, ShownThen
      <4> QED
        BY <3>1, <3>2, <4>1
    <3> QED
      BY <3>3, <3>4
  <2>2. CASE dir[f] # channels[k].fp
    <3>1. data'[dir'[f]] = data[dir[f]]
      BY <1>1, <1>2, <2>0, <2>2 DEF k
    <3>2. CASE \E i \in 1 .. MaxChannels : channels[i].fp = dir[f]
      <4>1. PICK i \in 1 .. MaxChannels : channels[i].fp = dir[f]
        BY <3>2
      <4>2. channels'[i] = channels[i]
        BY <1>5, <2>2, <4>1
      <4>3. FileContent(f) = Effective(data[dir[f]], channels[i])
        BY <1>9, <4>1, FilesShown DEF Shown
      <4>4. FileContent(f)' = Effective(data'[dir'[f]], channels'[i])
        BY <1>9, <2>0, <4>1, <4>2, ShownThen
      <4> QED
        BY <3>1, <4>2, <4>3, <4>4
    <3>3. CASE \A i \in 1 .. MaxChannels : channels[i].fp # dir[f]
      <4>1. \A i \in 1 .. MaxChannels : channels'[i].fp # dir'[f]
        BY <1>5, <1>9, <2>0, <3>3, ClosedChannel
      <4>2. FileContent(f) = data[dir[f]]
        BY <1>9, <3>3, FilesShown DEF Shown
      <4>3. FileContent(f)' = data'[dir'[f]]
        BY <1>9, <2>0, <4>1, ShownThen
      <4> QED
        BY <3>1, <4>2, <4>3
    <3> QED
      BY <3>2, <3>3
  <2> QED
    BY <2>1, <2>2
<1>10. Content' = Content
  BY <1>2, <1>9 DEF Content
<1>11. Promise!Close(k)
  BY <1>3, <1>4, <1>7, <1>8, <1>10 DEF Promise!Close
<1> QED
  BY <1>11 DEF k

\* CLOSE of anything else changes nothing a program can see.
LEMMA CloseNothingRefines ==
  ASSUME FileInv, FileInv', NEW c \in Program, ~Streaming(c), Close(c)
  PROVE  Promise!Unopened
<1>1. reply'.op = "close" /\ reply'.channel = c /\ dir' = dir
  BY DEF Close, Answer, Reply, ReplyAt
<1>2. \A i \in OpenIds : ~Promise!Means(i)
  BY <1>1, Meaning
<1>3. DOMAIN OpenFiles = OpenIds
  BY DEF OpenFiles
<1>4. CASE ~Resolved(c)
  <2>1. UNCHANGED <<active_channel_id, data, channels>>
    BY <1>4 DEF Close
  <2>2. Content' = Content /\ OpenFiles' = OpenFiles /\ OpenIds' = OpenIds
    BY <1>1, <2>1, SameMapping
  <2>3. Last' = Last
    BY <2>1, <2>2 DEF Last
  <2> QED
    BY <1>1, <1>2, <1>3, <2>2, <2>3 DEF Promise!Unopened
<1>5. CASE Resolved(c)
  <2>1. PICK k \in 1 .. MaxChannels : k = Named(c) /\ channels[k].fp = 0
    BY <1>5, Resolving DEF FileInv, Types, Streaming
  <2>2. channels[k].buffer = NoBytes
    BY <2>1 DEF FileInv, Types, TypeOK
  <2>3. /\ data' = Flushed(channels[k]) /\ channels' = [channels EXCEPT ![k] = Closed]
        /\ active_channel_id' = IF c = FalseId THEN active_channel_id ELSE FalseId
    BY <1>5, <2>1, CloseDoes DEF FileInv
  <2>4. data' = data
    BY <2>2, <2>3 DEF Flushed
  <2>5. \A i \in 1 .. MaxChannels :
          channels'[i] = channels[i] \/ (channels[i].fp = 0 /\ channels'[i].fp = 0)
    BY <2>1, <2>3, ClosedChannel DEF FileInv, Types, TypeOK
  <2>6. Content' = Content /\ OpenFiles' = OpenFiles /\ OpenIds' = OpenIds
    BY <1>1, <2>4, <2>5, SameMapping
  <2>7. Last' \in {Last, {}}
    <3>1. FalseId \notin OpenIds
      BY ChannelAssumption DEF OpenIds
    <3> QED
      BY <2>3, <2>6, <3>1 DEF Last
  <2> QED
    BY <1>1, <1>2, <1>3, <2>6, <2>7 DEF Promise!Unopened
<1> QED
  BY <1>4, <1>5


\* OPEN pushes a channel that was not open, on a file that is as it was or
\* empty: the channel named last must be another one.
LEMMA OpenRefines ==
  ASSUME FileInv, FileInv', NEW f \in Names, NEW access \in 0 .. 3,
         Exclusive(f, access # 0), Open(f, access), active_channel_id # FreshId
  PROVE  \E c \in 1 .. MaxChannels, g \in File : Promise!Open(c, g)
<1> DEFINE k == FreshId
           t == Target(f)
           create == access \in {1, 3}
<1>0. f \in File /\ (access # 0) \in BOOLEAN /\ TypeOK /\ (create => (access # 0))
  BY FileAssumption DEF FileInv, Types
<1>1. /\ t \in Node /\ k \in 1 .. MaxChannels /\ ~channels[k].in_use
      /\ dir' = [dir EXCEPT ![f] = t]
      /\ data' = IF create THEN [data EXCEPT ![t] = NoBytes] ELSE data
      /\ channels' = [channels EXCEPT ![k] = NewChannel(f, t, access # 0)]
      /\ reply' = [op |-> OpenOp(create), channel |-> FalseId, at |-> 0,
                   bytes |-> NoBytes, value |-> k]
      /\ active_channel_id' = active_channel_id
  BY <1>0, OpenDoes
<1>2. /\ dir[f] # 0 => t = dir[f]
      /\ dir[f] = 0 => t \in Unused
      /\ ~create => dir[f] # 0
  BY <1>0, TargetNode DEF Open, CanOpen
<1>3. PICK new :
        /\ new = NewChannel(f, t, access # 0)
        /\ new.fp = t /\ new.path = f /\ new.writable = (access # 0)
        /\ new.position = 0 /\ new.buffer = NoBytes
  <2>1. PICK writable \in BOOLEAN : writable = (access # 0)
    BY <1>0
  <2>2. NewChannel(f, t, access # 0) = NewChannel(f, t, writable)
    BY <2>1 DEF NewChannel
  <2>3. PICK new : new = NewChannel(f, t, writable)
    OBVIOUS
  <2>4. /\ new.fp = t /\ new.path = f /\ new.writable = writable
        /\ new.position = 0 /\ new.buffer = NoBytes
    BY <2>3 DEF NewChannel, Closed
  <2> QED
    BY <2>1, <2>2, <2>3, <2>4
<1>4. channels[k].fp = 0
  BY <1>0, <1>1 DEF TypeOK
<1> HIDE DEF k, t, create
<1>5. \A i \in 1 .. MaxChannels : channels'[i] = IF i = k THEN new ELSE channels[i]
  BY <1>0, <1>1, <1>3 DEF TypeOK
<1>6. \A g \in File : dir'[g] = IF g = f THEN t ELSE dir[g]
  BY <1>0, <1>1 DEF TypeOK
<1>7. t # 0
  BY <1>1 DEF Node
<1>8. \A g \in File : g # f => dir[g] # t
  BY <1>0, <1>2, <1>7 DEF Unused, InUse, FileInv, Links
<1>9. \A n \in Node : data'[n] = IF create /\ n = t THEN NoBytes ELSE data[n]
  BY <1>0, <1>1 DEF TypeOK
<1>10. k \notin OpenIds /\ OpenIds' = OpenIds \cup {k}
  BY <1>1, <1>3, <1>4, <1>5, <1>7 DEF OpenIds
<1>11. OpenFiles' = Promise!With(OpenFiles, k, [file |-> f, pos |-> 0, writable |-> (access # 0)])
  <2>1. \A i \in OpenIds : channels'[i] = channels[i] /\ i # k
    BY <1>5, <1>10 DEF OpenIds
  <2>2. channels'[k] = new
    BY <1>1, <1>5
  <2>3. DOMAIN OpenFiles = OpenIds
    BY DEF OpenFiles
  <2>4. OpenFiles' = [i \in OpenIds \cup {k} |->
                        IF i = k THEN [file |-> f, pos |-> 0, writable |-> (access # 0)]
                        ELSE OpenFiles[i]]
    <3>1. OpenFiles' = [i \in OpenIds \cup {k} |->
             [file |-> channels'[i].path, pos |-> channels'[i].position,
              writable |-> channels'[i].writable]]
      BY <1>10 DEF OpenFiles
    <3>2. \A i \in OpenIds : OpenFiles[i] =
             [file |-> channels[i].path, pos |-> channels[i].position,
              writable |-> channels[i].writable]
      BY DEF OpenFiles
    <3> QED
      BY <1>3, <2>1, <2>2, <3>1, <3>2
  <2> QED
    BY <2>3, <2>4 DEF Promise!With
<1>12. Last' = Last
  BY <1>1, <1>10 DEF Last, k
<1>13. FileContent(f)' = data'[t]
  <2>1. dir'[f] = t /\ channels'[k] = new
    BY <1>0, <1>1, <1>5, <1>6
  <2>2. FileContent(f)' = Effective(data'[dir'[f]], channels'[k])
    BY <1>0, <1>1, <1>3, <1>7, <2>1, ShownThen
  <2> QED
    BY <1>3, <2>1, <2>2 DEF Effective
<1>14. ASSUME NEW g \in File, dir[g] # 0, g # f
       PROVE  FileContent(g)' = FileContent(g)
  <2>0. dir'[g] = dir[g] /\ dir[g] \in Node /\ dir[g] # t
    BY <1>0, <1>6, <1>8, <1>14 DEF TypeOK, Node
  <2>1. data'[dir[g]] = data[dir[g]]
    BY <1>9, <2>0
  <2>2. CASE \E i \in 1 .. MaxChannels : channels[i].fp = dir[g]
    <3>1. PICK i \in 1 .. MaxChannels : channels[i].fp = dir[g]
      BY <2>2
    <3>2. channels'[i] = channels[i]
      BY <1>4, <1>5, <1>14, <3>1
    <3>3. FileContent(g) = Effective(data[dir[g]], channels[i])
      BY <1>14, <3>1, FilesShown DEF Shown
    <3>4. FileContent(g)' = Effective(data'[dir'[g]], channels'[i])
      BY <1>14, <2>0, <3>1, <3>2, ShownThen
    <3> QED
      BY <2>0, <2>1, <3>2, <3>3, <3>4
  <2>3. CASE \A i \in 1 .. MaxChannels : channels[i].fp # dir[g]
    <3>1. \A i \in 1 .. MaxChannels : channels'[i].fp # dir'[g]
      BY <1>3, <1>5, <2>0, <2>3
    <3>2. FileContent(g) = data[dir[g]]
      BY <1>14, <2>3, FilesShown DEF Shown
    <3>3. FileContent(g)' = data'[dir'[g]]
      BY <1>14, <2>0, <3>1, ShownThen
    <3> QED
      BY <2>0, <2>1, <3>2, <3>3
  <2> QED
    BY <2>2, <2>3
<1>15. DOMAIN Content = {g \in File : dir[g] # 0} /\ DOMAIN Content' = DOMAIN Content \cup {f}
       /\ Content' = [g \in DOMAIN Content' |-> FileContent(g)']
  BY <1>0, <1>6, <1>7 DEF Content
<1>16. \A g \in DOMAIN Content : g # f => Content'[g] = Content[g]
  <2> SUFFICES ASSUME NEW g \in DOMAIN Content, g # f PROVE Content'[g] = Content[g]
    OBVIOUS
  <2>1. g \in File /\ dir[g] # 0 /\ Content'[g] = FileContent(g)' /\ Content[g] = FileContent(g)
    BY <1>15 DEF Content
  <2> QED
    BY <1>14, <2>1
<1>17. Content'[f] = data'[t]
  BY <1>13, <1>15
<1>18. CASE create
  <2>1. Content'[f] = <<>>
    BY <1>1, <1>9, <1>17, <1>18 DEF NoBytes
  <2>2. Content' = Promise!With(Content, f, <<>>)
    BY <1>15, <1>16, <2>1 DEF Promise!With
  <2>3. reply'.op = "create" /\ reply'.value = k /\ access # 0
    BY <1>0, <1>1, <1>18 DEF OpenOp, create
  <2>4. k \notin DOMAIN OpenFiles
    BY <1>10 DEF OpenFiles
  <2>5. Promise!Open(k, f)
    BY <1>0, <1>11, <1>12, <2>2, <2>3, <2>4 DEF Promise!Open
  <2> QED
    BY <1>0, <1>1, <2>5
<1>19. CASE ~create
  <2>0. dir[f] # 0 /\ t = dir[f] /\ f \in DOMAIN Content
    BY <1>0, <1>2, <1>15, <1>19
  <2>1. FileContent(f) = data[t]
    <3>1. ASSUME NEW i \in 1 .. MaxChannels, channels[i].fp = dir[f]
          PROVE  FileContent(f) = data[t]
      <4>1. channels[i].in_use /\ ~channels[i].writable
        BY <1>0, <2>0, <3>1 DEF TypeOK, Exclusive
      <4>2. channels[i].buffer = NoBytes
        BY <4>1 DEF FileInv, Types, Buffered
      <4>3. FileContent(f) = Effective(data[dir[f]], channels[i])
        BY <1>0, <2>0, <3>1, FilesShown DEF Shown
      <4> QED
        BY <2>0, <4>2, <4>3 DEF Effective
    <3>2. CASE \A i \in 1 .. MaxChannels : channels[i].fp # dir[f]
      BY <1>0, <2>0, <3>2, FilesShown DEF Shown
    <3> QED
      BY <3>1, <3>2
  <2>2. Content'[f] = Content[f]
    <3>1. Content[f] = FileContent(f)
      BY <2>0 DEF Content
    <3> QED
      BY <1>1, <1>9, <1>17, <1>19, <2>1, <3>1
  <2>3. Content' = Content
    <3>1. Content = [g \in DOMAIN Content |-> Content[g]]
      BY DEF Content
    <3>2. Content' = [g \in DOMAIN Content |-> Content'[g]]
      <4>1. Content' = [g \in DOMAIN Content' |-> Content'[g]]
        BY DEF Content
      <4> QED
        BY <1>15, <2>0, <4>1
    <3>3. \A g \in DOMAIN Content : Content'[g] = Content[g]
      BY <1>16, <2>2
    <3> QED
      BY <3>1, <3>2, <3>3
  <2>4. reply'.op = "open" /\ reply'.value = k
    BY <1>1, <1>19 DEF OpenOp, create
  <2>5. k \notin DOMAIN OpenFiles
    BY <1>10 DEF OpenFiles
  <2>6. Promise!Open(k, f)
    BY <1>0, <1>11, <1>12, <2>0, <2>3, <2>4, <2>5 DEF Promise!Open
  <2> QED
    BY <1>0, <1>1, <2>6
<1> QED
  BY <1>18, <1>19

\* An OPEN that fails changes no file and no channel that is open.
LEMMA RefusalRefines ==
  ASSUME FileInv, FileInv', Refusal
  PROVE  Promise!Refused
<1>1. UNCHANGED <<dir, data, active_channel_id>>
      /\ reply'.op = "open" /\ reply'.value = FalseId
  BY DEF Refusal, OpenRefused, OpenFails, OpenNoChannel, Answer, Reply, ReplyAt
<1>2. channels' = channels
      \/ (channels' = [channels EXCEPT ![FreshId] = Closed] /\ SlotFree)
  BY DEF Refusal, OpenRefused, OpenFails, OpenNoChannel
<1>3. \A i \in 1 .. MaxChannels :
        channels'[i] = channels[i] \/ (channels[i].fp = 0 /\ channels'[i].fp = 0)
  <2>1. CASE channels' = channels
    BY <2>1
  <2>2. CASE channels' = [channels EXCEPT ![FreshId] = Closed] /\ SlotFree
    <3>1. channels[FreshId].fp = 0
      BY <2>2 DEF SlotFree, FileInv, Types, TypeOK
    <3>2. \A i \in 1 .. MaxChannels : channels'[i] = IF i = FreshId THEN Closed ELSE channels[i]
      BY <2>2 DEF FileInv, Types, TypeOK
    <3> QED
      BY <3>1, <3>2, ClosedChannel
  <2> QED
    BY <1>2, <2>1, <2>2
<1>4. Content' = Content /\ OpenFiles' = OpenFiles /\ OpenIds' = OpenIds
  BY <1>1, <1>3, SameMapping
<1>5. Last' = Last
  BY <1>1, <1>4 DEF Last
<1> QED
  BY <1>1, <1>4, <1>5 DEF Promise!Refused

\* UNLINK takes one name away, or none, from files that are not open.
LEMMA UnlinkRefines ==
  ASSUME FileInv, FileInv', NEW f \in Names, NEW removed \in BOOLEAN, Unlink(f, removed)
  PROVE  \E g \in File : Promise!Unlink(g)
<1>0. f \in File /\ f \in DOMAIN Content
  BY FileAssumption DEF Unlink, Content
<1>1. /\ UNCHANGED <<data, channels, active_channel_id>>
      /\ reply'.op = "unlink" /\ reply'.value = 0
      /\ dir' = IF removed THEN [dir EXCEPT ![f] = 0] ELSE dir
  BY DEF Unlink, Answer, Reply, ReplyAt
<1>2. OpenIds' = OpenIds /\ OpenFiles' = OpenFiles /\ Last' = Last
  BY <1>1 DEF OpenIds, OpenFiles, Last
<1>3. CASE ~removed
  <2>1. Content' = Content
    BY <1>1, <1>3, SameMapping
  <2> QED
    BY <1>0, <1>1, <1>2, <2>1, ChannelAssumption DEF Promise!Unlink
<1>4. CASE removed
  <2>1. \A g \in File : dir'[g] = IF g = f THEN 0 ELSE dir[g]
    BY <1>1, <1>4 DEF FileInv, Types, TypeOK
  <2>2. \A g \in File : g # f => FileContent(g)' = FileContent(g)
    BY <1>1, <2>1 DEF FileContent, Writers, Flushed
  <2>3. DOMAIN Content' = DOMAIN Content \ {f}
    BY <2>1 DEF Content
  <2>4. \A g \in DOMAIN Content \ {f} : Content'[g] = Content[g]
    BY <2>2, <2>3 DEF Content
  <2>5. Content' = [g \in DOMAIN Content' |-> Content'[g]]
    BY DEF Content
  <2>6. Content' = Promise!Without(Content, f)
    BY <2>3, <2>4, <2>5 DEF Promise!Without
  <2> QED
    BY <1>0, <1>1, <1>2, <2>6, ChannelAssumption DEF Promise!Unlink
<1> QED
  BY <1>3, <1>4

-----------------------------------------------------------------------------
(* The channel OPEN pushes.                                                 *)

\* The program opens fewer files than next_channel_id can count.
NoWrap == MaxOpens + 1 < IdMod

\* next_channel_id is above every channel in use, so the channel that was
\* named last, closed or not, is none that OPEN will push.
Fresh ==
  /\ \A i \in 1 .. MaxChannels : channels[i].in_use => i < next_channel_id
  /\ active_channel_id # FalseId => active_channel_id < next_channel_id

\* The ids OPEN spends go up.
LEMMA IdsGoUp ==
  ASSUME TypeOK, NoWrap, next_channel_id < MaxOpens
  PROVE  /\ next_channel_id \in Nat /\ FreshId \in Nat /\ next_channel_id <= FreshId
         /\ NextId(FreshId) = FreshId + 1
<1>1. next_channel_id \in Nat /\ MaxOpens \in Nat /\ IdMod \in Nat
  BY ChannelAssumption DEF TypeOK, Id
<1>2. \A n \in Nat : n + 1 < IdMod => NextId(n) = n + 1
  BY <1>1 DEF NextId
<1>3. FreshId \in Nat /\ next_channel_id <= FreshId /\ FreshId <= MaxOpens
  BY <1>1, <1>2 DEF FreshId, NoWrap
<1> QED
  BY <1>1, <1>2, <1>3 DEF NoWrap

\* A step that takes no slot and names no channel that is not in use.
LEMMA FreshKept ==
  ASSUME TypeOK, Fresh, next_channel_id' \in Nat, next_channel_id <= next_channel_id',
         \A i \in 1 .. MaxChannels : channels'[i].in_use => channels[i].in_use,
         \/ active_channel_id' \in {active_channel_id, FalseId}
         \/ \E i \in 1 .. MaxChannels : active_channel_id' = i /\ channels[i].in_use
  PROVE  Fresh'
<1>1. next_channel_id \in Nat /\ active_channel_id \in Nat /\ MaxChannels \in Nat
  BY ChannelAssumption DEF TypeOK, Id
<1>2. \A i \in 1 .. MaxChannels : channels'[i].in_use => i < next_channel_id'
  BY <1>1 DEF Fresh
<1>3. active_channel_id' # FalseId => active_channel_id' < next_channel_id'
  BY <1>1 DEF Fresh
<1> QED
  BY <1>2, <1>3 DEF Fresh

\* OPEN pushes an id above those in use, and never the channel named last.
LEMMA OpenKeepsFresh ==
  ASSUME NoWrap, Types, Fresh, next_channel_id < MaxOpens, NEW f \in Names, NEW access,
         Open(f, access)
  PROVE  Fresh' /\ active_channel_id # FreshId
<1>0. f \in File /\ TypeOK
  BY FileAssumption DEF Types
<1>1. /\ FreshId \in 1 .. MaxChannels
      /\ channels' = [channels EXCEPT ![FreshId] = NewChannel(f, Target(f), access # 0)]
      /\ next_channel_id' = NextId(FreshId) /\ active_channel_id' = active_channel_id
  BY <1>0, OpenDoes
<1>2. /\ next_channel_id \in Nat /\ FreshId \in Nat /\ next_channel_id <= FreshId
      /\ next_channel_id' = FreshId + 1
  BY <1>0, <1>1, IdsGoUp
<1>3. \A i \in 1 .. MaxChannels : i # FreshId => channels'[i] = channels[i]
  BY <1>0, <1>1 DEF TypeOK
<1>4. \A i \in 1 .. MaxChannels : channels'[i].in_use => i < next_channel_id'
  BY <1>2, <1>3, ChannelAssumption DEF Fresh
<1>5. active_channel_id \in Nat
  BY <1>0, ChannelAssumption DEF TypeOK, Id
<1>6. active_channel_id' # FalseId => active_channel_id' < next_channel_id'
  BY <1>1, <1>2, <1>5 DEF Fresh
<1>7. FreshId # FalseId
  BY <1>1, ChannelAssumption
<1>8. active_channel_id # FreshId
  BY <1>2, <1>5, <1>7 DEF Fresh
<1>9. Fresh'
  BY <1>4, <1>6 DEF Fresh
<1> QED
  BY <1>8, <1>9

\* Every step keeps the ids apart.
LEMMA StepKeepsFresh ==
  NoWrap /\ Types /\ Fresh /\ [Next]_vars => Fresh'
<1> SUFFICES ASSUME NoWrap, Types, Fresh, [Next]_vars PROVE Fresh'
  OBVIOUS
<1>0. TypeOK /\ next_channel_id \in Nat
  BY ChannelAssumption DEF Types, TypeOK, Id
<1>1. ASSUME NEW f \in Names, NEW access, Exclusive(f, access # 0), Open(f, access),
             next_channel_id < MaxOpens
      PROVE  Fresh'
  BY <1>1, OpenKeepsFresh
<1>2. ASSUME NEW c \in Program, Transfers(c)
      PROVE  Fresh'
  <2>1. Activated(c)
    BY <1>2, TransferActivates
  <2>2. \/ active_channel_id' \in {active_channel_id, FalseId}
        \/ \E i \in 1 .. MaxChannels : active_channel_id' = i /\ channels[i].in_use
    BY <2>1 DEF Activated, Resolved, Found
  <2>3. CASE Streaming(c)
    <3>1. PICK new : Touches(Named(c), new)
      BY <1>2, <2>3, TransferTouches
    <3>2. PICK k \in 1 .. MaxChannels : k = Named(c)
      BY <3>1 DEF Touches
    <3>3. /\ \A i \in 1 .. MaxChannels : channels'[i] = IF i = k THEN new ELSE channels[i]
          /\ new.in_use = channels[k].in_use /\ next_channel_id' = next_channel_id
      BY <1>0, <3>1, <3>2 DEF Touches, TypeOK
    <3>4. \A i \in 1 .. MaxChannels : channels'[i].in_use => channels[i].in_use
      BY <3>3
    <3> QED
      BY <1>0, <2>2, <3>3, <3>4, FreshKept
  <2>4. CASE ~Streaming(c)
    <3>1. UNCHANGED <<channels, next_channel_id>>
      BY <1>2, <2>4, TransferIdle
    <3> QED
      BY <1>0, <2>2, <3>1, FreshKept
  <2> QED
    BY <2>3, <2>4
<1>3. ASSUME NEW c \in Program, Close(c)
      PROVE  Fresh'
  <2>1. next_channel_id' = next_channel_id /\ active_channel_id' \in {active_channel_id, FalseId}
    BY <1>3 DEF Close
  <2>2. channels' = channels \/ channels' = [channels EXCEPT ![Named(c)] = Closed]
    BY <1>3 DEF Close, Released
  <2>3. \A i \in 1 .. MaxChannels : channels'[i].in_use => channels[i].in_use
    BY <1>0, <2>2, ClosedChannel DEF TypeOK
  <2> QED
    BY <1>0, <2>1, <2>3, FreshKept
<1>4. ASSUME Refusal
      PROVE  Fresh'
  <2>1. active_channel_id' = active_channel_id
        /\ next_channel_id' \in {next_channel_id, NextId(FreshId)}
        /\ next_channel_id < MaxOpens
    BY <1>4 DEF Refusal, OpenRefused, OpenFails, OpenNoChannel
  <2>2. next_channel_id' \in Nat /\ next_channel_id <= next_channel_id'
    BY <1>0, <2>1, IdsGoUp
  <2>3. channels' = channels \/ channels' = [channels EXCEPT ![FreshId] = Closed]
    BY <1>4 DEF Refusal, OpenRefused, OpenFails, OpenNoChannel
  <2>4. \A i \in 1 .. MaxChannels : channels'[i].in_use => channels[i].in_use
    BY <1>0, <2>3, ClosedChannel DEF TypeOK
  <2> QED
    BY <1>0, <2>1, <2>2, <2>4, FreshKept
<1>5. ASSUME UNCHANGED <<channels, next_channel_id, active_channel_id>>
      PROVE  Fresh'
  BY <1>5 DEF Fresh
<1>6. ASSUME NEW f \in Names, UnlinkNotFound(f) \/ \E removed \in BOOLEAN : Unlink(f, removed)
      PROVE  Fresh'
  BY <1>5, <1>6 DEF UnlinkNotFound, Unlink
<1>7. ASSUME NEW size \in RecordSizes, SetRecordSize(size)
      PROVE  Fresh'
  BY <1>5, <1>7 DEF SetRecordSize
<1>8. CASE UNCHANGED vars
  BY <1>5, <1>8 DEF vars
<1> QED
  BY <1>1, <1>2, <1>3, <1>4, <1>6, <1>7, <1>8, Instructions

\* The first OPEN pushes 2.
LEMMA InitFresh ==
  Init => Fresh
<1> SUFFICES ASSUME Init PROVE Fresh
  OBVIOUS
<1>1. PICK fp \in {0, 1} :
        channels = [i \in 1 .. MaxChannels |->
                      IF i = 1 THEN [Closed EXCEPT !.in_use = TRUE, !.fp = fp] ELSE Closed]
  BY DEF Init
<1>2. \A i \in 1 .. MaxChannels : i # 1 => channels[i] = Closed
  BY <1>1
<1> QED
  BY <1>2, ClosedChannel DEF Fresh, Init

\* The ids stay apart.
LEMMA ChannelsFresh ==
  ASSUME NoWrap
  PROVE  DisciplinedSpec => []Fresh
<1>1. FileInv /\ Fresh /\ [Next /\ KeepsRules]_vars => Fresh'
  BY StepKeepsFresh DEF FileInv
<1> QED
  BY <1>1, InitFresh, FilesInvariant, PTL DEF DisciplinedSpec

-----------------------------------------------------------------------------
(* The refinement.                                                          *)

\* The machine starts where Files starts.
LEMMA InitRefines ==
  Init /\ FileInv => Promise!Init
<1> SUFFICES ASSUME Init, FileInv PROVE Promise!Init
  OBVIOUS
<1>1. DOMAIN Content \subseteq File
  BY DEF Content
<1>2. ASSUME NEW f \in DOMAIN Content
      PROVE  Content[f] \in Seq(Byte)
  <2>1. f \in File /\ dir[f] # 0 /\ Content[f] = FileContent(f)
    BY <1>2 DEF Content
  <2>2. dir[f] \in Node /\ data[dir[f]] \in Seq(Byte)
    BY <2>1 DEF FileInv, Types, TypeOK, Node
  <2>3. ASSUME NEW i \in 1 .. MaxChannels, channels[i].fp = dir[f]
        PROVE  FileContent(f) \in Seq(Byte)
    BY <2>1, <2>3, FilesShown, FlushedFile DEF Shown, FileInv, Types
  <2>4. (\A i \in 1 .. MaxChannels : channels[i].fp # dir[f]) => FileContent(f) \in Seq(Byte)
    BY <2>1, <2>2, FilesShown DEF Shown
  <2> QED
    BY <2>1, <2>3, <2>4
<1>3. DOMAIN OpenFiles \subseteq 1 .. MaxChannels
  BY DEF OpenFiles, OpenIds
<1>4. ASSUME NEW c \in DOMAIN OpenFiles
      PROVE  OpenFiles[c].file \in DOMAIN Content /\ OpenFiles[c].pos = 0
  <2>1. c \in OpenIds
    BY DEF OpenFiles
  <2>2. /\ channels[c].path \in DOMAIN Content /\ c \in 1 .. MaxChannels
        /\ OpenFiles[c] = [file |-> channels[c].path, pos |-> channels[c].position,
                           writable |-> channels[c].writable]
    BY <2>1, OpenChannel
  <2>3. channels[c].position = 0
    BY <2>2 DEF Init, Closed
  <2> QED
    BY <2>2, <2>3
<1>5. Last = {}
  BY ChannelAssumption DEF Init, Last, OpenIds
<1> QED
  BY <1>1, <1>2, <1>3, <1>4, <1>5 DEF Promise!Init

\* Every step is a step of Files, or none.
LEMMA StepRefines ==
  NoWrap /\ FileInv /\ FileInv' /\ Fresh /\ [Next]_vars => [Promise!Next]_(Promise!vars)
<1> SUFFICES ASSUME NoWrap, FileInv, FileInv', Fresh, [Next]_vars
             PROVE  [Promise!Next]_(Promise!vars)
  OBVIOUS
<1>1. ASSUME NEW f \in Names, NEW access \in 0 .. 3, Exclusive(f, access # 0), Open(f, access),
             next_channel_id < MaxOpens
      PROVE  Promise!Next
  <2>1. active_channel_id # FreshId
    BY <1>1, OpenKeepsFresh DEF FileInv
  <2>2. \E c \in 1 .. MaxChannels, g \in File : Promise!Open(c, g)
    BY <1>1, <2>1, OpenRefines
  <2> QED
    BY <2>2 DEF Promise!Next
<1>2. ASSUME NEW c \in Program, Transfers(c)
      PROVE  Promise!Next
  <2>1. Promise!Unopened \/ \E k \in DOMAIN OpenFiles : Promise!Transfer(k)
    BY <1>2, TransferRefines
  <2> QED
    BY <2>1 DEF Promise!Next
<1>3. ASSUME NEW c \in Program, Close(c)
      PROVE  Promise!Next
  <2>1. CASE Streaming(c)
    <3>1. Promise!Close(Named(c))
      BY <1>3, <2>1, CloseStreamRefines
    <3>2. Named(c) \in DOMAIN OpenFiles
      BY <2>1, StreamFacts DEF FileInv, OpenIds, OpenFiles
    <3> QED
      BY <3>1, <3>2 DEF Promise!Next
  <2>2. CASE ~Streaming(c)
    <3>1. Promise!Unopened
      BY <1>3, <2>2, CloseNothingRefines
    <3> QED
      BY <3>1 DEF Promise!Next
  <2> QED
    BY <2>1, <2>2
<1>4. ASSUME Refusal
      PROVE  Promise!Next
  BY <1>4, RefusalRefines DEF Promise!Next
<1>5. ASSUME NEW f \in Names, UnlinkNotFound(f)
      PROVE  Promise!Next
  <2>1. UNCHANGED <<dir, data, channels, active_channel_id>>
        /\ reply'.op = "unlink" /\ reply'.value = FalseId
    BY <1>5 DEF UnlinkNotFound, Answer, Reply, ReplyAt
  <2>2. Content' = Content /\ OpenFiles' = OpenFiles /\ OpenIds' = OpenIds
    BY <2>1, SameMapping
  <2>3. Last' = Last
    BY <2>1, <2>2 DEF Last
  <2>4. Promise!Refused
    BY <2>1, <2>2, <2>3 DEF Promise!Refused
  <2> QED
    BY <2>4 DEF Promise!Next
<1>6. ASSUME NEW f \in Names, NEW removed \in BOOLEAN, Unlink(f, removed)
      PROVE  Promise!Next
  <2>1. \E g \in File : Promise!Unlink(g)
    BY <1>6, UnlinkRefines
  <2> QED
    BY <2>1 DEF Promise!Next
<1>7. ASSUME UNCHANGED <<dir, data, channels, active_channel_id, reply>>
      PROVE  UNCHANGED Promise!vars
  <2>1. Content' = Content /\ OpenFiles' = OpenFiles /\ OpenIds' = OpenIds
    BY <1>7, SameMapping
  <2>2. Last' = Last
    BY <1>7, <2>1 DEF Last
  <2> QED
    BY <1>7, <2>1, <2>2 DEF Promise!vars
<1>8. ASSUME NEW size \in RecordSizes, SetRecordSize(size)
      PROVE  UNCHANGED Promise!vars
  BY <1>7, <1>8 DEF SetRecordSize
<1>9. CASE UNCHANGED vars
  BY <1>7, <1>9 DEF vars
<1> QED
  BY <1>1, <1>2, <1>3, <1>4, <1>5, <1>6, <1>8, <1>9, Instructions

\* A program that opens no file it writes twice, keeps the names of the files
\* it has open, transfers records of an even size and opens fewer files than
\* next_channel_id can count reads back what it wrote, by stream or record,
\* before and after CLOSE.
THEOREM KeepsFiles ==
  ASSUME NoWrap
  PROVE  DisciplinedSpec => ImplementsFiles
<1>1. Init /\ FileInv => Promise!Init
  BY InitRefines
<1>2. FileInv /\ FileInv' /\ Fresh /\ [Next /\ KeepsRules]_vars => [Promise!Next]_(Promise!vars)
  BY StepRefines
<1>3. DisciplinedSpec => []FileInv
  BY FilesInvariant
<1>4. DisciplinedSpec => []Fresh
  BY ChannelsFresh
<1> QED
  BY <1>1, <1>2, <1>3, <1>4, PTL DEF DisciplinedSpec, ImplementsFiles, Promise!Spec
=============================================================================
