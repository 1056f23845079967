-------------------------- MODULE Lp128PlainMemory --------------------------
(***************************************************************************)
(* The heap of the POSIX build of Linchpin128: a flat array of bytes (the  *)
(* #else branches of lp128_run.c).  A step serves one request of the       *)
(* bytecode, named in `op`, and leaves its answer in `out`.                *)
(***************************************************************************)
EXTENDS Lp128Addresses

VARIABLES
  ram,      \* vm->ram
  op,       \* the request
  out,      \* what was read, or the number of bytes a record had
  halted    \* is_halted

vars == <<ram, op, out, halted>>

\* vm_read_byte and vm_read_word: n is 1 or 2.
Read(at, n) ==
  /\ out' = IF at + n <= HeapBytes THEN [i \in 1 .. n |-> ram[at + i - 1]]
                                   ELSE [i \in 1 .. n |-> Zero]
  /\ UNCHANGED ram

\* vm_write_byte and vm_write_word, n times.
Fill(at, n, cell) == ram' = Filled(ram, at, n, cell) /\ out' = <<>>

\* vm_zero_bytes
Clear(at, n) ==
  /\ ram' = IF at + n <= HeapBytes THEN Stored(ram, at, [i \in 1 .. n |-> Zero]) ELSE ram
  /\ out' = <<>>

\* vm_move_bytes: memmove.
Move(dst, src, n) ==
  /\ ram' = IF dst + n <= HeapBytes /\ src + n <= HeapBytes
              THEN Stored(ram, dst, [i \in 1 .. n |-> ram[src + i - 1]]) ELSE ram
  /\ out' = <<>>

\* The memcpy and memset of READREC on channel 1.  They do not look at the end
\* of the array: of a program that writes past it C says nothing.
Record(at, words, record, raw) ==
  LET start == RecordStart(record, raw, LongMod)
      copied == Transferred(start, ByteCount(words, raw, LongMod) % LongMod)
      asked == Asked(words, raw, LongMod)
      n == IF copied < asked THEN asked ELSE copied
  IN \/ /\ at + n <= HeapBytes
        /\ ram' = Stored(ram, at, Padded(ImageBytes(start, copied), n))
        /\ out' = <<copied>> /\ UNCHANGED halted
     \/ at + n > HeapBytes /\ ram' \in [DOMAIN ram -> Byte] /\ halted' \in BOOLEAN

\* READREC on a file: this build has none, and so says only what the other
\* one should do, which is to store the bytes it got and zeroes after them,
\* those of them that fall into the array.
FileRecord(at, bytes, count) ==
  /\ ram' = Stored(ram, at, Padded(bytes, count))
  /\ out' = <<Len(bytes)>>

Init ==
  /\ ram = [x \in 0 .. HeapBytes - 1 |-> Zero]
  /\ op = [call |-> "none"] /\ out = <<>> /\ halted = FALSE

Next ==
  /\ ~halted
  /\ \/ op'.call = "read" /\ Read(op'.at, op'.n) /\ UNCHANGED halted
     \/ op'.call = "fill" /\ Fill(op'.at, op'.n, op'.cell) /\ UNCHANGED halted
     \/ op'.call = "clear" /\ Clear(op'.at, op'.n) /\ UNCHANGED halted
     \/ op'.call = "move" /\ Move(op'.dst, op'.src, op'.n) /\ UNCHANGED halted
     \/ op'.call = "record" /\ Record(op'.at, op'.words, op'.record, op'.raw)
     \/ op'.call = "file" /\ FileRecord(op'.at, op'.bytes, op'.n) /\ UNCHANGED halted
     \/ op'.call = "none" /\ UNCHANGED <<ram, halted>> /\ out' \in {<<>>, <<0>>}
     \/ op'.call = "halt" /\ halted' /\ UNCHANGED ram /\ out' = <<>>

Spec == Init /\ [][Next]_vars
=============================================================================
