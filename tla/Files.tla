------------------------------- MODULE Files -------------------------------
(***************************************************************************)
(* What the file services of section 8.1 of doc/vm-specification.md        *)
(* promise a program that opens a file it writes on one channel at a time: *)
(* every write is there for the next read, through whichever channel and   *)
(* by stream or by record, also after CLOSE; a stream transfer goes on     *)
(* where the last one on its channel ended.                                *)
(***************************************************************************)
EXTENDS Integers, Sequences

CONSTANTS
  File,      \* names
  Byte, Zero,
  Channel,   \* what OPEN may push
  FalseId    \* as a channel, the one named last; pushed, that no file was found

VARIABLES
  content,   \* the files that exist and their bytes
  open,      \* the open channels: [file, pos, writable]
  last,      \* the channel named last, if it is still open: at most one
  reply      \* an instruction: what it was asked, the bytes it read, the word it pushed

vars == <<content, open, last, reply>>

\* The n bytes of d after the first `at`, and zeroes beyond the end of d.
Padded(d, at, n) == [i \in 1 .. n |-> IF at + i <= Len(d) THEN d[at + i] ELSE Zero]
Available(d, at, n) == IF at + n <= Len(d) THEN n ELSE IF at < Len(d) THEN Len(d) - at ELSE 0

\* d with bs over the bytes after the first `at`, extended with zeroes.
Overlaid(d, at, bs) ==
  IF bs = <<>> THEN d
  ELSE [i \in 1 .. (IF Len(d) > at + Len(bs) THEN Len(d) ELSE at + Len(bs)) |->
          IF i > at /\ i <= at + Len(bs) THEN bs[i - at]
          ELSE IF i <= Len(d) THEN d[i] ELSE Zero]

With(f, x, y) == [g \in DOMAIN f \cup {x} |-> IF g = x THEN y ELSE f[g]]
Without(f, x) == [g \in DOMAIN f \ {x} |-> f[g]]
Data(c) == content[open[c].file]

\* A channel that is not open, on a file that is left as it is or emptied.
Open(c, f) ==
  /\ reply'.value = c /\ c \notin DOMAIN open
  /\ \/ reply'.op = "open" /\ f \in DOMAIN content /\ UNCHANGED content
     \/ reply'.op = "create" /\ content' = With(content, f, <<>>)
  /\ \E writable \in BOOLEAN :
       /\ reply'.op = "create" => writable
       /\ open' = With(open, c, [file |-> f, pos |-> 0, writable |-> writable])
  /\ UNCHANGED last

\* The file may stay where it is, and the program is not told.
Unlink(f) ==
  /\ reply'.op = "unlink" /\ reply'.value # FalseId
  /\ f \in DOMAIN content /\ content' \in {content, Without(content, f)}
  /\ UNCHANGED <<open, last>>

\* OPEN or UNLINK pushes FALSE, and nothing has happened.
Refused ==
  /\ reply'.op \in {"open", "unlink"} /\ reply'.value = FalseId
  /\ UNCHANGED <<content, open, last>>

Means(c) == reply'.channel = c \/ (reply'.channel = FalseId /\ last = {c})

\* No file is open on the channel that is named: reads find zeroes.
Unopened ==
  /\ reply'.op \in {"close", "read", "write", "readrec", "writerec", "fsize"}
  /\ \A c \in DOMAIN open : ~Means(c)
  /\ reply'.op \in {"read", "readrec"} =>
       reply'.bytes = Padded(<<>>, 0, Len(reply'.bytes))
  /\ UNCHANGED <<content, open>> /\ last' \in {last, {}}

Close(c) ==
  /\ reply'.op = "close" /\ Means(c)
  /\ open' = Without(open, c) /\ last' = {}
  /\ UNCHANGED content

Read(c, n) ==
  LET got == Available(Data(c), open[c].pos, n) IN
    /\ reply'.op = "read"
    /\ reply'.bytes = Padded(Data(c), open[c].pos, n)
    /\ (reply'.value = 0) <=> (got = n)
    /\ open' = [open EXCEPT ![c].pos = @ + got]
    /\ UNCHANGED content

\* A channel opened only to read takes no bytes, and the program is not told.
Taken(c, bs) == IF open[c].writable THEN bs ELSE <<>>

Write(c, bs) ==
  /\ reply'.op = "write" /\ reply'.value = 0
  /\ open' = [open EXCEPT ![c].pos = @ + Len(Taken(c, bs))]
  /\ content' = [content EXCEPT ![open[c].file] = Overlaid(@, open[c].pos, Taken(c, bs))]

ReadAt(c, at, n) ==
  /\ reply'.op = "readrec" /\ reply'.value = Available(Data(c), at, n)
  /\ reply'.bytes = Padded(Data(c), at, n)
  /\ UNCHANGED <<content, open>>

WriteAt(c, at, bs) ==
  /\ reply'.op = "writerec" /\ reply'.value = Len(bs)
  /\ content' = [content EXCEPT ![open[c].file] = Overlaid(@, at, Taken(c, bs))]
  /\ UNCHANGED open

Size(c) == reply'.op = "fsize" /\ UNCHANGED <<content, open>>

\* A transfer makes its channel the one named last.
Transfer(c) ==
  /\ Means(c) /\ last' = {c}
  /\ LET bs == reply'.bytes IN
       \/ Read(c, Len(bs)) \/ ReadAt(c, reply'.at, Len(bs))
       \/ Write(c, bs) \/ WriteAt(c, reply'.at, bs)
       \/ Size(c)

Init ==
  /\ DOMAIN content \subseteq File
  /\ \A f \in DOMAIN content : content[f] \in Seq(Byte)
  /\ DOMAIN open \subseteq Channel
  /\ \A c \in DOMAIN open : open[c].file \in DOMAIN content /\ open[c].pos = 0
  /\ last = {}

Next ==
  \/ \E c \in Channel, f \in File : Open(c, f)
  \/ \E f \in File : Unlink(f)
  \/ Refused \/ Unopened
  \/ \E c \in DOMAIN open : Close(c) \/ Transfer(c)

Spec == Init /\ [][Next]_vars
=============================================================================
