---------------------------- MODULE Lp128Bundle ----------------------------
(***************************************************************************)
(* The bundle loader of the C128 build (lp128_bundle.c, lp128_reu.c): one  *)
(* pass over a file that is read a few bytes at a time, its small tables   *)
(* into memory, its large sections on into the REU.  An action is a call   *)
(* of c128_read_bytes with what the loader does with the answer.           *)
(***************************************************************************)
EXTENDS Lp128Pack

CONSTANTS
  Disks,        \* files on the disk: a bundle, and where the drive lets it down
  Board,        \* REUs: "plain", "mode" (wants command bits 0xB0) or "none"
  Chunk, SkipChunk,   \* chunk_buf, skip_buf
  HeapBytes,    \* REU_CODE_PAGES_OFFSET: the heap comes first
  ReuBytes,     \* bound: the bytes of the REU
  ReuAlign,     \* 0x100
  ProbeAt,      \* the address reu_self_test writes to
  MaxSections, MaxModules, MaxExports, MaxInitializers, MaxLayout,
  Dirty, Junk   \* a byte of the REU before, a byte after the end of a file

\* BuildSections: the order of the sections, the last of which may be missing
Kinds == <<"summary", "modules", "exports", "initializers", "globals", "ram",
           "code", "rodata">>

\* What LP128Pack writes, at whatever offsets: tables of whole records, an export
\* for the entry, and RAM whose words are counted in a word.
FormOk(b) ==
  /\ b.sections \in Seq([kind : {Kinds[i] : i \in 1 .. 8}, offset : Nat, length : Nat])
  /\ Len(b.sections) \in {7, 8}
  /\ \A i \in 1 .. Len(b.sections) : b.sections[i].kind = Kinds[i]
  /\ b.modules \in Seq([start : Nat]) /\ b.words \in Seq(Nat)
  /\ b.sections[2].length = ModuleBytes * Len(b.modules)
  /\ b.sections[3].length > 0 /\ b.sections[3].length % ExportBytes = 0
  /\ b.sections[4].length % InitializerBytes = 0
  /\ b.sections[5].length = 2 * Len(b.words)
  /\ b.sections[6].length <= HeapBytes
  /\ b.length = b.sections[Len(b.sections)].offset + b.sections[Len(b.sections)].length

\* A disk has the first `present` bytes of the bundle, and its drive stops
\* answering before byte `bad`.
ASSUME BundleAssumption ==
  /\ \A d \in Disks : FormOk(d.bundle) /\ d.present \in 0 .. d.bundle.length /\ d.bad \in Nat
  /\ Board \subseteq {"plain", "mode", "none"}
  /\ Chunk \in Nat \ {0} /\ SkipChunk \in Nat \ {0} /\ ReuAlign \in Nat \ {0}
  /\ ProbeAt \in Nat /\ HeapBytes \in Nat /\ ReuBytes \in Nat
  /\ ProbeAt + 1 < HeapBytes /\ HeapBytes < ReuBytes
  /\ {MaxSections, MaxModules, MaxExports, MaxInitializers, MaxLayout} \subseteq Nat
  /\ ModuleBytes > 1   \* a read that has met the end of the file brings one byte

VARIABLES
  disk, board,  \* the environment
  pos,          \* bytes the drive has delivered
  stage,        \* where lp128_bundle_load is, or the outcome
  entry,        \* i, from 0 in the directory and from 1 in the sections
  file_pos,
  remain,       \* bytes of the section still to come
  rpos,         \* where in the REU they go
  reu,
  info          \* the fields of lp128_bundle

loadVars == <<disk, board, pos, stage, entry, file_pos, remain, rpos, reu, info>>

bundle == disk.bundle
Count == Len(bundle.sections)
section == bundle.sections[entry]
NoInfo == [modules |-> <<>>, words |-> <<>>, exports |-> 0, exports_at |-> 0,
           initializers |-> 0, initializers_at |-> 0, ram |-> 0, code |-> 0,
           rodata |-> 0, rodata_at |-> 0]

LoadTypeOK ==
  /\ disk \in Disks /\ board \in Board
  /\ pos \in 0 .. disk.present
  /\ stage \in {"header", "directory", "test", "gap", "section", "loaded",
               "ready", "refused", "failed"}
  /\ entry \in 0 .. Count + 1 /\ file_pos \in Nat /\ remain \in Nat
  /\ rpos \in 0 .. ReuBytes
  /\ DOMAIN reu = 0 .. ReuBytes - 1
  /\ DOMAIN info = DOMAIN NoInfo

LoadInit ==
  /\ disk \in Disks /\ board \in Board
  /\ pos = 0 /\ stage = "header" /\ entry = 0 /\ file_pos = 0 /\ remain = 0 /\ rpos = 0
  /\ reu = [a \in 0 .. ReuBytes - 1 |-> Dirty]
  /\ info = NoInfo

-----------------------------------------------------------------------------
(* The drive and the REU.                                                   *)

Least(m, n) == IF m < n THEN m ELSE n

\* c128_read_bytes for n bytes.  The status that comes with a byte ends it: EOF
\* after the last byte, and after the one that is read beyond the end.  An error
\* comes after the bytes that the drive still delivered.
Received(n) ==
  LET count == IF pos >= disk.present THEN 1 ELSE Least(n, disk.present - pos) IN
    [error |-> pos + count > disk.bad,
     count |-> IF pos + count > disk.bad THEN disk.bad - pos ELSE count,
     bytes |-> [k \in 1 .. count |-> IF pos + k <= disk.present THEN pos + k - 1 ELSE Junk]]

\* Variant of Lost: the loops do not look at what the read returned.
NeverLost(r) == FALSE

\* The loops of the loader give up when c128_read_bytes says -1.
Lost(r) == r.error

\* Variant of Advance: the end of the file is not looked at.
AdvanceFreely(r) == pos' = pos + r.count

Advance(r) == pos' = Least(pos + r.count, disk.present)

\* Variant of Short: only an error of the drive is taken for a failure.
LostOnly(r, n) == r.error

\* Records must come in one piece.
Short(r, n) == r.error \/ r.count # n

\* reu_store
Written(mem, at, bytes) ==
  [a \in DOMAIN mem |-> IF a - at + 1 \in DOMAIN bytes THEN bytes[a - at + 1] ELSE mem[a]]

Fail == stage' = "failed" /\ UNCHANGED <<disk, board, pos, entry, file_pos, remain, rpos, reu, info>>

-----------------------------------------------------------------------------
(* The header, the directory and the self-test.                             *)

ReadHeader ==
  /\ stage = "header"
  /\ LET r == Received(HeaderBytes) IN
       IF Short(r, HeaderBytes) \/ bundle.header # "good" \/ Count > MaxSections THEN Fail
       ELSE /\ Advance(r) /\ stage' = "directory"
            /\ UNCHANGED <<disk, board, entry, file_pos, remain, rpos, reu, info>>

ReadEntry ==
  /\ stage = "directory"
  /\ IF entry = Count
       THEN stage' = "test" /\ UNCHANGED <<disk, board, pos, entry, file_pos, remain, rpos, reu, info>>
       ELSE LET r == Received(EntryBytes) IN
            IF Short(r, EntryBytes) THEN Fail
            ELSE /\ Advance(r) /\ entry' = entry + 1
                 /\ UNCHANGED <<disk, board, stage, file_pos, remain, rpos, reu, info>>

\* Variant of CodeSize: the code is forgotten.
NoCode == 0

CodeSize ==
  LET pages == {i \in 1 .. Count : bundle.sections[i].kind = "code"} IN
    IF pages = {} THEN 0
    ELSE bundle.sections[CHOOSE i \in pages : \A j \in pages : i <= j].length

\* reu_self_test leaves its two bytes behind.  The exports go after the code.
SelfTest ==
  /\ stage = "test"
  /\ IF board = "none" THEN Fail
     ELSE /\ reu' = Written(reu, ProbeAt, <<Junk, Junk>>)
          /\ info' = [info EXCEPT !.exports_at = AlignUp(HeapBytes + CodeSize, ReuAlign)]
          /\ file_pos' = HeaderBytes + Count * EntryBytes
          /\ entry' = 1 /\ stage' = "gap"
          /\ UNCHANGED <<disk, board, pos, remain, rpos>>

-----------------------------------------------------------------------------
(* The sections.                                                            *)

OutOfOrder == stage = "gap" /\ entry <= Count /\ section.offset < file_pos /\ Fail

SkipGap ==
  /\ stage = "gap" /\ entry <= Count /\ section.offset > file_pos
  /\ LET r == Received(Least(SkipChunk, section.offset - file_pos)) IN
       IF Lost(r) THEN Fail
       ELSE /\ Advance(r) /\ file_pos' = file_pos + r.count
            /\ UNCHANGED <<disk, board, stage, entry, remain, rpos, reu, info>>

Records(bytes) == section.length \div bytes

TooMany ==
  CASE section.kind = "modules" -> Records(ModuleBytes) > MaxModules
    [] section.kind = "exports" -> Records(ExportBytes) > MaxExports
    [] section.kind = "initializers" -> Records(InitializerBytes) > MaxInitializers
    [] section.kind = "globals" -> Records(2) > MaxLayout
    [] OTHER -> FALSE

\* The read-only data go to the first page that the initializers leave free.
RoDataAt ==
  AlignUp(info.initializers_at + info.initializers * InitializerBytes, ReuAlign)

\* Where a section goes in the REU; the tables in memory go nowhere.
Place ==
  CASE section.kind = "exports" -> info.exports_at
    [] section.kind = "initializers" -> info.initializers_at
    [] section.kind = "ram" -> 0
    [] section.kind = "code" -> HeapBytes
    [] section.kind = "rodata" -> RoDataAt
    [] OTHER -> 0

Noted ==
  CASE section.kind = "exports" -> [info EXCEPT !.exports = Records(ExportBytes)]
    [] section.kind = "initializers" ->
         [info EXCEPT !.initializers = Records(InitializerBytes)]
    [] section.kind = "ram" -> [info EXCEPT !.ram = section.length]
    [] section.kind = "code" -> [info EXCEPT !.code = section.length]
    [] section.kind = "rodata" -> [info EXCEPT !.rodata = section.length, !.rodata_at = RoDataAt]
    [] OTHER -> info

NextSection ==
  /\ entry' = entry + 1 /\ stage' = "gap"
  /\ UNCHANGED <<disk, board, pos, remain, rpos, reu>>

BeginSection ==
  /\ stage = "gap" /\ entry <= Count /\ section.offset = file_pos
  /\ IF section.length = 0 THEN NextSection /\ UNCHANGED <<file_pos, info>>
     ELSE IF TooMany THEN Fail
     ELSE /\ stage' = "section" /\ remain' = section.length /\ rpos' = Place
          /\ info' = Noted
          /\ UNCHANGED <<disk, board, pos, entry, file_pos, reu>>

\* One record of the module table or one word of the global layout.
ReadRecord(kind, size, field, records) ==
  /\ stage = "section" /\ section.kind = kind /\ remain >= size
  /\ LET r == Received(size)
         n == Len(info[field]) + 1
     IN  IF Short(r, size) THEN Fail
         ELSE /\ Advance(r) /\ remain' = remain - size
              /\ info' = [info EXCEPT ![field] =
                   Append(@, IF r.bytes = [k \in 1 .. size |-> section.offset + (n - 1) * size + k - 1]
                             THEN records[n] ELSE Junk)]
              /\ UNCHANGED <<disk, board, stage, entry, file_pos, rpos, reu>>

\* A piece of a large section, by way of chunk_buf.
StreamChunk ==
  /\ stage = "section" /\ remain > 0
  /\ section.kind \in {"exports", "initializers", "ram", "code", "rodata"}
  /\ LET r == Received(Least(Chunk, remain)) IN
       IF Lost(r) THEN Fail
       ELSE /\ Advance(r) /\ reu' = Written(reu, rpos, r.bytes)
            /\ rpos' = rpos + r.count /\ remain' = remain - r.count
            /\ UNCHANGED <<disk, board, stage, entry, file_pos, info>>

\* A section of another kind is read past; an error only ends the reading.
SkipSection ==
  /\ stage = "section" /\ remain > 0 /\ section.kind = "summary"
  /\ LET r == Received(Least(SkipChunk, remain)) IN
       /\ Advance(r) /\ remain' = IF r.error THEN 0 ELSE remain - r.count
       /\ UNCHANGED <<disk, board, stage, entry, file_pos, rpos, reu, info>>

EndSection ==
  /\ stage = "section" /\ remain = 0
  /\ file_pos' = file_pos + section.length
  /\ info' = IF section.kind = "exports"
               THEN [info EXCEPT !.initializers_at = info.exports_at + info.exports * ExportBytes]
               ELSE info
  /\ NextSection

EndOfSections ==
  /\ stage = "gap" /\ entry = Count + 1 /\ stage' = "loaded"
  /\ UNCHANGED <<disk, board, pos, entry, file_pos, remain, rpos, reu, info>>

LoadNext ==
  \/ ReadHeader \/ ReadEntry \/ SelfTest
  \/ OutOfOrder \/ SkipGap \/ BeginSection
  \/ ReadRecord("modules", ModuleBytes, "modules", bundle.modules)
  \/ ReadRecord("globals", 2, "words", bundle.words)
  \/ StreamChunk \/ SkipSection \/ EndSection \/ EndOfSections

-----------------------------------------------------------------------------
(* What the loader should do: the POSIX build reads whole sections.         *)

\* load_section: a section that is not all there is an error.
PosixLoads ==
  /\ bundle.header = "good"
  /\ HeaderBytes + Count * EntryBytes <= disk.present
  /\ \A i \in 1 .. Count :
       LET s == bundle.sections[i]
           before == IF i = 1 THEN HeaderBytes + Count * EntryBytes
                     ELSE bundle.sections[i - 1].offset + bundle.sections[i - 1].length
       IN  s.offset >= before /\ s.offset + s.length <= disk.present

\* The limits of the static tables of the C128 build.
WithinLimits ==
  /\ Count <= MaxSections /\ Len(bundle.words) <= MaxLayout
  /\ Len(bundle.modules) <= MaxModules
  /\ \A i \in 1 .. Count :
       LET s == bundle.sections[i] IN
         /\ s.kind = "exports" => s.length <= MaxExports * ExportBytes
         /\ s.kind = "initializers" => s.length <= MaxInitializers * InitializerBytes

\* What is at byte p of the file, as far as it goes.
FileByte(p) == IF p < disk.present THEN p ELSE Junk

HoldsSection(kind, at) ==
  \A i \in 1 .. Count :
    LET s == bundle.sections[i] IN
      s.kind = kind => \A k \in 0 .. s.length - 1 : reu[at + k] = FileByte(s.offset + k)

\* A complete bundle on a drive that works loads, if it is within the limits;
\* what the POSIX build rejects for its form is rejected.  In whatever is loaded,
\* every section is where the loader says, not overlaid by another, byte for
\* byte that of the file, with junk only where the file has ended.
LoadsLikePosix ==
  /\ stage = "failed" /\ PosixLoads /\ WithinLimits /\ board # "none" => disk.bad < disk.present
  /\ stage = "loaded" /\ disk.present = bundle.length => PosixLoads
  /\ stage = "loaded" =>
       /\ HoldsSection("ram", 0) /\ HoldsSection("code", HeapBytes)
       /\ HoldsSection("exports", info.exports_at)
       /\ HoldsSection("initializers", info.initializers_at)
       /\ HoldsSection("rodata", info.rodata_at)

\* However short the file is, the tables in memory are never made of bytes
\* that are not in it: the records that are counted are those of the bundle.
TablesTrue ==
  stage = "loaded" => info.modules = bundle.modules /\ info.words = bundle.words
=============================================================================
