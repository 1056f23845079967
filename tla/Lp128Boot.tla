----------------------------- MODULE Lp128Boot -----------------------------
(***************************************************************************)
(* The C128 build of Linchpin128 from the loaded bundle on (lp128_vm.c,    *)
(* lp128_run.c): lp128_vm_init shares out what the bundle leaves of the    *)
(* REU, and the machine then reads code and tables through small caches    *)
(* while it writes globals, locals and snapshots next to them.             *)
(***************************************************************************)
EXTENDS Lp128Bundle

CONSTANTS
  SegmentBytes,      \* LP128_SEGMENT_SIZE
  PageBytes,         \* LP128_CODE_PAGE_SIZE
  ExportEntries, InitializerEntries,   \* LP128_VM_EXPORT_CACHE_ENTRIES, ...
  LocalBytes,        \* sizeof(vm->locals)
  CallCap, SlotBytes, SlotCap,   \* the spill area and the slots of SETJMP
  MaxProgramGlobals, MaxModuleGlobals,
  Zero, Seed, Mark   \* a cleared byte, a sentinel's, one of a later store

ASSUME BootAssumption ==
  /\ HeapBytes = 2 * SegmentBytes /\ SegmentBytes >= 10 /\ SegmentBytes \in Nat
  /\ PageBytes \in Nat \ {0} /\ {MaxProgramGlobals, MaxModuleGlobals} \subseteq Nat
  /\ ExportEntries \in Nat \ {0} /\ InitializerEntries \in Nat \ {0}
  /\ {LocalBytes, CallCap, SlotBytes, SlotCap} \subseteq Nat

VARIABLES
  layout,       \* module_globals_reu_offset and the two offsets after it
  globals,      \* history: the module_globals of the POSIX build
  code,         \* the two slots of the code page cache
  current,      \* current_code_page_cache_slot
  exports, initializers,   \* export_cache, initializer_cache
  out           \* what the last read asked for and got

runVars == <<layout, globals, code, current, exports, initializers, out>>
vars == <<loadVars, runVars>>

EmptySlot == [valid |-> FALSE, base |-> 0, bytes |-> <<>>]
EmptyEntry == [valid |-> FALSE, index |-> 0, record |-> <<>>]
NoAnswer == [what |-> "none", at |-> 0, got |-> <<>>]

Init ==
  /\ LoadInit
  /\ layout = [globals |-> 0, spill |-> 0, slots |-> 0]
  /\ globals = <<>>
  /\ code = [s \in {0, 1} |-> EmptySlot] /\ current = 0
  /\ exports = [e \in 0 .. ExportEntries - 1 |-> EmptyEntry]
  /\ initializers = [e \in 0 .. InitializerEntries - 1 |-> EmptyEntry]
  /\ out = NoAnswer

TypeOK ==
  /\ LoadTypeOK
  /\ \A f \in DOMAIN layout : layout[f] \in 0 .. ReuBytes
  /\ current \in {0, 1} /\ DOMAIN code = {0, 1}
  /\ \A s \in {0, 1} : code[s].valid => Len(code[s].bytes) = PageBytes
  /\ \A e \in DOMAIN exports : exports[e].valid => exports[e].index < info.exports
  /\ \A e \in DOMAIN initializers :
       initializers[e].valid => initializers[e].index < info.initializers

-----------------------------------------------------------------------------
(* lp128_vm_init.                                                           *)

\* The arena sentinels: four words of a record of five.
SentinelBytes == {0, 1, 2, 3, 6, 7, 8, 9}

Seeded(mem, at) == [a \in DOMAIN mem |-> IF a - at \in SentinelBytes THEN Seed ELSE mem[a]]

\* Variant of Cleared: the first byte is left out.
ClearedLess(mem, at, n) ==
  IF board = "plain" THEN Written(mem, at + 1, [k \in 1 .. n - 1 |-> Zero]) ELSE mem

\* reu_fill_zero_32 always gives the command 0x90.
Cleared(mem, at, n) ==
  IF board = "plain" THEN Written(mem, at, [k \in 1 .. n |-> Zero]) ELSE mem

\* The end of the initial RAM, rounded up to a word.
LowArena == 2 * ((info.ram + 1) \div 2)

\* seed_initial_ram
SeededRam ==
  LET blank == Cleared(reu, info.ram, HeapBytes - info.ram)
      low == IF LowArena + 10 <= SegmentBytes THEN Seeded(blank, LowArena) ELSE blank
  IN  Seeded(low, SegmentBytes)

ModuleCount == info.words[1]
ProgramGlobals == info.words[2]
GlobalCount(m) == info.words[2 + m]

\* The number of module globals before those of module m.
Before[m \in 1 .. MaxModules + 1] ==
  IF m = 1 THEN 0 ELSE Before[m - 1] + GlobalCount(m - 1)

LayoutOk ==
  /\ Len(info.words) >= 2
  /\ ModuleCount <= MaxModules /\ ProgramGlobals <= MaxProgramGlobals
  /\ Len(info.words) >= 2 + ModuleCount
  /\ \A m \in 1 .. ModuleCount : GlobalCount(m) <= MaxModuleGlobals
  /\ Len(info.words) >= 2 + ModuleCount + ProgramGlobals + Before[ModuleCount + 1]

\* Variant of TablesEnd: the read-only data are forgotten.
InitializersEnd == info.initializers_at + info.initializers * InitializerBytes

\* Where the tables end: the initializers, or the read-only data if there are.
TablesEnd ==
  IF info.rodata > 0 THEN info.rodata_at + info.rodata
  ELSE info.initializers_at + info.initializers * InitializerBytes

NewLayout ==
  LET first == AlignUp(TablesEnd, ReuAlign)
      second == AlignUp(first + 2 * Before[ModuleCount + 1], ReuAlign)
  IN  [globals |-> first, spill |-> second,
       slots |-> AlignUp(second + CallCap * LocalBytes, ReuAlign)]

GlobalAt(place, m, i) == place.globals + 2 * (Before[m] + i)

InitialGlobal(m, i) == info.words[2 + ModuleCount + ProgramGlobals + Before[m] + i + 1]

Domain == {d \in (1 .. ModuleCount) \X (0 .. MaxModuleGlobals) : d[2] < GlobalCount(d[1])}

\* A word goes to the REU by way of reu_stage.
WordStored(mem, at, w) == Written(mem, at, <<w, w>>)

GlobalsStored(mem, place) ==
  [a \in DOMAIN mem |->
     IF \E d \in Domain : a - GlobalAt(place, d[1], d[2]) \in {0, 1}
       THEN LET d == CHOOSE d \in Domain : a - GlobalAt(place, d[1], d[2]) \in {0, 1}
            IN  InitialGlobal(d[1], d[2])
       ELSE mem[a]]

EntryOk ==
  /\ bundle.entry.module \in 1 .. Len(info.modules)
  /\ info.modules[bundle.entry.module].start + bundle.entry.proc < info.exports

\* The steps of lp128_vm_init that fail leave what those before them wrote.
VmInit ==
  /\ stage = "loaded"
  /\ IF info.ram > SegmentBytes THEN stage' = "refused" /\ UNCHANGED <<reu, runVars>>
     ELSE IF ~LayoutOk THEN stage' = "refused" /\ reu' = SeededRam /\ UNCHANGED runVars
     ELSE /\ layout' = NewLayout
          /\ reu' = GlobalsStored(SeededRam, NewLayout)
          /\ globals' = [d \in Domain |-> InitialGlobal(d[1], d[2])]
          /\ stage' = IF EntryOk THEN "ready" ELSE "refused"
          /\ UNCHANGED <<code, current, exports, initializers, out>>
  /\ UNCHANGED <<disk, board, pos, entry, file_pos, remain, rpos, info>>

-----------------------------------------------------------------------------
(* Reads of a running machine.                                              *)

Fetched(at, n) == [k \in 1 .. n |-> reu[at + k - 1]]

PageOf(x) == PageBytes * (x \div PageBytes)

\* Variant of Holds: any valid slot is taken to hold the page.
AnyValid(s, page) == code[s].valid

Holds(s, page) == code[s].valid /\ code[s].base = page

\* read_code_byte_at: the current slot, the other one, or a load into the one
\* that was not used last, unless the current one is empty.
CodeByte(x) ==
  /\ stage = "ready" /\ x < info.code
  /\ LET other == 1 - current
         load == IF code[current].valid THEN other ELSE current
         at == IF Holds(current, PageOf(x)) THEN current
               ELSE IF Holds(other, PageOf(x)) THEN other ELSE load
     IN  /\ code' = IF Holds(at, PageOf(x)) THEN code
                    ELSE [code EXCEPT ![at] =
                            [valid |-> TRUE, base |-> PageOf(x),
                             bytes |-> Fetched(HeapBytes + PageOf(x), PageBytes)]]
         /\ current' = at
         /\ out' = [what |-> "code", at |-> x,
                    got |-> <<code'[at].bytes[x - PageOf(x) + 1]>>]
  /\ UNCHANGED <<loadVars, layout, globals, exports, initializers>>

\* invalidate_code_page_cache, at every change of module.
DropCode ==
  /\ stage = "ready" /\ code' = [s \in {0, 1} |-> EmptySlot] /\ current' = 0
  /\ out' = NoAnswer
  /\ UNCHANGED <<loadVars, layout, globals, exports, initializers>>

\* The entry of a direct-mapped cache after record i has been asked for.
Looked(cache, e, i, at, n) ==
  IF cache[e].valid /\ cache[e].index = i THEN cache[e]
  ELSE [valid |-> TRUE, index |-> i, record |-> Fetched(at + i * n, n)]

\* lp128_vm_read_export; a record that is not there reads as zeroes.
ReadExport(i) ==
  LET e == i % ExportEntries IN
    /\ stage = "ready" /\ i < info.exports
    /\ exports' = [exports EXCEPT ![e] = Looked(exports, e, i, info.exports_at, ExportBytes)]
    /\ out' = [what |-> "exports", at |-> i, got |-> exports'[e].record]
    /\ UNCHANGED <<loadVars, layout, globals, code, current, initializers>>

\* lp128_vm_read_initializer
ReadInitializer(i) ==
  LET e == i % InitializerEntries IN
    /\ stage = "ready" /\ i < info.initializers
    /\ initializers' = [initializers EXCEPT ![e] =
         Looked(initializers, e, i, info.initializers_at, InitializerBytes)]
    /\ out' = [what |-> "initializers", at |-> i, got |-> initializers'[e].record]
    /\ UNCHANGED <<loadVars, layout, globals, code, current, exports>>

\* lp128_vm_read_module_global; a global that is not there reads as FALSE.
ReadGlobal(d) ==
  /\ stage = "ready"
  /\ out' = [what |-> "global", at |-> d,
             got |-> Fetched(GlobalAt(layout, d[1], d[2]), 2)]
  /\ UNCHANGED <<loadVars, layout, globals, code, current, exports, initializers>>

-----------------------------------------------------------------------------
(* What a running machine writes outside the heap.                          *)

Store(mem) ==
  /\ stage = "ready" /\ reu' = mem /\ out' = NoAnswer
  /\ UNCHANGED <<disk, board, pos, stage, entry, file_pos, remain, rpos, info,
                 layout, code, current, exports, initializers>>

\* lp128_vm_write_module_global
WriteGlobal(d) ==
  /\ Store(WordStored(reu, GlobalAt(layout, d[1], d[2]), Mark))
  /\ globals' = [globals EXCEPT ![d] = Mark]

\* The locals of the caller at a depth of the call stack.
SpillLocals(depth) ==
  /\ Store(Written(reu, layout.spill + depth * LocalBytes, [k \in 1 .. LocalBytes |-> Mark]))
  /\ UNCHANGED globals

\* The four parts of a snapshot, one after the other.
StoreSnapshot(slot) ==
  /\ Store(Written(reu, layout.slots + slot * SlotBytes, [k \in 1 .. SlotBytes |-> Mark]))
  /\ UNCHANGED globals

Run ==
  \/ \E x \in 0 .. info.code - 1 : CodeByte(x)
  \/ DropCode
  \/ \E i \in 0 .. info.exports - 1 : ReadExport(i)
  \/ \E i \in 0 .. info.initializers - 1 : ReadInitializer(i)
  \/ \E d \in DOMAIN globals : ReadGlobal(d) \/ WriteGlobal(d)
  \/ \E depth \in 0 .. CallCap - 1 : SpillLocals(depth)
  \/ \E slot \in 0 .. SlotCap - 1 : StoreSnapshot(slot)

Load == (LoadNext /\ UNCHANGED runVars) \/ VmInit

Next == Load \/ Run

\* The loader is a plain program: nothing keeps it from its next step.
Spec == Init /\ [][Next]_vars /\ WF_vars(Load)

-----------------------------------------------------------------------------
(* Properties.                                                              *)

\* Whatever the file and the drive do, loading comes to an end.
LoadingEnds == <>(stage \in {"ready", "failed", "refused"})

\* Where the areas of a bundle end in the REU at the latest.
LengthOf(b, i) == IF i <= Len(b.sections) THEN b.sections[i].length ELSE 0

AreaEnd(b) ==
  LET exportsAt == AlignUp(HeapBytes + LengthOf(b, 7), ReuAlign)
      rodataAt == AlignUp(exportsAt + LengthOf(b, 3) + LengthOf(b, 4), ReuAlign)
      globalsAt == AlignUp(rodataAt + LengthOf(b, 8), ReuAlign)
      spillAt == AlignUp(globalsAt + LengthOf(b, 5), ReuAlign)
  IN  AlignUp(spillAt + CallCap * LocalBytes, ReuAlign) + SlotCap * SlotBytes

\* Everything fits in the REU: nothing in the loader or in lp128_vm_init checks it.
Fits == \A d \in Disks : AreaEnd(d.bundle) <= ReuBytes

Ranges ==
  << <<0, HeapBytes>>, <<HeapBytes, info.code>>,
     <<info.exports_at, info.exports * ExportBytes>>,
     <<info.initializers_at, info.initializers * InitializerBytes>>,
     <<info.rodata_at, info.rodata>>,
     <<layout.globals, 2 * Before[ModuleCount + 1]>>,
     <<layout.spill, CallCap * LocalBytes>>, <<layout.slots, SlotCap * SlotBytes>> >>

\* The areas of the REU lie one after the other, although their places are
\* worked out from sizes that become known in three different functions.
AreasApart ==
  stage = "ready" => \A i \in 2 .. Len(Ranges) : \A j \in 1 .. i - 1 :
    LET a == Ranges[i]  b == Ranges[j] IN
      a[2] = 0 \/ b[2] = 0 \/ a[1] >= b[1] + b[2]

SectionByte(kind, k) ==
  LET i == CHOOSE i \in 1 .. Count : bundle.sections[i].kind = kind IN
    FileByte(bundle.sections[i].offset + k)

\* The machine starts on the RAM of the image, the two sentinels and zeroes: on
\* a board that takes only the command bits of the second try of the self-test
\* what is cleared is left as it was.
HeapAsSeeded ==
  stage = "ready" => \A a \in 0 .. HeapBytes - 1 :
    reu[a] \in IF \/ a - SegmentBytes \in SentinelBytes
                  \/ a - LowArena \in SentinelBytes /\ LowArena + 10 <= SegmentBytes
                 THEN {Seed}
               ELSE IF a < info.ram THEN {SectionByte("ram", a)}
               ELSE IF board = "plain" THEN {Zero} ELSE {Dirty, Junk}

\* Every read of code or of a table gets the bytes of the file, and every read of
\* a module global what was last stored there, whatever has been cached and
\* whatever has been written around them.
ReadsTrue ==
  [][/\ out'.what = "code" => out'.got = <<SectionByte("code", out'.at)>>
     /\ out'.what = "exports" =>
          out'.got = [k \in 1 .. ExportBytes |->
                        SectionByte("exports", out'.at * ExportBytes + k - 1)]
     /\ out'.what = "initializers" =>
          out'.got = [k \in 1 .. InitializerBytes |->
                        SectionByte("initializers", out'.at * InitializerBytes + k - 1)]
     /\ out'.what = "global" => out'.got = <<globals[out'.at], globals[out'.at]>>]_vars
=============================================================================
