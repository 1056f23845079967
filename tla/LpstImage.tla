----------------------------- MODULE LpstImage -----------------------------
(***************************************************************************)
(* lpst_image_load of LinchpinST: the two files of a program are read into *)
(* an image in the steps of the source, each of which may find the files   *)
(* ill-formed or the memory exhausted, and then gives back what was        *)
(* allocated so far.                                                       *)
(*                                                                         *)
(* A file is what Chisel wrote (ChiselImage), cut off at some length or    *)
(* with one word replaced.  The files come from the constant Cases, so     *)
(* that the counts of the tables are those of the program: the code reads  *)
(* where they lead it, past the end of its buffer too.                     *)
(***************************************************************************)
EXTENDS ChiselImage, TLC

CONSTANTS
  MaxModules, \* LPST_MAX_MODULES
  Programs,   \* the programs the files are of
  Cases       \* records [files, mme, obj, written]: the files found, "whole",
              \* "cut" or "damaged", and what the program's image holds

ASSUME ProgramsAssumption ==
  /\ MaxModules \in Nat \ {0}
  /\ \A p \in Programs : WellFormed(p) /\ Len(p.modules) <= MaxModules

ASSUME CasesAssumption ==
  \A c \in Cases :
    /\ c.mme \in Seq(Words16) /\ c.obj \in Seq(0 .. 255)
    /\ \/ c.files = "damaged"
       \/ \E p \in Programs :
            /\ c.written = Written(p)
            /\ \/ c.files = "whole" /\ c.mme = Mme(p) /\ c.obj = Obj(p)
               \/ c.files = "cut" /\ IsPrefix(c.mme, Mme(p)) /\ IsPrefix(c.obj, Obj(p))

VARIABLES
  case,     \* the files on the disk; history: the program they are of
  at,       \* the step the loader takes next
  module, proc,   \* i and j of parse_modules
  image,    \* the image so far
  held,     \* the allocations and open files, as tuples
  result    \* the lpst_result, or "none"

vars == <<case, at, module, proc, image, held, result>>

Mem(name) == <<name>>

NoImage == [count |-> 0, globals |-> <<>>, moduleGlobals |-> <<>>,
            modules |-> <<>>, ram |-> <<>>]

Init ==
  /\ case \in Cases
  /\ at = "files" /\ module = 1 /\ proc = 1
  /\ image = NoImage /\ held = {} /\ result = "none"

----------------------------------------------------------------------------
(* The files *)

MmeSize == 2 * Len(case.mme)
ObjSize == Len(case.obj)

\* read_le16(&mme[offset])
WordAt(offset) == case.mme[offset \div 2 + 1]

WordsAt(offset, n) == SubSeq(case.mme, offset \div 2 + 1, offset \div 2 + n)

HeaderWord(i) == WordAt(2 * i)

CodeEnd == (HeaderWord(7) + 1) * UnitBytes
EntryModule == HeaderWord(8) \div 256
EntryProcedure == HeaderWord(8) % 256
ExportsAt == HeaderWord(13) * PageBytes
ExportsEnd == ExportsAt + 2 * HeaderWord(15)

\* The tables behind the header, in the order of the file
Count == LET n == WordAt(2 * HeaderWords)
         IN  IF n > MaxModules THEN MaxModules ELSE n
PagesAt == 2 * HeaderWords + 2
ProgramGlobalsAt == PagesAt + 2 * Count + 2 + 2 * Count
ProgramGlobalCount == WordAt(PagesAt + 2 * Count)
ModuleGlobalCount(m) == WordAt(PagesAt + 2 * Count + 2 * m)

ModuleGlobalsAt(m) ==
  LET start[k \in 1 .. m] ==
        IF k = 1 THEN ProgramGlobalsAt + 2 * ProgramGlobalCount
                 ELSE start[k - 1] + 2 * ModuleGlobalCount(k - 1)
  IN  start[m]

\* Where the export table of module m starts, its count first
ExportTableAt(m) ==
  LET table[k \in 1 .. m] ==
        IF k = 1 THEN ExportsAt
                 ELSE table[k - 1] + 2 + 2 * WordAt(table[k - 1])
  IN  table[m]
Exports(m) == WordAt(ExportTableAt(m))
ExportOffset(m, p) == WordAt(ExportTableAt(m) + 2 * p)

ModuleAt(m) == WordAt(PagesAt + 2 * (m - 1)) * PageBytes
ModuleEnd(m) == IF m = Count THEN CodeEnd ELSE ModuleAt(m + 1)
ModuleLength(m) == ModuleEnd(m) - ModuleAt(m)
CodeOf(m) == SubSeq(case.obj, ModuleAt(m) + 1, ModuleEnd(m))

\* align_to_page
AlignToPage(n) == PageBytes * ((n + PageBytes - 1) \div PageBytes)

RamStart == AlignToPage(ExportsEnd)

\* Variants of RamBytes: bytes before words, and as much as is there
RamBytesFirst ==
  LET raw == HeaderWord(11)
  IN  IF RamStart > MmeSize \/ raw <= MmeSize - RamStart THEN raw ELSE 0

RamBytesThere ==
  IF RamStart > MmeSize THEN 0
  ELSE Min({2 * HeaderWord(11), MmeSize - RamStart})

\* infer_initial_ram_size: words if they fit, or else bytes.  The subtraction
\* that gives the bytes available is one of unsigned numbers, and comes round.
RamBytes ==
  LET raw == HeaderWord(11)
      fits(n) == RamStart > MmeSize \/ n <= MmeSize - RamStart
  IN  IF fits(2 * raw) THEN 2 * raw ELSE IF fits(raw) THEN raw ELSE 0

----------------------------------------------------------------------------
(* Ownership *)

Files == {"mme", "obj_file"}

\* What lpst_image_free gives back
OfImage ==
  {"program_globals", "module_globals", "globals_of", "modules",
   "procedures_of", "initializers_of", "ram"}

\* An error after the allocations got: what is of the kinds freed is given back.
Fail(error, got, freed) ==
  /\ at' = "done" /\ result' = error
  /\ held' = {h \in held \union got : h[1] \notin freed}
  /\ image' = NoImage
  /\ UNCHANGED <<case, module, proc>>

FailLoad(error, got) == Fail(error, got, OfImage \union Files)

\* Variant of FailModules: the caller forgets the table of offsets.
FailModulesKeeping(error, got) == Fail(error, got, OfImage \union Files)

\* An error of parse_modules: its caller also frees the table of offsets.
FailModules(error, got) ==
  Fail(error, got, OfImage \union Files \union {"offsets"})

GoOn(step, more) ==
  /\ at' = step
  /\ held' = held \union more
  /\ UNCHANGED <<case, result>>

----------------------------------------------------------------------------
(* The steps *)

CannotRead ==
  /\ at = "files"
  /\ \E got \in SUBSET {Mem("mme"), Mem("obj_file")} :
       /\ Mem("obj_file") \in got => Mem("mme") \in got
       /\ Fail("IO", got, Files)

ReadFiles ==
  /\ at = "files"
  /\ GoOn("header", {Mem("mme"), Mem("obj_file")})
  /\ UNCHANGED <<module, proc, image>>

HeaderError ==
  IF MmeSize < 2 * HeaderWords THEN "MME_TOO_SMALL"
  ELSE IF CodeEnd > ObjSize THEN "OBJ_TOO_SHORT"
  ELSE IF ExportsEnd > MmeSize THEN "MODULE_HEADER_TRUNCATED"
  ELSE "none"

RejectHeader ==
  /\ at = "header"
  /\ HeaderError # "none"
  /\ FailLoad(HeaderError, {})

AcceptHeader ==
  /\ at = "header"
  /\ HeaderError = "none"
  /\ GoOn("globals", {})
  /\ UNCHANGED <<module, proc, image>>

\* The arrays of the globals that are asked for before those of module m
ArraysBefore(m) ==
  (IF ProgramGlobalCount > 0 THEN {Mem("program_globals")} ELSE {})
    \union {Mem("module_globals")}
    \union {<<"globals_of", k>> : k \in {j \in 1 .. m - 1 : ModuleGlobalCount(j) > 0}}

ReadGlobals ==
  /\ at = "globals"
  /\ GoOn("offsets", ArraysBefore(Count + 1))
  /\ image' = [image EXCEPT
       !.count = Count,
       !.globals = WordsAt(ProgramGlobalsAt, ProgramGlobalCount),
       !.moduleGlobals = [m \in 1 .. Count |->
                            WordsAt(ModuleGlobalsAt(m), ModuleGlobalCount(m))]]
  /\ UNCHANGED <<module, proc>>

ReadOffsets ==
  /\ at = "offsets"
  /\ GoOn("module", {Mem("offsets"), Mem("modules")})
  /\ UNCHANGED <<module, proc, image>>

SpanOk ==
  /\ ModuleAt(module) <= ModuleEnd(module)
  /\ ModuleEnd(module) <= ObjSize

SpanInvalid ==
  /\ at = "module" /\ module <= Count /\ ~SpanOk
  /\ FailModules("MODULE_SPAN_INVALID", {})

\* A module without exports has no procedures, and its code is not read.
BeginModule ==
  /\ at = "module" /\ module <= Count /\ SpanOk
  /\ IF Exports(module) = 0
     THEN /\ GoOn("module", {})
          /\ module' = module + 1
     ELSE /\ GoOn("procedure", {<<"procedures_of", module>>}
                                 \union (IF ModuleLength(module) > 0
                                         THEN {Mem("bytes")} ELSE {}))
          /\ UNCHANGED module
  /\ image' = [image EXCEPT !.modules = Append(@,
                 [at |-> ModuleAt(module), length |-> ModuleLength(module),
                  procs |-> <<>>])]
  /\ UNCHANGED proc

\* load_module_bytes: the read of the code comes up short.
CannotReadModule ==
  /\ at = "module" /\ module <= Count /\ SpanOk
  /\ Exports(module) > 0 /\ ModuleLength(module) > 0
  /\ FailModules("IO", {<<"procedures_of", module>>})

OutOfRange == ExportOffset(module, proc) >= ModuleLength(module)

\* The module's bytes are not freed here.
ProcedureOutOfRange ==
  /\ at = "procedure" /\ proc <= Exports(module)
  /\ OutOfRange
  /\ FailModules("PROCEDURE_OUT_OF_RANGE", {})

Parsed == HeaderAt(CodeOf(module), ModuleLength(module),
                   ExportOffset(module, proc))

\* Variant of FailProcedure: the error is noted, and the next procedure read.
FailProcedureAndGoOn(error) ==
  /\ result' = error /\ proc' = proc + 1
  /\ UNCHANGED <<case, at, module, image, held>>

FailProcedure(error) ==
  Fail(error, {}, OfImage \union Files \union {"offsets", "bytes"})

HeaderTruncated ==
  /\ at = "procedure" /\ proc <= Exports(module)
  /\ ~OutOfRange /\ ~Parsed.ok
  /\ FailProcedure("HEADER_PARSE")

\* The upper bound of a procedure, which nothing reads, is left out.
ReadProcedure ==
  /\ at = "procedure" /\ proc <= Exports(module)
  /\ ~OutOfRange /\ Parsed.ok
  /\ GoOn("procedure", IF Parsed.inits # <<>>
                       THEN {<<"initializers_of", module, proc>>} ELSE {})
  /\ image' = [image EXCEPT !.modules[module].procs = Append(@,
       [start  |-> ExportOffset(module, proc),
        code   |-> (ExportOffset(module, proc) + Parsed.size) % 65536,
        locals |-> Parsed.locals, inits |-> Parsed.inits])]
  /\ proc' = proc + 1
  /\ UNCHANGED module

EndModule ==
  /\ at = "procedure" /\ proc > Exports(module)
  /\ at' = "module"
  /\ held' = held \ {Mem("bytes")}
  /\ module' = module + 1 /\ proc' = 1
  /\ UNCHANGED <<case, image, result>>

EndModules ==
  /\ at = "module" /\ module > Count
  /\ at' = "ram"
  /\ held' = held \ {Mem("offsets")}
  /\ UNCHANGED <<case, module, proc, image, result>>

RamTruncated == RamBytes = 0 \/ RamStart + RamBytes > MmeSize

RejectRam ==
  /\ at = "ram"
  /\ RamTruncated
  /\ FailLoad("INITIAL_RAM_TRUNCATED", {})

CopyRam ==
  /\ at = "ram"
  /\ ~RamTruncated
  /\ GoOn("entry", {Mem("ram")})
  /\ image' = [image EXCEPT !.ram = WordsAt(RamStart, RamBytes \div 2)]
  /\ UNCHANGED <<module, proc>>

\* Variant of EntryInRange: one procedure too many
EntryUpTo ==
  /\ EntryModule \in 1 .. Count
  /\ EntryProcedure <= Len(image.modules[EntryModule].procs)

EntryInRange ==
  /\ EntryModule \in 1 .. Count
  /\ EntryProcedure < Len(image.modules[EntryModule].procs)

RejectEntry ==
  /\ at = "entry"
  /\ ~EntryInRange
  /\ FailLoad("ENTRY_OUT_OF_RANGE", {})

Accept ==
  /\ at = "entry"
  /\ EntryInRange
  /\ at' = "done" /\ result' = "OK"
  /\ held' = {h \in held : h[1] \notin Files}
  /\ UNCHANGED <<case, module, proc, image>>

\* malloc and calloc of the steps above may fail.
AllocFails ==
  \/ /\ at = "globals"
     /\ \/ /\ ProgramGlobalCount > 0
           /\ FailLoad("ALLOC", {})
        \/ /\ Count > 0
           /\ FailLoad("ALLOC", ArraysBefore(1) \ {Mem("module_globals")})
        \/ \E m \in 1 .. Count : /\ ModuleGlobalCount(m) > 0
                                /\ FailLoad("ALLOC", ArraysBefore(m))
  \/ /\ at = "offsets"
     /\ \/ FailLoad("ALLOC", {})
        \/ FailModules("ALLOC", {Mem("offsets")})
  \/ /\ at = "module" /\ module <= Count /\ SpanOk
     /\ Exports(module) > 0
     /\ FailModules("ALLOC", {})
  \/ /\ at = "procedure" /\ proc <= Exports(module)
     /\ ~OutOfRange /\ Parsed.ok /\ Parsed.inits # <<>>
     /\ FailProcedure("ALLOC")
  \/ /\ at = "ram" /\ ~RamTruncated
     /\ FailLoad("ALLOC", {})

Done == at = "done" /\ UNCHANGED vars

Next ==
  \/ CannotRead \/ ReadFiles \/ RejectHeader \/ AcceptHeader
  \/ ReadGlobals \/ ReadOffsets
  \/ SpanInvalid \/ BeginModule \/ CannotReadModule
  \/ ProcedureOutOfRange \/ HeaderTruncated \/ ReadProcedure \/ EndModule
  \/ EndModules \/ RejectRam \/ CopyRam \/ RejectEntry \/ Accept
  \/ AllocFails \/ Done

Spec == Init /\ [][Next]_vars

----------------------------------------------------------------------------
(* Properties *)

Results ==
  {"none", "OK", "IO", "MME_TOO_SMALL", "OBJ_TOO_SHORT",
   "MODULE_HEADER_TRUNCATED", "MODULE_SPAN_INVALID", "PROCEDURE_OUT_OF_RANGE",
   "HEADER_PARSE", "INITIAL_RAM_TRUNCATED", "ENTRY_OUT_OF_RANGE", "ALLOC"}

\* The loader is in a step of its code, with a result once it is done, and
\* what it holds is of the kinds it can give back.
TypeOK ==
  /\ case \in Cases
  /\ at \in {"files", "header", "globals", "offsets", "module", "procedure",
            "ram", "entry", "done"}
  /\ module \in Nat \ {0} /\ proc \in Nat \ {0}
  /\ result \in Results /\ (result = "none" <=> at # "done")
  /\ DOMAIN image = DOMAIN NoImage
  /\ \A h \in held : h[1] \in OfImage \union Files \union {"offsets", "bytes"}

\* The files Chisel wrote are never refused, and what is loaded from them is
\* the program: the offsets of the tables, which the two sides compute each on
\* its own, agree.
WholeFilesLoad ==
  at = "done" /\ case.files = "whole" =>
    /\ result \in {"OK", "IO", "ALLOC"}
    /\ result = "OK" => image = case.written

\* A file that was cut off is refused, or nothing of it is lost but the data
\* behind the code, or the second half of the RAM: infer_initial_ram_size takes
\* the count of words for one of bytes when no more are there.
CutFilesLoseOnlyRam ==
  at = "done" /\ result = "OK" /\ case.files = "cut" =>
    LET ram == case.written.ram
    IN  /\ image = [case.written EXCEPT !.ram = image.ram]
        /\ \/ image.ram = ram
           \/ image.ram = SubSeq(ram, 1, Len(ram) \div 2)

\* Whatever the files say, what the machine starts from lies inside them: the
\* span of every module in the code file, every procedure's header in its
\* module, the entry in the table of its module.
ImageInsideFiles ==
  at = "done" /\ result = "OK" =>
    /\ \A m \in DOMAIN image.modules :
         LET mod == image.modules[m]
         IN  /\ mod.at + mod.length <= ObjSize
             /\ \A p \in DOMAIN mod.procs :
                  /\ mod.procs[p].start < mod.procs[p].code
                  /\ mod.procs[p].code <= mod.length
    /\ EntryModule \in DOMAIN image.modules
    /\ EntryProcedure + 1 \in DOMAIN image.modules[EntryModule].procs
    /\ image.ram # <<>>

\* "On failure the image is left in a safe (freed) state" (lpst_image.h): what
\* a load that fails allocated is given back, at whichever step and whichever
\* allocation it failed, but for the code of a module with an offset out of
\* range; and a load that succeeds keeps nothing but the image.
FailuresFreeAll ==
  at = "done" =>
    IF result = "OK" THEN \A h \in held : h[1] \in OfImage
    ELSE held \subseteq (IF result = "PROCEDURE_OUT_OF_RANGE"
                         THEN {Mem("bytes")} ELSE {})
=============================================================================
