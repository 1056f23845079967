----------------------------- MODULE ChiselImage -----------------------------
(***************************************************************************)
(* The two files Chisel writes for a program (Assembler.cs): the code of   *)
(* its modules in the .OBJ file, and everything else in the .MME file.     *)
(* The .MME file is a sequence of 16-bit words, and the word at byte       *)
(* offset o is mme[o \div 2 + 1]; the .OBJ file is a sequence of bytes.    *)
(*                                                                         *)
(* A program is a record of its entry <<module, export>>, its globals, its *)
(* modules, the words of its RAM, and the size of the data that follows    *)
(* the code.  A module has procedures in the order of the text, exports    *)
(* that number some of them in any order, and globals; a procedure has a   *)
(* number of locals, initializers, and a number of bytes of code.          *)
(***************************************************************************)
EXTENDS ProcedureHeaders

CONSTANTS
  PageBytes,   \* 0x100: pages of the tables, and blocks of code
  UnitBytes,   \* 0x200: the unit of the size of the code
  HeaderWords  \* 48

ASSUME FilesAssumption ==
  /\ PageBytes \in {2 * n : n \in 1 .. 128}
  /\ UnitBytes \in {PageBytes, 2 * PageBytes}
  /\ HeaderWords \in 16 .. 48
  /\ MaxInitializers \in 1 .. 64

Zeros(n) == [i \in 1 .. n |-> 0]

PaddedTo(seq, unit) == seq \o Zeros((unit - (Len(seq) % unit)) % unit)

\* AlignProcedureStart: a header never straddles two blocks.
StartAfter(end, header) ==
  IF header > PageBytes - (end % PageBytes)
  THEN end + PageBytes - (end % PageBytes)
  ELSE end

\* A module's bytes, and where each of its procedures starts
LaidOut(module) ==
  LET laid[n \in 0 .. Len(module.procs)] ==
        IF n = 0 THEN [bytes |-> <<>>, starts |-> <<>>]
        ELSE LET upto   == laid[n - 1]
                 proc   == module.procs[n]
                 header == EncodeHeader(proc.locals, proc.inits)
                 start  == StartAfter(Len(upto.bytes), Len(header))
             IN  [bytes  |-> upto.bytes \o Zeros(start - Len(upto.bytes))
                               \o header \o Zeros(proc.code),
                  starts |-> Append(upto.starts, start)]
  IN  laid[Len(module.procs)]

\* BuildObjectImage: modules start at pages, and the code fills whole units.
ModuleBytes(program) ==
  [m \in DOMAIN program.modules |->
     IF m < Len(program.modules)
     THEN PaddedTo(LaidOut(program.modules[m]).bytes, PageBytes)
     ELSE LaidOut(program.modules[m]).bytes]

Code(program) == PaddedTo(FlattenSeq(ModuleBytes(program)), UnitBytes)

Obj(program) == Code(program) \o Zeros(program.data)

ModulePage(program, m) ==
  Len(FlattenSeq(SubSeq(ModuleBytes(program), 1, m - 1))) \div PageBytes

\* BuildMetadataImage: what stands between the header and the export tables
Tables(program) ==
  LET modules == program.modules
  IN  <<Len(modules)>> \o [m \in DOMAIN modules |-> ModulePage(program, m)]
        \o <<Len(program.globals)>>
        \o [m \in DOMAIN modules |-> Len(modules[m].globals)]
        \o program.globals
        \o FlattenSeq([m \in DOMAIN modules |-> modules[m].globals])

ExportTables(program) ==
  FlattenSeq([m \in DOMAIN program.modules |->
    LET module == program.modules[m]
    IN  <<Len(module.exports)>>
          \o [e \in DOMAIN module.exports |->
                LaidOut(module).starts[module.exports[e]]]])

ExportsPage(program) ==
  (2 * (HeaderWords + Len(Tables(program))) + PageBytes - 1) \div PageBytes

\* One page more than the export tables fill, also when they end at a page
RamAt(program) ==
  PageBytes * (1 + ExportsPage(program)
                 + (2 * Len(ExportTables(program))) \div PageBytes)

Header(program) ==
  [i \in 1 .. HeaderWords |->
     CASE i = 8  -> Len(Code(program)) \div UnitBytes - 1
       [] i = 9  -> 256 * program.entry[1] + program.entry[2]
       [] i = 12 -> Len(program.ram)
       [] i = 14 -> ExportsPage(program)
       [] i = 16 -> Len(ExportTables(program))
       [] OTHER  -> 0]

Mme(program) ==
  LET upto   == PaddedTo(Header(program) \o Tables(program), PageBytes \div 2)
                  \o ExportTables(program)
  IN  upto \o Zeros(RamAt(program) \div 2 - Len(upto)) \o program.ram

----------------------------------------------------------------------------
(* The programs whose files are to be loaded.  Chisel refuses one whose    *)
(* entry is not exported, or where a word of a table does not fit 16 bits. *)
(* It takes any number of initial values, keeps 6 bits of a local, may     *)
(* write no RAM, and does not check where a procedure's code begins:       *)
(* LinchpinST keeps MaxInitializers of the values and 16 bits of that      *)
(* offset, and refuses a file without RAM.                                 *)

Words16 == 0 .. 65535

ProgramRecords ==
  LET Initializers == [local : 0 .. 63, value : Words16]
      Procedures == [locals : 0 .. 127, inits : Seq(Initializers), code : Nat]
      Modules == [procs : Seq(Procedures), exports : Seq(Nat), globals : Seq(Words16)]
  IN  [modules : Seq(Modules), globals : Seq(Words16), entry : Nat \X (0 .. 255),
       ram : Seq(Words16), data : Nat]

CodeAt(module, p) ==
  LaidOut(module).starts[p]
    + Len(EncodeHeader(module.procs[p].locals, module.procs[p].inits))

WellFormed(program) ==
  /\ program \in ProgramRecords
  /\ \A m \in DOMAIN program.modules :
       LET module == program.modules[m]
       IN  /\ \A e \in DOMAIN module.exports : module.exports[e] \in DOMAIN module.procs
           /\ \A p \in DOMAIN module.procs : /\ Len(module.procs[p].inits) <= MaxInitializers
                                             /\ CodeAt(module, p) \in Words16
  /\ program.entry[1] \in DOMAIN program.modules
  /\ program.entry[2] < Len(program.modules[program.entry[1]].exports)
  /\ \A i \in DOMAIN Mme(program) : Mme(program)[i] \in Words16
  /\ program.ram # <<>>

\* What the image of a program holds once a runtime has loaded it
Written(program) ==
  LET end(m)  == IF m = Len(program.modules) THEN Len(Code(program))
                 ELSE PageBytes * ModulePage(program, m + 1)
      proc_(module, p) ==
        [start  |-> LaidOut(module).starts[p], code  |-> CodeAt(module, p),
         locals |-> module.procs[p].locals, inits |-> module.procs[p].inits]
  IN  [count |-> Len(program.modules),
       globals |-> program.globals,
       moduleGlobals |-> [m \in DOMAIN program.modules |->
                            program.modules[m].globals],
       modules |-> [m \in DOMAIN program.modules |->
         [at |-> PageBytes * ModulePage(program, m),
          length |-> end(m) - PageBytes * ModulePage(program, m),
          procs |-> [e \in DOMAIN program.modules[m].exports |->
                       proc_(program.modules[m], program.modules[m].exports[e])]]],
       ram |-> program.ram]
==============================================================================
