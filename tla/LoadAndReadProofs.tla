-------------------------- MODULE LoadAndReadProofs --------------------------
(***************************************************************************)
(* What LinchpinST reads.  The loader of images, wherever it fails: it     *)
(* gives back what it holds; whole files are loaded as Chisel wrote them,  *)
(* cut ones lose only RAM, and what any file loads lies inside it.  The    *)
(* headers of procedures, as they were written.  And what EXTRACT finds of *)
(* every record.                                                           *)
(***************************************************************************)
EXTENDS LpstImage, Operators, SequenceTheorems, WellFoundedInduction, TLAPS

----------------------------------------------------------------------------
(* The loader *)

\* What the loader may hold at each step: the table of offsets only while
\* modules are read, a module's bytes only while its procedures are.
Kinds ==
  CASE at = "files" -> {}
    [] at \in {"header", "globals"} -> Files
    [] at \in {"offsets", "ram", "entry"} -> OfImage \union Files
    [] at = "module" -> OfImage \union Files \union {"offsets"}
    [] at = "procedure" -> OfImage \union Files \union {"offsets", "bytes"}
    [] at = "done" -> OfImage \union {"bytes"}

Owned ==
  /\ \A h \in held : h[1] \in Kinds /\ (h[1] = "offsets" => h = Mem("offsets"))
                    /\ (h[1] = "bytes" => h = Mem("bytes"))
  /\ FailuresFreeAll

LoadInv == TypeOK /\ Owned

\* A step that fails with all its kinds given back holds nothing.
LEMMA FailureFrees ==
  ASSUME NEW error \in Results \ {"none", "OK"}, NEW got, NEW freed, Fail(error, got, freed),
         \A h \in held \union got : h[1] \in freed
  PROVE  held' = {} /\ at' = "done" /\ result' = error /\ image' = NoImage
         /\ UNCHANGED <<case, module, proc>>
BY DEF Fail

\* Then types and ownership are as they should be.
LEMMA FailureGood ==
  ASSUME LoadInv, NEW error \in Results \ {"none", "OK"}, NEW got, NEW freed,
         Fail(error, got, freed), \A h \in held \union got : h[1] \in freed
  PROVE  LoadInv'
<1>1. /\ held' = {} /\ at' = "done" /\ result' = error /\ image' = NoImage
      /\ UNCHANGED <<case, module, proc>>
  BY FailureFrees
<1>2. TypeOK'
  BY <1>1 DEF LoadInv, TypeOK, NoImage
<1>3. Owned'
  BY <1>1 DEF Owned, FailuresFreeAll
<1> QED
  BY <1>2, <1>3 DEF LoadInv

\* A step that goes on holds what it held and what it got.
LEMMA GoingOn ==
  ASSUME LoadInv, at # "done", NEW step \in {"header", "globals", "offsets", "module", "procedure", "ram", "entry"},
         NEW more, GoOn(step, more), module' \in Nat \ {0}, proc' \in Nat \ {0},
         DOMAIN image' = DOMAIN NoImage,
         \A h \in held \union more :
           /\ h[1] \in Kinds' /\ (h[1] = "offsets" => h = Mem("offsets"))
           /\ (h[1] = "bytes" => h = Mem("bytes"))
  PROVE  LoadInv'
<1>1. at' = step /\ held' = held \union more /\ case' = case /\ result' = result
  BY DEF GoOn
<1>2. \A h \in held' : h[1] \in OfImage \union Files \union {"offsets", "bytes"}
  BY <1>1 DEF Kinds
<1>3. TypeOK'
  BY <1>1, <1>2 DEF LoadInv, TypeOK
<1>4. Owned'
  BY <1>1 DEF Owned, FailuresFreeAll
<1> QED
  BY <1>3, <1>4 DEF LoadInv

\* The arrays of the globals are of the image.
LEMMA ArraysOfImage ==
  ASSUME NEW m
  PROVE  \A h \in ArraysBefore(m) : h[1] \in OfImage /\ h[1] # "offsets" /\ h[1] # "bytes"
BY DEF ArraysBefore, OfImage, Mem

\* What each failure gives back is all that is held then.
LEMMA FailLoadGood ==
  ASSUME LoadInv, at \in {"header", "globals", "offsets", "ram", "entry"},
         NEW error \in Results \ {"none", "OK"}, NEW got, FailLoad(error, got),
         \A h \in got : h[1] \in OfImage
  PROVE  LoadInv'
<1>1. \A h \in held \union got : h[1] \in OfImage \union Files
  BY DEF LoadInv, Owned, Kinds
<1> QED
  BY <1>1, FailureGood DEF FailLoad

LEMMA FailModulesGood ==
  ASSUME LoadInv, at \in {"offsets", "module"},
         NEW error \in Results \ {"none", "OK"}, NEW got, FailModules(error, got),
         \A h \in got : h[1] \in OfImage \union {"offsets"}
  PROVE  LoadInv'
<1>1. \A h \in held \union got : h[1] \in OfImage \union Files \union {"offsets"}
  BY DEF LoadInv, Owned, Kinds
<1> QED
  BY <1>1, FailureGood DEF FailModules

LEMMA FailProcedureGood ==
  ASSUME LoadInv, at = "procedure", NEW error \in Results \ {"none", "OK"}, FailProcedure(error)
  PROVE  LoadInv'
<1>1. \A h \in held \union {} : h[1] \in OfImage \union Files \union {"offsets", "bytes"}
  BY DEF LoadInv, Owned, Kinds
<1> QED
  BY <1>1, FailureGood DEF FailProcedure

LEMMA FilesStep ==
  ASSUME LoadInv, CannotRead \/ ReadFiles
  PROVE  LoadInv'
<1>1. at = "files" /\ held = {}
  BY DEF LoadInv, Owned, Kinds, CannotRead, ReadFiles
<1>2. CASE CannotRead
  <2>1. PICK got \in SUBSET {Mem("mme"), Mem("obj_file")} : Fail("IO", got, Files)
    BY <1>2 DEF CannotRead
  <2>2. \A h \in held \union got : h[1] \in Files
    BY <1>1 DEF Mem, Files
  <2> QED
    BY <2>1, <2>2, FailureGood DEF Results
<1>3. CASE ReadFiles
  <2> DEFINE more == {Mem("mme"), Mem("obj_file")}
  <2>1. GoOn("header", more) /\ UNCHANGED <<module, proc, image>> /\ at' = "header"
    BY <1>3 DEF ReadFiles, GoOn
  <2>2. \A h \in held \union more : /\ h[1] \in Kinds' /\ (h[1] = "offsets" => h = Mem("offsets"))
                                  /\ (h[1] = "bytes" => h = Mem("bytes"))
    BY <1>1, <2>1 DEF Mem, Files, Kinds
  <2>3. module' \in Nat \ {0} /\ proc' \in Nat \ {0} /\ DOMAIN image' = DOMAIN NoImage
    BY <2>1 DEF LoadInv, TypeOK
  <2> HIDE DEF more
  <2> QED
    BY <1>1, <2>1, <2>2, <2>3, GoingOn
<1> QED
  BY <1>2, <1>3

LEMMA HeaderStep ==
  ASSUME LoadInv, RejectHeader \/ AcceptHeader
  PROVE  LoadInv'
<1>1. at = "header"
  BY DEF RejectHeader, AcceptHeader
<1>2. CASE RejectHeader
  <2>1. HeaderError \in Results \ {"none", "OK"}
    BY <1>2 DEF RejectHeader, HeaderError, Results
  <2>2. FailLoad(HeaderError, {})
    BY <1>2 DEF RejectHeader
  <2> HIDE DEF HeaderError
  <2> QED
    BY <1>1, <2>1, <2>2, FailLoadGood
<1>3. CASE AcceptHeader
  <2>1. GoOn("globals", {}) /\ UNCHANGED <<module, proc, image>> /\ at' = "globals"
    BY <1>3 DEF AcceptHeader, GoOn
  <2>2. \A h \in held \union {} : /\ h[1] \in Kinds' /\ (h[1] = "offsets" => h = Mem("offsets"))
                                /\ (h[1] = "bytes" => h = Mem("bytes"))
    BY <1>1, <2>1 DEF LoadInv, Owned, Kinds
  <2>3. module' \in Nat \ {0} /\ proc' \in Nat \ {0} /\ DOMAIN image' = DOMAIN NoImage
    BY <2>1 DEF LoadInv, TypeOK
  <2> QED
    BY <1>1, <2>1, <2>2, <2>3, GoingOn
<1> QED
  BY <1>2, <1>3

LEMMA GlobalsStep ==
  ASSUME LoadInv, ReadGlobals
  PROVE  LoadInv'
<1> DEFINE more == ArraysBefore(Count + 1)
<1>1. /\ at = "globals" /\ GoOn("offsets", more) /\ at' = "offsets" /\ UNCHANGED <<module, proc>>
      /\ DOMAIN image' = DOMAIN image
  BY DEF ReadGlobals, GoOn
<1>2. \A h \in more : h[1] \in OfImage /\ h[1] # "offsets" /\ h[1] # "bytes"
  BY ArraysOfImage
<1> HIDE DEF more
<1>3. \A h \in held \union more : /\ h[1] \in Kinds' /\ (h[1] = "offsets" => h = Mem("offsets"))
                                /\ (h[1] = "bytes" => h = Mem("bytes"))
  BY <1>1, <1>2 DEF LoadInv, Owned, Kinds
<1>4. module' \in Nat \ {0} /\ proc' \in Nat \ {0} /\ DOMAIN image' = DOMAIN NoImage
  BY <1>1 DEF LoadInv, TypeOK
<1> QED
  BY <1>1, <1>3, <1>4, GoingOn

LEMMA OffsetsStep ==
  ASSUME LoadInv, ReadOffsets
  PROVE  LoadInv'
<1> DEFINE more == {Mem("offsets"), Mem("modules")}
<1>1. /\ at = "offsets" /\ GoOn("module", more) /\ at' = "module" /\ UNCHANGED <<module, proc, image>>
  BY DEF ReadOffsets, GoOn
<1>2. \A h \in held \union more : /\ h[1] \in Kinds' /\ (h[1] = "offsets" => h = Mem("offsets"))
                                /\ (h[1] = "bytes" => h = Mem("bytes"))
  BY <1>1 DEF LoadInv, Owned, Kinds, Mem, OfImage
<1>3. module' \in Nat \ {0} /\ proc' \in Nat \ {0} /\ DOMAIN image' = DOMAIN NoImage
  BY <1>1 DEF LoadInv, TypeOK
<1> HIDE DEF more
<1> QED
  BY <1>1, <1>2, <1>3, GoingOn

LEMMA ModuleStep ==
  ASSUME LoadInv, SpanInvalid \/ BeginModule \/ CannotReadModule
  PROVE  LoadInv'
<1>1. at = "module"
  BY DEF SpanInvalid, BeginModule, CannotReadModule
<1>2. CASE SpanInvalid
  <2>1. FailModules("MODULE_SPAN_INVALID", {})
    BY <1>2 DEF SpanInvalid
  <2> QED
    BY <1>1, <2>1, FailModulesGood DEF Results
<1>3. CASE CannotReadModule
  <2> DEFINE got == {<<"procedures_of", module>>}
  <2>1. FailModules("IO", got)
    BY <1>3 DEF CannotReadModule
  <2>2. \A h \in got : h[1] \in OfImage \union {"offsets"}
    BY DEF OfImage
  <2> HIDE DEF got
  <2> QED
    BY <1>1, <2>1, <2>2, FailModulesGood DEF Results
<1>4. CASE BeginModule
  <2>1. /\ module \in Nat \ {0} /\ proc' = proc /\ proc \in Nat \ {0}
        /\ DOMAIN image' = DOMAIN NoImage
    BY <1>4 DEF BeginModule, LoadInv, TypeOK
  <2>2. CASE Exports(module) = 0
    <3>1. GoOn("module", {}) /\ module' = module + 1 /\ at' = "module"
      BY <1>4, <2>2 DEF BeginModule, GoOn
    <3>2. \A h \in held \union {} : /\ h[1] \in Kinds' /\ (h[1] = "offsets" => h = Mem("offsets"))
                                  /\ (h[1] = "bytes" => h = Mem("bytes"))
      BY <1>1, <3>1 DEF LoadInv, Owned, Kinds
    <3>3. module' \in Nat \ {0} /\ proc' \in Nat \ {0}
      BY <2>1, <3>1
    <3> QED
      BY <1>1, <2>1, <3>1, <3>2, <3>3, GoingOn
  <2>3. CASE Exports(module) # 0
    <3> DEFINE more == {<<"procedures_of", module>>}
                         \union (IF ModuleLength(module) > 0 THEN {Mem("bytes")} ELSE {})
    <3>1. GoOn("procedure", more) /\ module' = module /\ at' = "procedure"
      BY <1>4, <2>3 DEF BeginModule, GoOn
    <3>2. \A h \in held \union more : /\ h[1] \in Kinds' /\ (h[1] = "offsets" => h = Mem("offsets"))
                                    /\ (h[1] = "bytes" => h = Mem("bytes"))
      <4>1. \A h \in held : h[1] \in Kinds' /\ (h[1] = "offsets" => h = Mem("offsets"))
                           /\ (h[1] = "bytes" => h = Mem("bytes"))
        BY <1>1, <3>1 DEF LoadInv, Owned, Kinds
      <4>2. ASSUME NEW h \in more
            PROVE  h[1] \in Kinds' /\ h[1] # "offsets" /\ (h[1] = "bytes" => h = Mem("bytes"))
        <5>1. h = <<"procedures_of", module>> \/ h = Mem("bytes")
          BY <4>2
        <5>2. h[1] = "procedures_of" \/ (h[1] = "bytes" /\ h = Mem("bytes"))
          BY <5>1 DEF Mem
        <5>3. "procedures_of" \in Kinds' /\ "bytes" \in Kinds'
          BY <3>1 DEF Kinds, OfImage
        <5> QED
          BY <5>2, <5>3
      <4> HIDE DEF more
      <4> QED
        BY <4>1, <4>2
    <3> HIDE DEF more
    <3>3. module' \in Nat \ {0} /\ proc' \in Nat \ {0}
      BY <2>1, <3>1
    <3> QED
      BY <1>1, <2>1, <3>1, <3>2, <3>3, GoingOn
  <2> QED
    BY <2>2, <2>3
<1> QED
  BY <1>2, <1>3, <1>4

\* The procedure out of range leaves the bytes of its module, and nothing else.
LEMMA OutOfRangeStep ==
  ASSUME LoadInv, ProcedureOutOfRange
  PROVE  LoadInv'
<1>1. /\ at = "procedure" /\ at' = "done" /\ result' = "PROCEDURE_OUT_OF_RANGE" /\ image' = NoImage
      /\ held' = {h \in held \union {} : h[1] \notin OfImage \union Files \union {"offsets"}}
      /\ UNCHANGED <<case, module, proc>>
  BY DEF ProcedureOutOfRange, FailModules, Fail
<1>2. \A h \in held' : h = Mem("bytes") /\ h[1] = "bytes"
  BY <1>1 DEF LoadInv, Owned, Kinds
<1>3. TypeOK'
  BY <1>1, <1>2 DEF LoadInv, TypeOK, Results
<1>4. FailuresFreeAll'
  BY <1>1, <1>2 DEF FailuresFreeAll
<1>5. \A h \in held' : /\ h[1] \in Kinds' /\ (h[1] = "offsets" => h = Mem("offsets"))
                       /\ (h[1] = "bytes" => h = Mem("bytes"))
  BY <1>1, <1>2 DEF Kinds
<1> QED
  BY <1>3, <1>4, <1>5 DEF LoadInv, Owned

LEMMA ProcedureStep ==
  ASSUME LoadInv, HeaderTruncated \/ ReadProcedure
  PROVE  LoadInv'
<1>1. at = "procedure"
  BY DEF HeaderTruncated, ReadProcedure
<1>2. CASE HeaderTruncated
  <2>1. FailProcedure("HEADER_PARSE")
    BY <1>2 DEF HeaderTruncated
  <2> QED
    BY <1>1, <2>1, FailProcedureGood DEF Results
<1>3. CASE ReadProcedure
  <2> DEFINE more == IF Parsed.inits # <<>> THEN {<<"initializers_of", module, proc>>} ELSE {}
  <2>1. /\ GoOn("procedure", more) /\ at' = "procedure" /\ module' = module /\ proc' = proc + 1
        /\ DOMAIN image' = DOMAIN image
    BY <1>3 DEF ReadProcedure, GoOn
  <2>2. \A h \in more : h[1] = "initializers_of"
    OBVIOUS
  <2> HIDE DEF more
  <2>3. \A h \in held \union more : /\ h[1] \in Kinds' /\ (h[1] = "offsets" => h = Mem("offsets"))
                                  /\ (h[1] = "bytes" => h = Mem("bytes"))
    BY <1>1, <2>1, <2>2 DEF LoadInv, Owned, Kinds, OfImage
  <2>4. module' \in Nat \ {0} /\ proc' \in Nat \ {0} /\ DOMAIN image' = DOMAIN NoImage
    BY <2>1 DEF LoadInv, TypeOK
  <2> QED
    BY <1>1, <2>1, <2>3, <2>4, GoingOn
<1> QED
  BY <1>2, <1>3

\* What is freed at the end of a module, and of all modules, is gone.
LEMMA EndStep ==
  ASSUME LoadInv, EndModule \/ EndModules
  PROVE  LoadInv'
<1>1. CASE EndModule
  <2>1. /\ at = "procedure" /\ at' = "module" /\ held' = held \ {Mem("bytes")}
        /\ module' = module + 1 /\ proc' = 1 /\ UNCHANGED <<case, image, result>>
    BY <1>1 DEF EndModule
  <2>2. TypeOK'
    BY <2>1 DEF LoadInv, TypeOK
  <2>3. \A h \in held' : /\ h[1] \in Kinds' /\ (h[1] = "offsets" => h = Mem("offsets"))
                         /\ (h[1] = "bytes" => h = Mem("bytes"))
    BY <2>1 DEF LoadInv, Owned, Kinds
  <2> QED
    BY <2>1, <2>2, <2>3 DEF LoadInv, Owned, FailuresFreeAll
<1>2. CASE EndModules
  <2>1. /\ at = "module" /\ at' = "ram" /\ held' = held \ {Mem("offsets")}
        /\ UNCHANGED <<case, module, proc, image, result>>
    BY <1>2 DEF EndModules
  <2>2. TypeOK'
    BY <2>1 DEF LoadInv, TypeOK
  <2>3. \A h \in held' : /\ h[1] \in Kinds' /\ (h[1] = "offsets" => h = Mem("offsets"))
                         /\ (h[1] = "bytes" => h = Mem("bytes"))
    BY <2>1 DEF LoadInv, Owned, Kinds
  <2> QED
    BY <2>1, <2>2, <2>3 DEF LoadInv, Owned, FailuresFreeAll
<1> QED
  BY <1>1, <1>2

LEMMA RamStep ==
  ASSUME LoadInv, RejectRam \/ CopyRam \/ RejectEntry
  PROVE  LoadInv'
<1>1. CASE RejectRam
  <2>1. at = "ram" /\ FailLoad("INITIAL_RAM_TRUNCATED", {})
    BY <1>1 DEF RejectRam
  <2> QED
    BY <2>1, FailLoadGood DEF Results
<1>2. CASE RejectEntry
  <2>1. at = "entry" /\ FailLoad("ENTRY_OUT_OF_RANGE", {})
    BY <1>2 DEF RejectEntry
  <2> QED
    BY <2>1, FailLoadGood DEF Results
<1>3. CASE CopyRam
  <2> DEFINE more == {Mem("ram")}
  <2>1. /\ at = "ram" /\ GoOn("entry", more) /\ at' = "entry" /\ UNCHANGED <<module, proc>>
        /\ DOMAIN image' = DOMAIN image
    BY <1>3 DEF CopyRam, GoOn
  <2>2. \A h \in held \union more : /\ h[1] \in Kinds' /\ (h[1] = "offsets" => h = Mem("offsets"))
                                  /\ (h[1] = "bytes" => h = Mem("bytes"))
    BY <2>1 DEF LoadInv, Owned, Kinds, OfImage, Mem
  <2>3. module' \in Nat \ {0} /\ proc' \in Nat \ {0} /\ DOMAIN image' = DOMAIN NoImage
    BY <2>1 DEF LoadInv, TypeOK
  <2> HIDE DEF more
  <2> QED
    BY <2>1, <2>2, <2>3, GoingOn
<1> QED
  BY <1>1, <1>2, <1>3

LEMMA AcceptStep ==
  ASSUME LoadInv, Accept
  PROVE  LoadInv'
<1>1. /\ at = "entry" /\ at' = "done" /\ result' = "OK" /\ held' = {h \in held : h[1] \notin Files}
      /\ UNCHANGED <<case, module, proc, image>>
  BY DEF Accept
<1>2. \A h \in held' : h[1] \in OfImage /\ h[1] # "offsets" /\ h[1] # "bytes"
  BY <1>1 DEF LoadInv, Owned, Kinds, OfImage
<1>3. TypeOK'
  BY <1>1, <1>2 DEF LoadInv, TypeOK, Results
<1>4. FailuresFreeAll'
  BY <1>1, <1>2 DEF FailuresFreeAll
<1>5. Owned'
  BY <1>1, <1>2, <1>4 DEF Owned, Kinds
<1> QED
  BY <1>3, <1>5 DEF LoadInv

LEMMA AllocStep ==
  ASSUME LoadInv, AllocFails
  PROVE  LoadInv'
<1>1. "ALLOC" \in Results \ {"none", "OK"}
  BY DEF Results
<1>2. CASE at = "globals"
  <2>1. PICK got : FailLoad("ALLOC", got) /\ (got = {} \/ \E m : got \subseteq ArraysBefore(m))
    <3>1. \/ FailLoad("ALLOC", {})
          \/ FailLoad("ALLOC", ArraysBefore(1) \ {Mem("module_globals")})
          \/ \E m : FailLoad("ALLOC", ArraysBefore(m))
      BY <1>2 DEF AllocFails
    <3> QED
      BY <3>1
  <2>2. \A h \in got : h[1] \in OfImage
    BY <2>1, ArraysOfImage
  <2> QED
    BY <1>1, <1>2, <2>1, <2>2, FailLoadGood
<1>3. CASE at = "offsets"
  <2>1. FailLoad("ALLOC", {}) \/ FailModules("ALLOC", {Mem("offsets")})
    BY <1>3 DEF AllocFails
  <2>2. \A h \in {Mem("offsets")} : h[1] \in OfImage \union {"offsets"}
    BY DEF Mem
  <2> QED
    BY <1>1, <1>3, <2>1, <2>2, FailLoadGood, FailModulesGood
<1>4. CASE at = "module"
  <2>1. FailModules("ALLOC", {})
    BY <1>4 DEF AllocFails
  <2> QED
    BY <1>1, <1>4, <2>1, FailModulesGood
<1>5. CASE at = "procedure"
  <2>1. FailProcedure("ALLOC")
    BY <1>5 DEF AllocFails
  <2> QED
    BY <1>1, <1>5, <2>1, FailProcedureGood
<1>6. CASE at = "ram"
  <2>1. FailLoad("ALLOC", {})
    BY <1>6 DEF AllocFails
  <2> QED
    BY <1>1, <1>6, <2>1, FailLoadGood
<1> QED
  BY <1>2, <1>3, <1>4, <1>5, <1>6 DEF AllocFails

\* The loader gives back what it took, wherever it fails.
LEMMA LoadsInv == Spec => []LoadInv
<1>1. Init => LoadInv
  BY DEF Init, LoadInv, TypeOK, Owned, FailuresFreeAll, NoImage, Results
<1>2. ASSUME LoadInv, [Next]_vars PROVE LoadInv'
  <2>1. CASE UNCHANGED vars
    BY <1>2, <2>1 DEF vars, LoadInv, TypeOK, Owned, FailuresFreeAll, Kinds
  <2>2. CASE CannotRead \/ ReadFiles
    BY <1>2, <2>2, FilesStep
  <2>3. CASE RejectHeader \/ AcceptHeader
    BY <1>2, <2>3, HeaderStep
  <2>4. CASE ReadGlobals \/ ReadOffsets
    BY <1>2, <2>4, GlobalsStep, OffsetsStep
  <2>5. CASE SpanInvalid \/ BeginModule \/ CannotReadModule
    BY <1>2, <2>5, ModuleStep
  <2>6. CASE ProcedureOutOfRange \/ HeaderTruncated \/ ReadProcedure
    BY <1>2, <2>6, OutOfRangeStep, ProcedureStep
  <2>7. CASE EndModule \/ EndModules
    BY <1>2, <2>7, EndStep
  <2>8. CASE RejectRam \/ CopyRam \/ RejectEntry
    BY <1>2, <2>8, RamStep
  <2>9. CASE Accept \/ AllocFails
    BY <1>2, <2>9, AcceptStep, AllocStep
  <2>10. CASE Done
    BY <2>1, <2>10 DEF Done
  <2> QED
    BY <1>2, <2>1, <2>2, <2>3, <2>4, <2>5, <2>6, <2>7, <2>8, <2>9, <2>10 DEF Next
<1> QED
  BY <1>1, <1>2, PTL DEF Spec

\* TypeOK of the loader, for any two files.
THEOREM LoaderTypes == Spec => []TypeOK
<1>1. LoadInv => TypeOK
  BY DEF LoadInv
<1> QED
  BY <1>1, LoadsInv, PTL

\* FailuresFreeAll: a load that fails, at whichever step and whichever allocation,
\* gives back all it took, but for the bytes of a module with an offset out of
\* range, and one that succeeds keeps nothing but the image; for any two files.
THEOREM LoaderFreesAll == Spec => []FailuresFreeAll
<1>1. LoadInv => FailuresFreeAll
  BY DEF LoadInv, Owned
<1> QED
  BY <1>1, LoadsInv, PTL

----------------------------------------------------------------------------
(* Division *)

LEMMA Division ==
  ASSUME NEW m \in Int, NEW n \in Nat \ {0}
  PROVE  m = n * (m \div n) + (m % n) /\ m % n \in 0 .. n - 1 /\ m \div n \in Int
OBVIOUS

\* A number that is so many times n and a rest below n has that rest.
LEMMA RestOfMultiple ==
  ASSUME NEW n \in Nat \ {0}, NEW k \in Int, NEW r \in 0 .. n - 1
  PROVE  (n * k + r) % n = r
OBVIOUS

LEMMA WordIs ==
  ASSUME NEW w \in 0 .. W - 1
  PROVE  w \in Int /\ 0 <= w /\ w <= 65535
BY DEF W

\* What is left of a word is that word.
LEMMA WordKeeps ==
  ASSUME NEW w \in 0 .. W - 1
  PROVE  Word(w) = w
<1>1. w \in Int /\ 0 <= w /\ w < 65536
  BY WordIs
<1>2. w % 65536 = w
  BY <1>1
<1> QED
  BY <1>2 DEF Word, W

----------------------------------------------------------------------------
(* The instruction a step presents *)

Bytes == Seq(Nat)

\* An initial value of a local
Locals == 0 .. 63

WordValues == 0 .. W - 1

Inits == [local : Locals, value : WordValues]

LEMMA BytesAreNumbers == Seq(0 .. 255) \subseteq Seq(Nat)
<1>1. 0 .. 255 \subseteq Nat
  OBVIOUS
<1> QED
  BY <1>1, SeqMonotonic, Zenon

\* Components that TypedBytes takes: a byte's number of them, all of one size
Components == {c \in Seq(Bytes) : /\ Len(c) \in 1 .. 255 /\ Len(c[1]) \in 1 .. 255
                                  /\ \A j \in DOMAIN c : Len(c[j]) = Len(c[1])}

\* Fields whose lengths and number a record can state
FieldLists == {q \in Seq(Bytes) : Len(q) \in 1 .. 255 /\ \A i \in DOMAIN q : Len(q[i]) <= 127}

\* A record behind typed fields, as the property lays it out
GoodRecord(r) ==
  /\ r.prefix \in Seq(Components) /\ r.fields \in FieldLists
  /\ r.tag \in 0 .. 255 /\ r.room \in Nat /\ r.guard \in Nat
  /\ Len(PrefixBytes(r)) + Len(RecordFields(r)) < 2 * (W - 1)

\* What the constants may hold is such a record.
LEMMA RecordsAreGood ==
  ASSUME NEW r \in Records
  PROVE  GoodRecord(r)
<1> DEFINE p == r.prefix
           q == r.fields
<1>1. /\ p \in Seq(Seq(Seq(0 .. 255))) /\ q \in Seq(Seq(0 .. 255))
      /\ \A i \in DOMAIN p :
           /\ Len(p[i]) \in 1 .. 255 /\ Len(p[i][1]) \in 1 .. 255
           /\ \A j \in DOMAIN p[i] : Len(p[i][j]) = Len(p[i][1])
      /\ Len(q) \in 1 .. 255 /\ \A i \in DOMAIN q : Len(q[i]) <= 127
      /\ r.tag \in 0 .. 255 /\ r.room \in 0 .. W - 1 /\ r.guard \in 0 .. W - 1
      /\ Len(PrefixBytes(r)) + Len(RecordFields(r)) < 2 * (W - 1)
  BY RecordsAssumption, ZenonT(60)
<1> HIDE DEF p, q
<1>2. Seq(Seq(0 .. 255)) \subseteq Seq(Bytes)
  BY BytesAreNumbers, SeqMonotonic DEF Bytes
<1>3. q \in FieldLists
  BY <1>1, <1>2 DEF FieldLists
<1>4. Len(p) \in Nat /\ DOMAIN p = 1 .. Len(p) /\ \A i \in 1 .. Len(p) : p[i] \in Seq(Seq(0 .. 255))
  BY <1>1, LenProperties, ElementOfSeq
<1>5. \A i \in 1 .. Len(p) : p[i] \in Components
  BY <1>1, <1>2, <1>4, ZenonT(40) DEF Components
<1>6. p \in Seq(Components)
  <2> DEFINE n == Len(p)
  <2>1. n \in Nat /\ p = [i \in 1 .. n |-> p[i]] /\ \A i \in 1 .. n : p[i] \in Components
    BY <1>1, <1>4, <1>5, LenProperties
  <2> HIDE DEF n
  <2> QED
    BY <2>1
<1>7. r.room \in Nat /\ r.guard \in Nat
  BY <1>1
<1> QED
  BY <1>1, <1>3, <1>6, <1>7, ZenonT(40) DEF GoodRecord, p, q

\* What EXTRACT's operands are
KnownExtract(step) ==
  GoodRecord(step.record) /\ step.mode \in {0, 1, 2, 3, 65535, FalseWord}

\* What each instruction's operands are
Known(step) ==
  /\ step.kind = "header" =>
       /\ step.header.locals \in 0 .. 127 /\ step.header.inits \in Seq(Inits)
       /\ Len(step.header.inits) <= 64
  /\ step.kind = "extract" => KnownExtract(step)

CaseKnown == Known(asked)

LEMMA CasesKnown == OperatorsSpec => []CaseKnown
<1>1. OperatorsInit => CaseKnown
  BY DEF OperatorsInit, None, CaseKnown, Known
<1>2. ASSUME CaseKnown, [OperatorsNext]_asked PROVE CaseKnown'
  <2>1. CASE UNCHANGED asked
    BY <1>2, <2>1, Zenon DEF CaseKnown
  <2>2. CASE Compute
    BY <2>2 DEF Compute, Present, CaseKnown, Known
  <2>3. CASE Jump
    BY <2>3 DEF Jump, Present, CaseKnown, Known
  <2>4. CASE Branch
    BY <2>4 DEF Branch, Present, CaseKnown, Known
  <2>5. CASE AccessField
    BY <2>5 DEF AccessField, Present, CaseKnown, Known
  <2>6. CASE Compare
    BY <2>6 DEF Compare, Present, CaseKnown, Known
  <2>7. CASE CompareSortKeys
    BY <2>7 DEF CompareSortKeys, Present, CaseKnown, Known
  <2>8. CASE Unpack
    BY <2>8 DEF Unpack, Present, CaseKnown, Known
  <2>9. CASE Enter
    <3>1. Headers \subseteq [locals : 0 .. 127, inits : {s \in Seq(Inits) : Len(s) <= 64}]
      <4>1. Headers \subseteq [locals : 0 .. 127,
                               inits : {s \in Seq([local : 0 .. 63, value : 0 .. W - 1]) : Len(s) <= 64}]
        BY HeadersAssumption
      <4>2. [local : 0 .. 63, value : 0 .. W - 1] = Inits
        BY Zenon DEF Inits, Locals, WordValues
      <4> QED
        BY <4>1, <4>2, Zenon
    <3>2. PICK header \in Headers : asked' = [kind |-> "header", header |-> header]
      BY <2>9 DEF Enter, Present
    <3>3. header.locals \in 0 .. 127 /\ header.inits \in Seq(Inits) /\ Len(header.inits) <= 64
      BY <3>1
    <3>4. asked'.kind = "header" /\ asked'.header = header
      BY <3>2
    <3> QED
      BY <3>3, <3>4 DEF CaseKnown, Known
  <2>10. CASE ExtractItem
    <3>1. PICK r \in Records, mode \in {0, 1, 2, 3, 65535, FalseWord} :
            asked' = [kind |-> "extract", record |-> r, mode |-> mode]
      BY <2>10 DEF ExtractItem, Present
    <3>2. GoodRecord(r)
      BY RecordsAreGood
    <3>3. asked'.kind = "extract" /\ asked'.record = r /\ asked'.mode = mode
      BY <3>1
    <3> QED
      BY <3>2, <3>3 DEF CaseKnown, Known, KnownExtract
  <2>11. CASE TakeAway
    BY <2>11 DEF TakeAway, None, CaseKnown, Known
  <2> QED
    BY <1>2, <2>1, <2>2, <2>3, <2>4, <2>5, <2>6, <2>7, <2>8, <2>9, <2>10, <2>11 DEF OperatorsNext
<1> QED
  BY <1>1, <1>2, PTL DEF OperatorsSpec

----------------------------------------------------------------------------
(* Induction over sequences.  The library's induction theorems take an      *)
(* operator, which no prover here instantiates; a set takes its place.      *)

\* Among natural numbers there is always a least.
LEMMA LeastNat ==
  ASSUME NEW T \in SUBSET Nat, T # {}
  PROVE  \E x \in T : \A y \in T : x <= y
<1>1. PICK x \in T : \A y \in T : ~ (<<y, x>> \in OpToRel(<, Nat))
  BY NatLessThanWellFounded, WFMin
<1>2. \A y \in T : ~ (y < x)
  BY <1>1 DEF OpToRel
<1> QED
  BY <1>2

\* Induction up to a bound, for sets: what holds of 0 and goes on holds up to there.
LEMMA UpTo ==
  ASSUME NEW T, NEW N \in Nat, 0 \in T, \A n \in 0 .. N - 1 : n \in T => n + 1 \in T
  PROVE  \A n \in 0 .. N : n \in T
<1> DEFINE Wrong == {n \in 0 .. N : n \notin T}
<1>1. ASSUME Wrong # {} PROVE FALSE
  <2>1. Wrong \in SUBSET Nat
    OBVIOUS
  <2>2. PICK n \in Wrong : \A j \in Wrong : n <= j
    BY <1>1, <2>1, LeastNat
  <2>3. n # 0 /\ n \in 0 .. N /\ n \notin T
    BY <2>2
  <2>4. n - 1 \in 0 .. N - 1 /\ n - 1 \in 0 .. N /\ ~ (n <= n - 1) /\ (n - 1) + 1 = n
    BY <2>3
  <2>5. n - 1 \in T
    BY <2>2, <2>4
  <2> QED
    BY <2>3, <2>4, <2>5
<1> QED
  BY <1>1

\* f lists what a sequence of sequences is when its first n are joined.
Joins(f, s, S) ==
  /\ f \in [0 .. Len(s) -> Seq(S)] /\ f[0] = << >>
  /\ \A i \in 1 .. Len(s) : f[i] = f[i - 1] \o s[i]

LEMMA JoinsExist ==
  ASSUME NEW S, NEW s \in Seq(Seq(S))
  PROVE  \E f : Joins(f, s, S)
<1> DEFINE JoinsTo(n, f) == /\ f \in [0 .. n -> Seq(S)] /\ f[0] = << >>
                            /\ \A i \in 1 .. n : f[i] = f[i - 1] \o s[i]
           T == {n \in Nat : \E f : JoinsTo(n, f)}
<1>1. 0 \in T
  <2> DEFINE f == [i \in 0 .. 0 |-> << >>]
  <2>1. << >> \in Seq(S)
    BY EmptySeq
  <2>2. JoinsTo(0, f)
    BY <2>1
  <2> QED
    BY <2>2
<1>2. ASSUME NEW n \in 0 .. Len(s) - 1, n \in T PROVE n + 1 \in T
  <2>1. PICK f : JoinsTo(n, f)
    BY <1>2
  <2> DEFINE g == [i \in 0 .. n + 1 |-> IF i = n + 1 THEN f[n] \o s[n + 1] ELSE f[i]]
  <2>2. n \in Nat /\ n + 1 \in 1 .. Len(s) /\ n \in 0 .. n
    BY LenProperties
  <2>3. f[n] \in Seq(S) /\ s[n + 1] \in Seq(S)
    BY <2>1, <2>2, ElementOfSeq
  <2>4. f[n] \o s[n + 1] \in Seq(S)
    BY <2>3, ConcatProperties
  <2>5. g \in [0 .. n + 1 -> Seq(S)] /\ g[0] = << >>
    BY <2>1, <2>2, <2>4
  <2>6. ASSUME NEW i \in 1 .. n + 1 PROVE g[i] = g[i - 1] \o s[i]
    <3>0. i \in 0 .. n + 1 /\ i - 1 \in 0 .. n + 1 /\ i - 1 # n + 1
      BY <2>2
    <3>3. g[i - 1] = f[i - 1] /\ g[i] = IF i = n + 1 THEN f[n] \o s[n + 1] ELSE f[i]
      BY <3>0
    <3> HIDE DEF g
    <3>1. CASE i = n + 1
      <4>1. i - 1 = n
        BY <2>2, <3>1
      <4> QED
        BY <3>1, <3>3, <4>1
    <3>2. CASE i # n + 1
      <4>1. i \in 1 .. n
        BY <2>2, <3>2
      <4>2. f[i] = f[i - 1] \o s[i]
        BY <2>1, <4>1
      <4> QED
        BY <3>2, <3>3, <4>2
    <3> QED
      BY <3>1, <3>2
  <2>7. JoinsTo(n + 1, g)
    BY <2>5, <2>6
  <2> HIDE DEF g, JoinsTo
  <2> QED
    BY <2>2, <2>7
<1>3. Len(s) \in Nat
  BY LenProperties
<1> HIDE DEF T
<1>4. \A n \in 0 .. Len(s) - 1 : n \in T => n + 1 \in T
  BY <1>2
<1>5. \A n \in 0 .. Len(s) : n \in T
  BY <1>1, <1>3, <1>4, UpTo
<1>6. Len(s) \in T
  BY <1>3, <1>5
<1> QED
  BY <1>6 DEF T, Joins

\* FlattenSeq joins them all.
LEMMA FlattenJoins ==
  ASSUME NEW S, NEW s \in Seq(Seq(S)), NEW f, Joins(f, s, S)
  PROVE  FlattenSeq(s) = f[Len(s)]
<1>1. Len(s) \in Nat /\ (Len(s) = 0 => s = << >>)
  BY LenProperties, EmptySeq
<1>2. CASE Len(s) = 0
  BY <1>1, <1>2 DEF FlattenSeq, Joins
<1>3. CASE Len(s) # 0
  <2> DEFINE step(h) == [i \in 1 .. Len(s) |-> IF i = 1 THEN s[i] ELSE h[i - 1] \o s[i]]
             flatten == CHOOSE h : h = step(h)
  <2>1. FlattenSeq(s) = flatten[Len(s)]
    BY <1>3 DEF FlattenSeq
  <2>2. \E h : h = step(h)
    <3> DEFINE h == [i \in 1 .. Len(s) |-> f[i]]
    <3>1. ASSUME NEW i \in 1 .. Len(s) PROVE h[i] = IF i = 1 THEN s[i] ELSE h[i - 1] \o s[i]
      <4>1. h[i] = f[i - 1] \o s[i] /\ s[i] \in Seq(S)
        BY <1>1, ElementOfSeq DEF Joins
      <4>2. CASE i = 1
        <5>1. f[0] = << >> /\ i - 1 = 0
          BY <4>2 DEF Joins
        <5> QED
          BY <4>1, <4>2, <5>1, ConcatEmptySeq
      <4>3. CASE i # 1
        <5>1. i - 1 \in 1 .. Len(s)
          BY <1>1, <4>3
        <5> QED
          BY <4>1, <4>3, <5>1
      <4> QED
        BY <4>2, <4>3
    <3>2. h = step(h)
      BY <3>1
    <3> QED
      BY <3>2
  <2>3. flatten = step(flatten)
    BY <2>2, Zenon
  <2> HIDE DEF flatten
  <2> DEFINE T == {n \in Nat : n = 0 \/ flatten[n] = f[n]}
  <2>4. ASSUME NEW n \in 0 .. Len(s) - 1, n \in T PROVE n + 1 \in T
    <3>1. n + 1 \in 1 .. Len(s) /\ (n + 1) - 1 = n /\ n + 1 \in Nat
      BY <1>1
    <3>2. flatten[n + 1] = IF n + 1 = 1 THEN s[n + 1] ELSE flatten[n] \o s[n + 1]
      BY <2>3, <3>1
    <3>3. f[n + 1] = f[n] \o s[n + 1] /\ s[n + 1] \in Seq(S)
      BY <3>1, ElementOfSeq DEF Joins
    <3>4. CASE n = 0
      <4>1. f[0] = << >>
        BY DEF Joins
      <4> QED
        BY <3>1, <3>2, <3>3, <3>4, <4>1, ConcatEmptySeq
    <3>5. CASE n # 0
      <4>1. flatten[n] = f[n]
        BY <2>4, <3>5
      <4>2. flatten[n + 1] = f[n + 1]
        <5>1. n + 1 # 1
          BY <3>1, <3>5
        <5>2. flatten[n + 1] = flatten[n] \o s[n + 1]
          BY <3>2, <5>1, Zenon
        <5> QED
          BY <3>3, <4>1, <5>2, Zenon
      <4> QED
        BY <3>1, <4>2
    <3> QED
      BY <3>4, <3>5
  <2>5. 0 \in T
    OBVIOUS
  <2> HIDE DEF T
  <2>6. \A n \in 0 .. Len(s) - 1 : n \in T => n + 1 \in T
    BY <2>4
  <2>7. \A n \in 0 .. Len(s) : n \in T
    BY <1>1, <2>5, <2>6, UpTo
  <2>8. Len(s) \in T
    BY <1>1, <2>7
  <2> QED
    BY <1>3, <2>1, <2>8 DEF T
<1> QED
  BY <1>2, <1>3

----------------------------------------------------------------------------
(* Strings *)

LEMMA LeastOf ==
  ASSUME NEW T \in SUBSET Nat, T # {}
  PROVE  Min(T) \in T /\ \A y \in T : Min(T) <= y
BY LeastNat DEF Min

LEMMA SmallerOf ==
  ASSUME NEW n \in Nat, NEW m \in Nat
  PROVE  Min({n, m}) = IF n <= m THEN n ELSE m
<1>1. {n, m} \in SUBSET Nat /\ {n, m} # {}
  OBVIOUS
<1>2. Min({n, m}) \in {n, m} /\ \A y \in {n, m} : Min({n, m}) <= y
  BY <1>1, LeastOf
<1> QED
  BY <1>2

\* Where the i-th of joined sequences lies: behind those before it.
Lies(f, s, i) ==
  /\ Len(f[i - 1]) \in Nat /\ Len(f[i]) = Len(f[i - 1]) + Len(s[i])
  /\ Len(f[i]) <= Len(f[Len(s)])
  /\ \A k \in 1 .. Len(s[i]) : f[Len(s)][Len(f[i - 1]) + k] = s[i][k]

LEMMA JoinedAt ==
  ASSUME NEW S, NEW s \in Seq(Seq(S)), NEW f, Joins(f, s, S), NEW i \in 1 .. Len(s)
  PROVE  Lies(f, s, i)
<1> DEFINE n == Len(s)
<1>1. n \in Nat /\ i \in Nat
  BY LenProperties
<1>2. ASSUME NEW j \in 0 .. n PROVE f[j] \in Seq(S) /\ Len(f[j]) \in Nat
  <2>1. f[j] \in Seq(S)
    BY DEF Joins
  <2> QED
    BY <2>1, LenProperties
<1>3. ASSUME NEW j \in 1 .. n
      PROVE  /\ f[j] = f[j - 1] \o s[j] /\ Len(f[j]) = Len(f[j - 1]) + Len(s[j])
             /\ Len(s[j]) \in Nat /\ Len(f[j - 1]) \in Nat /\ Len(f[j]) \in Nat
             /\ \A k \in 1 .. Len(f[j]) :
                  f[j][k] = IF k <= Len(f[j - 1]) THEN f[j - 1][k] ELSE s[j][k - Len(f[j - 1])]
  <2>1. j - 1 \in 0 .. n /\ j \in 0 .. n
    BY <1>1
  <2>2. s[j] \in Seq(S)
    BY ElementOfSeq
  <2>3. f[j - 1] \in Seq(S) /\ f[j] \in Seq(S) /\ Len(f[j - 1]) \in Nat /\ Len(f[j]) \in Nat
    BY <1>2, <2>1
  <2>4. f[j] = f[j - 1] \o s[j]
    BY DEF Joins
  <2>5. Len(s[j]) \in Nat
    BY <2>2, LenProperties
  <2> DEFINE x == f[j - 1]
             y == s[j]
  <2>6. x \in Seq(S) /\ y \in Seq(S)
    BY <2>2, <2>3
  <2> HIDE DEF x, y
  <2>7. /\ Len(x \o y) = Len(x) + Len(y)
        /\ \A k \in 1 .. Len(x) + Len(y) : (x \o y)[k] = IF k <= Len(x) THEN x[k] ELSE y[k - Len(x)]
    BY <2>6, ConcatProperties
  <2>8. f[j] = x \o y
    BY <2>4 DEF x, y
  <2>9. /\ Len(f[j]) = Len(x) + Len(y)
        /\ \A k \in 1 .. Len(f[j]) : f[j][k] = IF k <= Len(x) THEN x[k] ELSE y[k - Len(x)]
    BY <2>7, <2>8
  <2> QED
    BY <2>3, <2>4, <2>5, <2>9 DEF x, y
<1> DEFINE T == {j \in Nat : j >= i => /\ Len(f[i]) <= Len(f[j])
                                      /\ \A k \in 1 .. Len(f[i]) : f[j][k] = f[i][k]}
<1>4. 0 \in T
  BY <1>1
<1>5. ASSUME NEW j \in 0 .. n - 1, j \in T PROVE j + 1 \in T
  <2>1. /\ j + 1 \in 1 .. n /\ (j + 1) - 1 = j /\ j + 1 \in Nat
    BY <1>1
  <2>2. /\ Len(f[j + 1]) = Len(f[j]) + Len(s[j + 1])
        /\ Len(s[j + 1]) \in Nat /\ Len(f[j]) \in Nat /\ Len(f[j + 1]) \in Nat
        /\ \A k \in 1 .. Len(f[j + 1]) :
             f[j + 1][k] = IF k <= Len(f[j]) THEN f[j][k] ELSE s[j + 1][k - Len(f[j])]
    BY <1>3, <2>1
  <2>3. Len(f[i]) \in Nat
    BY <1>3
  <2>4. CASE j >= i
    <3>1. Len(f[i]) <= Len(f[j]) /\ \A k \in 1 .. Len(f[i]) : f[j][k] = f[i][k]
      BY <1>5, <2>4
    <3> DEFINE u == Len(f[i])
               v == Len(f[j])
               w == Len(f[j + 1])
               z == Len(s[j + 1])
    <3>4. u \in Nat /\ v \in Nat /\ z \in Nat /\ w = v + z /\ u <= v
      BY <2>2, <2>3, <3>1
    <3> HIDE DEF u, v, w, z
    <3>5. u <= w /\ \A k \in 1 .. u : k \in 1 .. w /\ k <= v
      BY <3>4
    <3>2. ASSUME NEW k \in 1 .. Len(f[i]) PROVE f[j + 1][k] = f[i][k]
      <4>1. k \in 1 .. Len(f[j + 1]) /\ k <= Len(f[j])
        BY <3>5 DEF u, v, w
      <4> QED
        BY <2>2, <3>1, <4>1
    <3>3. Len(f[i]) <= Len(f[j + 1])
      BY <3>5 DEF u, w
    <3> QED
      BY <2>1, <3>2, <3>3
  <2>5. CASE j + 1 = i
    BY <2>1, <2>3, <2>5
  <2>6. CASE ~ (j >= i) /\ j + 1 # i
    BY <1>1, <2>1, <2>6
  <2> QED
    BY <2>4, <2>5, <2>6
<1>6. \A j \in 0 .. n - 1 : j \in T => j + 1 \in T
  BY <1>5
<1> HIDE DEF T
<1>7. \A j \in 0 .. n : j \in T
  BY <1>1, <1>4, <1>6, UpTo
<1>8. n \in T /\ n >= i
  BY <1>1, <1>7
<1>9. Len(f[i]) <= Len(f[n]) /\ \A k \in 1 .. Len(f[i]) : f[n][k] = f[i][k]
  BY <1>8 DEF T
<1>10. ASSUME NEW k \in 1 .. Len(s[i]) PROVE f[n][Len(f[i - 1]) + k] = s[i][k]
  <2>1. Len(f[i - 1]) \in Nat /\ Len(s[i]) \in Nat /\ Len(f[i]) = Len(f[i - 1]) + Len(s[i])
    BY <1>3
  <2>2. /\ Len(f[i - 1]) + k \in 1 .. Len(f[i]) /\ ~ (Len(f[i - 1]) + k <= Len(f[i - 1]))
        /\ (Len(f[i - 1]) + k) - Len(f[i - 1]) = k
    <3> DEFINE u == Len(f[i - 1])
               v == Len(s[i])
               w == Len(f[i])
    <3>1. u \in Nat /\ v \in Nat /\ w = u + v /\ k \in 1 .. v
      BY <2>1
    <3> HIDE DEF u, v, w
    <3>2. u + k \in 1 .. w /\ ~ (u + k <= u) /\ (u + k) - u = k
      BY <3>1
    <3> QED
      BY <3>2 DEF u, w
  <2>3. f[i][Len(f[i - 1]) + k] = s[i][k]
    BY <1>3, <2>2
  <2> QED
    BY <1>9, <2>2, <2>3
<1>11. Len(f[i - 1]) \in Nat /\ Len(f[i]) = Len(f[i - 1]) + Len(s[i])
  BY <1>3
<1> QED
  BY <1>9, <1>10, <1>11 DEF Lies

----------------------------------------------------------------------------
(* Procedure headers *)

LEMMA InitIs ==
  ASSUME NEW init \in Inits
  PROVE  /\ init.local \in Int /\ 0 <= init.local /\ init.local < 64
         /\ init.value \in Int /\ 0 <= init.value /\ init.value < 65536
         /\ init = [local |-> init.local, value |-> init.value]
<1>1. init.local \in Locals /\ init.value \in WordValues
      /\ init = [local |-> init.local, value |-> init.value]
  BY DEF Inits
<1>2. \A l \in Locals : l \in Int /\ 0 <= l /\ l < 64
  BY DEF Locals
<1>3. \A v \in WordValues : v \in Int /\ 0 <= v /\ v < 65536
  <2>1. ASSUME NEW v \in WordValues PROVE v \in Int /\ 0 <= v /\ v < 65536
    <3>1. v \in 0 .. W - 1
      BY DEF WordValues
    <3>2. v \in Int /\ 0 <= v /\ v <= 65535
      BY <3>1, WordIs
    <3> QED
      BY <3>2
  <2> QED
    BY <2>1
<1> QED
  BY <1>1, <1>2, <1>3

\* What stands at a place of the code
StandsAt(code, c, e) == \A k \in 1 .. Len(e) : ByteAt(code, c + (k - 1)) = e[k]

\* A record is read as it was written.
ReadsRecord(code, c, e, init, last) ==
  /\ RecordSize(code, c) = Len(e)
  /\ InitializerAt(code, c) = [local |-> init.local, value |-> init.value, last |-> last]

LEMMA EncodedIs ==
  ASSUME NEW init \in Inits, NEW last \in BOOLEAN
  PROVE  /\ EncodeInitializer(init, last) \in Seq(Nat)
         /\ Len(EncodeInitializer(init, last)) \in {2, 3}
         /\ EncodeInitializer(init, last)[1] >= init.local
<1> DEFINE l == init.local
           v == init.value
           marker == (l % 64) + (IF last THEN 128 ELSE 0)
<1>1. l \in Int /\ 0 <= l /\ l < 64 /\ v \in Int /\ 0 <= v /\ v < 65536
  BY InitIs
<1>2. EncodeInitializer(init, last)
        = IF ByteSized(v) THEN <<marker + 64, v % 256>> ELSE <<marker, v % 256, v \div 256>>
  BY DEF EncodeInitializer
<1> HIDE DEF l, v
<1>3. l % 64 = l
  BY <1>1
<1>4. v % 256 \in Nat /\ v \div 256 \in Nat /\ marker \in Nat /\ marker + 64 \in Nat
      /\ marker >= l /\ marker + 64 >= l
  BY <1>1, <1>3
<1> HIDE DEF marker
<1>5. CASE ByteSized(v)
  BY <1>2, <1>4, <1>5 DEF l
<1>6. CASE ~ ByteSized(v)
  BY <1>2, <1>4, <1>6 DEF l
<1> QED
  BY <1>5, <1>6

LEMMA RecordReads ==
  ASSUME NEW init \in Inits, NEW last \in BOOLEAN, NEW code, NEW c \in Nat,
         StandsAt(code, c, EncodeInitializer(init, last))
  PROVE  ReadsRecord(code, c, EncodeInitializer(init, last), init, last)
<1> DEFINE l == init.local
           v == init.value
           marker == (l % 64) + (IF last THEN 128 ELSE 0)
           e == EncodeInitializer(init, last)
<1>1. l \in Int /\ 0 <= l /\ l < 64 /\ v \in Int /\ 0 <= v /\ v < 65536
  BY InitIs
<1>2. e = IF ByteSized(v) THEN <<marker + 64, v % 256>> ELSE <<marker, v % 256, v \div 256>>
  BY DEF EncodeInitializer
<1>3. \A k \in 1 .. Len(e) : ByteAt(code, c + (k - 1)) = e[k]
  BY DEF StandsAt
<1> HIDE DEF l, v, e
<1>4. l % 64 = l
  BY <1>1
<1> DEFINE m == ByteAt(code, c)
<1>5. CASE ByteSized(v)
  <2>1. Len(e) = 2 /\ e[1] = marker + 64 /\ e[2] = v % 256
    BY <1>2, <1>5
  <2>2. m = l + 64 + (IF last THEN 128 ELSE 0) /\ ByteAt(code, c + 1) = v % 256
    <3>1. 1 \in 1 .. Len(e) /\ 2 \in 1 .. Len(e) /\ c + (1 - 1) = c /\ c + (2 - 1) = c + 1
      BY <2>1
    <3>2. m = e[1] /\ ByteAt(code, c + 1) = e[2]
      BY <1>3, <3>1
    <3> QED
      BY <1>1, <1>4, <2>1, <3>2
  <2> HIDE DEF m
  <2>3. (m \div 64) % 2 = 1 /\ m % 64 = l /\ (m >= 128 <=> last)
    <3>1. CASE last
      <4>1. m = l + 192
        BY <1>1, <2>2, <3>1
      <4>2. m \div 64 = 3 /\ m % 64 = l
        BY <1>1, <4>1
      <4> QED
        BY <1>1, <3>1, <4>1, <4>2
    <3>2. CASE ~ last
      <4>1. m = l + 64
        BY <1>1, <2>2, <3>2
      <4>2. m \div 64 = 1 /\ m % 64 = l
        BY <1>1, <4>1
      <4> QED
        BY <1>1, <3>2, <4>1, <4>2
    <3> QED
      BY <3>1, <3>2
  <2>4. SignExtended(v % 256) = v
    <3>1. CASE v < 128
      <4>1. v % 256 = v
        BY <1>1, <3>1
      <4> QED
        BY <3>1, <4>1 DEF SignExtended
    <3>2. CASE v >= 65408
      <4>1. v % 256 = v - 65280
        BY <1>1, <3>2
      <4>2. ~ (v - 65280 < 128) /\ (v - 65280) + 65280 = v
        BY <1>1, <3>2
      <4> QED
        BY <4>1, <4>2 DEF SignExtended
    <3> QED
      BY <1>5, <3>1, <3>2 DEF ByteSized
  <2>5. RecordSize(code, c) = 2
    BY <2>3 DEF RecordSize, m
  <2>6. InitializerAt(code, c) = [local |-> l, value |-> v, last |-> m >= 128]
    BY <2>2, <2>3, <2>4 DEF InitializerAt, m
  <2>7. (m >= 128) = last
    BY <2>3
  <2> QED
    BY <2>1, <2>5, <2>6, <2>7 DEF ReadsRecord, l, v, e
<1>6. CASE ~ ByteSized(v)
  <2>1. Len(e) = 3 /\ e[1] = marker /\ e[2] = v % 256 /\ e[3] = v \div 256
    BY <1>2, <1>6
  <2>2. m = l + (IF last THEN 128 ELSE 0) /\ ByteAt(code, c + 1) = v % 256
        /\ ByteAt(code, c + 2) = v \div 256
    <3>1. 1 \in 1 .. Len(e) /\ 2 \in 1 .. Len(e) /\ 3 \in 1 .. Len(e)
          /\ c + (1 - 1) = c /\ c + (2 - 1) = c + 1 /\ c + (3 - 1) = c + 2
      BY <2>1
    <3>2. m = e[1] /\ ByteAt(code, c + 1) = e[2] /\ ByteAt(code, c + 2) = e[3]
      BY <1>3, <3>1
    <3> QED
      BY <1>1, <1>4, <2>1, <3>2
  <2> HIDE DEF m
  <2>3. (m \div 64) % 2 # 1 /\ m % 64 = l /\ (m >= 128 <=> last)
    <3>1. CASE last
      <4>1. m = l + 128
        BY <1>1, <2>2, <3>1
      <4>2. m \div 64 = 2 /\ m % 64 = l
        BY <1>1, <4>1
      <4> QED
        BY <1>1, <3>1, <4>1, <4>2
    <3>2. CASE ~ last
      <4>1. m = l
        BY <1>1, <2>2, <3>2
      <4>2. m \div 64 = 0 /\ m % 64 = l
        BY <1>1, <4>1
      <4> QED
        BY <1>1, <3>2, <4>1, <4>2
    <3> QED
      BY <3>1, <3>2
  <2>4. LE16(v % 256, v \div 256) = v
    <3>1. (v % 256) + 256 * (v \div 256) = v
      BY <1>1
    <3> QED
      BY <3>1 DEF LE16
  <2>5. RecordSize(code, c) = 3
    BY <2>3 DEF RecordSize, m
  <2>6. InitializerAt(code, c) = [local |-> l, value |-> v, last |-> m >= 128]
    BY <2>2, <2>3, <2>4 DEF InitializerAt, m
  <2>7. (m >= 128) = last
    BY <2>3
  <2> QED
    BY <2>1, <2>5, <2>6, <2>7 DEF ReadsRecord, l, v, e
<1> QED
  BY <1>5, <1>6

\* What InitializersFrom reads at a cursor, given what it reads further on
ReadOn(code, limit, read, c) ==
  IF c >= limit THEN Truncated
  ELSE IF c + RecordSize(code, c) > limit THEN Truncated
  ELSE LET record == InitializerAt(code, c)
           next   == c + RecordSize(code, c)
           first  == <<[local |-> record.local, value |-> record.value]>>
       IN  IF record.last
           THEN [ok |-> TRUE, inits |-> first, end |-> next]
           ELSE IF ~read[next].ok THEN Truncated
           ELSE [read[next] EXCEPT !.inits = first \o @]

\* read lists what is read from every cursor.
ReadsAll(code, limit, read) == read = [c \in 0 .. limit |-> ReadOn(code, limit, read, c)]

LEMMA ReadingExists ==
  ASSUME NEW code, NEW limit \in Nat
  PROVE  \E read : ReadsAll(code, limit, read)
<1> DEFINE Reads(n, h) == h = [c \in limit - n .. limit |-> ReadOn(code, limit, h, c)]
           T == {n \in Nat : \E h : Reads(n, h)}
<1>1. 0 \in T
  <2> DEFINE h == [c \in limit - 0 .. limit |-> Truncated]
  <2>1. ASSUME NEW c \in limit - 0 .. limit PROVE ReadOn(code, limit, h, c) = Truncated
    <3>1. c >= limit
      OBVIOUS
    <3> QED
      BY <3>1 DEF ReadOn
  <2>2. Reads(0, h)
    BY <2>1
  <2> HIDE DEF h, Reads
  <2> QED
    BY <2>2
<1>2. ASSUME NEW n \in 0 .. limit - 1, n \in T PROVE n + 1 \in T
  <2>1. PICK h : Reads(n, h)
    BY <1>2
  <2> DEFINE here == limit - (n + 1)
             g == [c \in here .. limit |-> IF c = here THEN ReadOn(code, limit, h, c) ELSE h[c]]
  <2>2. n \in Nat /\ n + 1 \in Nat /\ here \in Int /\ here + 1 = limit - n
    OBVIOUS
  <2>3. \A c \in limit - n .. limit : h[c] = ReadOn(code, limit, h, c)
    BY <2>1
  <2> HIDE DEF here
  <2>4. \A c \in limit - n .. limit : g[c] = h[c]
    BY <2>2
  <2> HIDE DEF g
  <2>5. ASSUME NEW c \in here .. limit PROVE ReadOn(code, limit, g, c) = ReadOn(code, limit, h, c)
    <3>1. CASE c >= limit
      BY <3>1 DEF ReadOn
    <3>2. CASE c + RecordSize(code, c) > limit
      BY <3>2 DEF ReadOn
    <3>3. CASE ~ (c + RecordSize(code, c) > limit)
      <4> DEFINE next == c + RecordSize(code, c)
      <4>1. RecordSize(code, c) \in {2, 3}
        BY DEF RecordSize
      <4>2. next \in limit - n .. limit
        BY <2>2, <3>3, <4>1
      <4>3. g[next] = h[next]
        BY <2>4, <4>2
      <4> QED
        BY <4>3 DEF ReadOn
    <3> QED
      BY <3>1, <3>2, <3>3
  <2>6. ASSUME NEW c \in here .. limit PROVE g[c] = ReadOn(code, limit, g, c)
    <3>1. CASE c = here
      <4>1. g[c] = ReadOn(code, limit, h, c)
        BY <3>1 DEF g
      <4> QED
        BY <2>5, <4>1
    <3>2. CASE c # here
      <4>1. c \in limit - n .. limit
        BY <2>2, <3>2
      <4> QED
        BY <2>3, <2>4, <2>5, <4>1
    <3> QED
      BY <3>1, <3>2
  <2>7. g = [c \in here .. limit |-> g[c]]
    BY DEF g
  <2>8. g = [c \in here .. limit |-> ReadOn(code, limit, g, c)]
    BY <2>6, <2>7
  <2>9. Reads(n + 1, g)
    BY <2>8 DEF here
  <2> HIDE DEF Reads
  <2> QED
    BY <2>2, <2>9
<1> HIDE DEF T
<1>3. \A n \in 0 .. limit - 1 : n \in T => n + 1 \in T
  BY <1>2
<1>4. \A n \in 0 .. limit : n \in T
  BY <1>1, <1>3, UpTo
<1>5. limit \in T
  BY <1>4
<1>6. PICK h : h = [c \in limit - limit .. limit |-> ReadOn(code, limit, h, c)]
  BY <1>5 DEF T
<1>7. limit - limit = 0
  OBVIOUS
<1> QED
  BY <1>6, <1>7 DEF ReadsAll

LEMMA ReadingIs ==
  ASSUME NEW code, NEW limit \in Nat, NEW from \in Nat
  PROVE  \E read : ReadsAll(code, limit, read) /\ InitializersFrom(code, limit, from) = read[from]
<1> DEFINE read == CHOOSE h : ReadsAll(code, limit, h)
<1>1. ReadsAll(code, limit, read)
  BY ReadingExists
<1>2. InitializersFrom(code, limit, from) = read[from]
  BY Zenon DEF InitializersFrom, ReadsAll, ReadOn
<1> HIDE DEF read
<1> QED
  BY <1>1, <1>2

\* Where the records stand between two places, when one stands where the one before ends
RecordPlaces(code, from, to, inits, place) ==
  /\ place \in [0 .. Len(inits) -> Nat] /\ place[0] = from /\ place[Len(inits)] = to
  /\ \A i \in 1 .. Len(inits) :
       /\ StandsAt(code, place[i - 1], EncodeInitializer(inits[i], i = Len(inits)))
       /\ place[i] = place[i - 1] + Len(EncodeInitializer(inits[i], i = Len(inits)))

LEMMA TailReplaced ==
  ASSUME NEW y, NEW w, NEW limit
  PROVE  [[ok |-> TRUE, inits |-> y, end |-> limit] EXCEPT !.inits = w]
           = [ok |-> TRUE, inits |-> w, end |-> limit]
<1> DEFINE x == [ok |-> TRUE, inits |-> y, end |-> limit]
           z == [x EXCEPT !.inits = w]
<1>1. x \in [ok : {TRUE}, inits : {y}, end : {limit}]
  OBVIOUS
<1> HIDE DEF x
<1>2. z \in [ok : {TRUE}, inits : {w}, end : {limit}]
  BY <1>1
<1> HIDE DEF z
<1>3. z = [ok |-> TRUE, inits |-> w, end |-> limit]
  BY <1>2
<1> QED
  BY <1>3 DEF x, z

\* Records that stand one behind the other within the limit are all read.
LEMMA RecordsRead ==
  ASSUME NEW code, NEW limit \in Nat, NEW inits \in Seq(Inits), inits # << >>,
         NEW start \in Nat, NEW to \in Nat, to <= limit,
         NEW place, RecordPlaces(code, start, to, inits, place)
  PROVE  InitializersFrom(code, limit, start) = [ok |-> TRUE, inits |-> inits, end |-> to]
<1> DEFINE n == Len(inits)
<1>0. n \in Nat \ {0} /\ Len(inits) = n
  BY LenProperties, EmptySeq
<1>a. /\ place \in [0 .. n -> Nat] /\ place[0] = start /\ place[n] = to
      /\ \A i \in 1 .. n : /\ StandsAt(code, place[i - 1], EncodeInitializer(inits[i], i = n))
                           /\ place[i] = place[i - 1] + Len(EncodeInitializer(inits[i], i = n))
  BY DEF RecordPlaces
<1> HIDE DEF n
<1> USE <1>0
<1> DEFINE tail(i) == SubSeq(inits, i, n)
           answer(i) == [ok |-> TRUE, inits |-> tail(i), end |-> to]
<1>2. PICK read : ReadsAll(code, limit, read) /\ InitializersFrom(code, limit, start) = read[start]
  BY ReadingIs, Zenon
<1>3. \A c \in 0 .. limit : read[c] = ReadOn(code, limit, read, c)
  BY <1>2 DEF ReadsAll
<1>4. ASSUME NEW i \in 1 .. n
      PROVE  /\ inits[i] \in Inits
             /\ place[i - 1] \in Nat /\ place[i] \in Nat
             /\ RecordSize(code, place[i - 1]) \in {2, 3}
             /\ place[i] = place[i - 1] + RecordSize(code, place[i - 1])
             /\ InitializerAt(code, place[i - 1])
                  = [local |-> inits[i].local, value |-> inits[i].value, last |-> i = n]
             /\ <<[local |-> inits[i].local, value |-> inits[i].value]>> = <<inits[i]>>
  <2> DEFINE init == inits[i]
             c == place[i - 1]
             last == i = n
  <2>1. init \in Inits
    BY ElementOfSeq
  <2>2. i - 1 \in 0 .. n /\ i \in 0 .. n
    OBVIOUS
  <2>3. c \in Nat /\ place[i] \in Nat
    BY <1>a, <2>2
  <2>4. StandsAt(code, c, EncodeInitializer(init, last))
        /\ place[i] = c + Len(EncodeInitializer(init, last))
    BY <1>a
  <2>5. last \in BOOLEAN
    OBVIOUS
  <2> HIDE DEF init, c, last
  <2>6. ReadsRecord(code, c, EncodeInitializer(init, last), init, last)
    BY <2>1, <2>3, <2>4, <2>5, RecordReads
  <2>7. Len(EncodeInitializer(init, last)) \in {2, 3}
    BY <2>1, <2>5, EncodedIs
  <2>8. init = [local |-> init.local, value |-> init.value]
    BY <2>1, InitIs
  <2>9. /\ RecordSize(code, c) = Len(EncodeInitializer(init, last))
        /\ InitializerAt(code, c) = [local |-> init.local, value |-> init.value, last |-> last]
    BY <2>6 DEF ReadsRecord
  <2> QED
    BY <2>1, <2>3, <2>4, <2>7, <2>8, <2>9 DEF init, c, last
<1>5. ASSUME NEW i \in 1 .. n, place[i] <= limit
      PROVE  /\ place[i - 1] < limit /\ place[i - 1] \in 0 .. limit
             /\ i = n => read[place[i - 1]]
                           = [ok |-> TRUE, inits |-> <<inits[i]>>, end |-> place[i]]
             /\ i # n => read[place[i - 1]]
                           = IF ~ read[place[i]].ok THEN Truncated
                             ELSE [read[place[i]] EXCEPT !.inits = <<inits[i]>> \o @]
  <2> DEFINE c == place[i - 1]
             next == c + RecordSize(code, c)
             record == InitializerAt(code, c)
  <2>1. c \in Nat /\ next = place[i] /\ next \in Nat /\ RecordSize(code, c) \in {2, 3}
    BY <1>4
  <2>2. record.local = inits[i].local /\ record.value = inits[i].value /\ (record.last <=> i = n)
    <3>1. record = [local |-> inits[i].local, value |-> inits[i].value, last |-> i = n]
      BY <1>4
    <3> HIDE DEF record
    <3> QED
      BY <3>1
  <2>3. <<[local |-> record.local, value |-> record.value]>> = <<inits[i]>>
    BY <1>4, <2>2
  <2>4. c < limit /\ c \in 0 .. limit /\ ~ (c >= limit) /\ ~ (next > limit)
    <3> DEFINE size == RecordSize(code, c)
               ends == place[i]
    <3>1. c \in Nat /\ size \in {2, 3} /\ next = ends /\ ends = c + size /\ ends <= limit
      BY <1>5, <2>1
    <3> HIDE DEF c, size, next, ends
    <3> QED
      BY <3>1
  <2>5. read[c] = ReadOn(code, limit, read, c)
    BY <1>3, <2>4
  <2>6. read[c] = IF record.last
                  THEN [ok |-> TRUE, inits |-> <<inits[i]>>, end |-> next]
                  ELSE IF ~read[next].ok THEN Truncated
                  ELSE [read[next] EXCEPT !.inits = <<inits[i]>> \o @]
    BY <2>3, <2>4, <2>5, Zenon DEF ReadOn
  <2> HIDE DEF next, record, c
  <2>7. read[c] = IF i = n
                  THEN [ok |-> TRUE, inits |-> <<inits[i]>>, end |-> place[i]]
                  ELSE IF ~read[place[i]].ok THEN Truncated
                  ELSE [read[place[i]] EXCEPT !.inits = <<inits[i]>> \o @]
    BY <2>1, <2>2, <2>6
  <2> QED
    BY <2>4, <2>7 DEF c
<1>6. ASSUME NEW i \in 1 .. n
      PROVE  tail(i) = IF i = n THEN <<inits[i]>> ELSE <<inits[i]>> \o tail(i + 1)
  <2>1. CASE i = n
    <3>1. /\ SubSeq(inits, i, n) \in Seq(Inits) /\ Len(SubSeq(inits, i, n)) = 1
          /\ \A k \in 1 .. 1 : SubSeq(inits, i, n)[k] = inits[i + k - 1]
      BY <2>1, SubSeqProperties
    <3>2. SubSeq(inits, i, n)[1] = inits[i]
      BY <3>1
    <3>3. SubSeq(inits, i, n) = <<inits[i]>>
      <4> DEFINE y == SubSeq(inits, i, n)
      <4>1. y \in Seq(Inits) /\ Len(y) = 1 /\ y[1] = inits[i]
        BY <3>1, <3>2
      <4> HIDE DEF y
      <4>2. y = <<inits[i]>>
        BY <4>1
      <4> QED
        BY <4>2 DEF y
    <3> QED
      BY <2>1, <3>3
  <2>2. CASE i # n
    <3> DEFINE x == <<inits[i]>>
               y == tail(i + 1)
    <3>1. /\ tail(i) \in Seq(Inits) /\ Len(tail(i)) = n - i + 1
          /\ \A k \in 1 .. n - i + 1 : tail(i)[k] = inits[i + k - 1]
      BY SubSeqProperties
    <3>2. /\ y \in Seq(Inits) /\ Len(y) = n - i
          /\ \A k \in 1 .. n - i : y[k] = inits[i + k]
      <4>1. i + 1 \in 1 .. n + 1 /\ n \in i .. Len(inits)
        OBVIOUS
      <4> QED
        BY <4>1, SubSeqProperties
    <3>3. x \in Seq(Inits) /\ Len(x) = 1 /\ x[1] = inits[i]
      BY <1>4
    <3> HIDE DEF x, y
    <3>4. /\ x \o y \in Seq(Inits) /\ Len(x \o y) = 1 + (n - i)
          /\ \A k \in 1 .. 1 + (n - i) : (x \o y)[k] = IF k <= 1 THEN x[k] ELSE y[k - 1]
      <4>1. /\ x \o y \in Seq(Inits) /\ Len(x \o y) = Len(x) + Len(y)
            /\ \A k \in 1 .. Len(x) + Len(y) :
                 (x \o y)[k] = IF k <= Len(x) THEN x[k] ELSE y[k - Len(x)]
        <5>1. x \in Seq(Inits) /\ y \in Seq(Inits)
          BY <3>2, <3>3
        <5> QED
          BY <5>1, ConcatProperties
      <4> QED
        BY <3>2, <3>3, <4>1
    <3>5. Len(tail(i)) = Len(x \o y)
      BY <3>1, <3>4
    <3>6. ASSUME NEW k \in 1 .. Len(tail(i)) PROVE tail(i)[k] = (x \o y)[k]
      <4>1. k \in 1 .. n - i + 1 /\ k \in 1 .. 1 + (n - i)
        BY <3>1
      <4>2. tail(i)[k] = inits[i + k - 1] /\ (x \o y)[k] = IF k <= 1 THEN x[k] ELSE y[k - 1]
        BY <3>1, <3>4, <4>1
      <4>3. CASE k = 1
        <5>1. i + k - 1 = i
          BY <4>3
        <5> QED
          BY <3>3, <4>2, <4>3, <5>1
      <4>4. CASE k # 1
        <5>1. k - 1 \in 1 .. n - i /\ ~ (k <= 1) /\ i + (k - 1) = i + k - 1
          BY <4>1, <4>4
        <5> QED
          BY <3>2, <4>2, <5>1
      <4> QED
        BY <4>3, <4>4
    <3> HIDE DEF tail
    <3>7. tail(i) = x \o y
      BY <3>1, <3>4, <3>5, <3>6, SeqEqual
    <3> QED
      BY <2>2, <3>7 DEF x, y
  <2> QED
    BY <2>1, <2>2
<1> HIDE DEF tail
<1> DEFINE Read(i) == place[i - 1] \in 0 .. limit /\ read[place[i - 1]] = answer(i)
<1>7. Read(n)
  <2>1. n \in 1 .. n /\ place[n] = to /\ place[n] <= limit
    BY <1>a
  <2>2. place[n - 1] \in 0 .. limit
        /\ read[place[n - 1]] = [ok |-> TRUE, inits |-> <<inits[n]>>, end |-> place[n]]
    BY <1>5, <2>1
  <2>3. tail(n) = <<inits[n]>>
    BY <1>6, <2>1
  <2>4. read[place[n - 1]] = answer(n)
    BY <2>1, <2>2, <2>3
  <2> QED
    BY <2>2, <2>4
<1>8. ASSUME NEW i \in 1 .. n, i # n, Read(i + 1) PROVE Read(i)
  <2> DEFINE x == read[place[i]]
  <2>1. i + 1 - 1 = i
    OBVIOUS
  <2>2. place[i] \in 0 .. limit /\ x = answer(i + 1)
    BY <1>8, <2>1
  <2>3. place[i] <= limit
    BY <2>2
  <2> HIDE DEF x
  <2>4. /\ place[i - 1] \in 0 .. limit
        /\ read[place[i - 1]] = IF ~ x.ok THEN Truncated
                                ELSE [x EXCEPT !.inits = <<inits[i]>> \o @]
    BY <1>5, <1>8, <2>3 DEF x
  <2>5. tail(i) = <<inits[i]>> \o tail(i + 1)
    BY <1>6, <1>8
  <2>6. x.ok /\ [x EXCEPT !.inits = <<inits[i]>> \o @] = answer(i)
    <3> DEFINE y == tail(i + 1)
               z == <<inits[i]>>
    <3>1. x = [ok |-> TRUE, inits |-> y, end |-> to]
      BY <2>2
    <3> HIDE DEF y, z
    <3>2. x.ok /\ [x EXCEPT !.inits = z \o @] = [ok |-> TRUE, inits |-> z \o y, end |-> to]
      <4> DEFINE w == z \o x.inits
      <4>1. x.inits = y /\ w = z \o y
        BY <3>1
      <4> HIDE DEF w
      <4>2. [x EXCEPT !.inits = w] = [ok |-> TRUE, inits |-> w, end |-> to]
        <5>1. [[ok |-> TRUE, inits |-> y, end |-> to] EXCEPT !.inits = w]
                = [ok |-> TRUE, inits |-> w, end |-> to]
          BY TailReplaced, Zenon
        <5>2. [x EXCEPT !.inits = w]
                = [[ok |-> TRUE, inits |-> y, end |-> to] EXCEPT !.inits = w]
          BY <3>1, Zenon
        <5> QED
          BY <5>1, <5>2, Zenon
      <4>3. x.ok
        BY <3>1
      <4> QED
        BY <4>1, <4>2, <4>3 DEF w
    <3> QED
      BY <2>5, <3>2 DEF y, z
  <2> QED
    BY <2>4, <2>6
<1> HIDE DEF Read
<1> DEFINE T == {k \in Nat : k < n => Read(n - k)}
<1>9. 0 \in T
  <2>1. n - 0 = n
    OBVIOUS
  <2> QED
    BY <1>7, <2>1
<1>10. ASSUME NEW k \in 0 .. n - 1, k \in T PROVE k + 1 \in T
  <2>1. k + 1 \in Nat
    OBVIOUS
  <2>2. ASSUME k + 1 < n PROVE Read(n - (k + 1))
    <3>1. n - (k + 1) \in 1 .. n /\ n - (k + 1) # n /\ (n - (k + 1)) + 1 = n - k
      BY <2>2
    <3>2. Read(n - k)
      BY <1>10, <2>2
    <3> QED
      BY <1>8, <3>1, <3>2
  <2> QED
    BY <2>1, <2>2
<1> HIDE DEF T
<1>11. \A k \in 0 .. n - 1 : k \in T => k + 1 \in T
  BY <1>10
<1>12. \A k \in 0 .. n : k \in T
  BY <1>9, <1>11, UpTo
<1>13. read[start] = answer(1)
  <2>1. n - 1 \in T /\ n - (n - 1) = 1 /\ n - 1 < n /\ 1 - 1 = 0
    BY <1>12
  <2>2. Read(1)
    BY <2>1 DEF T
  <2> QED
    BY <1>a, <2>1, <2>2 DEF Read
<1>14. tail(1) = inits
  <2>1. 1 \in 1 .. Len(inits) + 1
    OBVIOUS
  <2>2. /\ SubSeq(inits, 1, n) \in Seq(Inits) /\ Len(SubSeq(inits, 1, n)) = n
        /\ \A k \in 1 .. n : SubSeq(inits, 1, n)[k] = inits[k]
    BY SubSeqProperties
  <2> QED
    BY <2>2, SeqEqual DEF tail
<1> QED
  BY <1>2, <1>13, <1>14

\* The records of a header
Encoded(inits) == [i \in DOMAIN inits |-> EncodeInitializer(inits[i], i = Len(inits))]

LEMMA EncodedIsSeq ==
  ASSUME NEW inits \in Seq(Inits)
  PROVE  /\ Encoded(inits) \in Seq(Bytes) /\ Len(Encoded(inits)) = Len(inits)
         /\ \A i \in 1 .. Len(inits) :
              /\ Encoded(inits)[i] = EncodeInitializer(inits[i], i = Len(inits))
              /\ Len(Encoded(inits)[i]) \in {2, 3}
<1>1. Len(inits) \in Nat /\ DOMAIN inits = 1 .. Len(inits)
  BY LenProperties
<1>2. ASSUME NEW i \in 1 .. Len(inits)
      PROVE  /\ EncodeInitializer(inits[i], i = Len(inits)) \in Bytes
             /\ Len(EncodeInitializer(inits[i], i = Len(inits))) \in {2, 3}
  <2>1. inits[i] \in Inits
    BY ElementOfSeq
  <2>2. (i = Len(inits)) \in BOOLEAN
    OBVIOUS
  <2> QED
    BY <2>1, <2>2, EncodedIs DEF Bytes
<1>3. Encoded(inits) = [i \in 1 .. Len(inits) |-> EncodeInitializer(inits[i], i = Len(inits))]
  BY <1>1 DEF Encoded
<1>4. Encoded(inits) \in Seq(Bytes) /\ Len(Encoded(inits)) = Len(inits)
  <2> DEFINE e(i) == EncodeInitializer(inits[i], i = Len(inits))
             n == Len(inits)
  <2>1. n \in Nat /\ \A i \in 1 .. n : e(i) \in Bytes
    BY <1>1, <1>2, Zenon
  <2> HIDE DEF e, n
  <2>2. [i \in 1 .. n |-> e(i)] \in Seq(Bytes) /\ Len([i \in 1 .. n |-> e(i)]) = n
    BY <2>1
  <2> QED
    BY <1>3, <2>2 DEF e, n
<1> QED
  BY <1>2, <1>3, <1>4

\* Where the records lie when their bytes stand at some place
LEMMA RecordPlacesExist ==
  ASSUME NEW inits \in Seq(Inits), NEW code, NEW start \in Nat,
         StandsAt(code, start, FlattenSeq(Encoded(inits)))
  PROVE  /\ \E place : RecordPlaces(code, start, start + Len(FlattenSeq(Encoded(inits))),
                                    inits, place)
         /\ FlattenSeq(Encoded(inits)) \in Bytes
         /\ Len(FlattenSeq(Encoded(inits))) <= 3 * Len(inits)
<1> DEFINE s == Encoded(inits)
           n == Len(inits)
<1>1. s \in Seq(Bytes) /\ Len(s) = n /\ n \in Nat
  BY EncodedIsSeq, LenProperties
<1>2. \A i \in 1 .. n : s[i] = EncodeInitializer(inits[i], i = n) /\ Len(s[i]) \in {2, 3}
  BY EncodedIsSeq
<1> HIDE DEF s
<1>3. PICK f : Joins(f, s, Nat)
  BY <1>1, JoinsExist DEF Bytes
<1>4. FlattenSeq(s) = f[n]
  BY <1>1, <1>3, FlattenJoins DEF Bytes
<1>5. ASSUME NEW i \in 1 .. n PROVE Lies(f, s, i)
  BY <1>1, <1>3, JoinedAt DEF Bytes
<1>6. f[0] = << >> /\ \A i \in 0 .. n : f[i] \in Seq(Nat)
  BY <1>1, <1>3 DEF Joins
<1>7. ASSUME NEW i \in 0 .. n PROVE Len(f[i]) \in Nat
  BY <1>6, LenProperties
<1> DEFINE place == [i \in 0 .. n |-> start + Len(f[i])]
<1>8. place \in [0 .. n -> Nat] /\ place[0] = start /\ place[n] = start + Len(FlattenSeq(s))
  <2>1. Len(f[0]) = 0
    BY <1>6
  <2> QED
    BY <1>1, <1>4, <1>7, <2>1
<1>9. ASSUME NEW i \in 1 .. n
      PROVE  /\ StandsAt(code, place[i - 1], s[i])
             /\ place[i] = place[i - 1] + Len(s[i])
  <2> DEFINE u == Len(f[i - 1])
             v == Len(f[i])
             w == Len(f[n])
             e == s[i]
  <2>1. /\ u \in Nat /\ v = u + Len(e) /\ v <= w /\ w \in Nat
        /\ \A k \in 1 .. Len(e) : f[n][u + k] = e[k]
    <3>1. Lies(f, s, i)
      BY <1>5
    <3>2. w \in Nat
      BY <1>1, <1>7
    <3> QED
      BY <1>1, <3>1, <3>2 DEF Lies
  <2>2. place[i - 1] = start + u /\ place[i] = start + v /\ Len(e) \in {2, 3}
    BY <1>2
  <2>3. \A k \in 1 .. w : ByteAt(code, start + (k - 1)) = f[n][k]
    BY <1>4 DEF s, StandsAt
  <2> HIDE DEF u, v, w, e, place
  <2>4. ASSUME NEW k \in 1 .. Len(e) PROVE ByteAt(code, (start + u) + (k - 1)) = e[k]
    <3>1. u + k \in 1 .. w /\ (start + u) + (k - 1) = start + ((u + k) - 1)
      BY <2>1, <2>2
    <3> QED
      BY <2>1, <2>3, <3>1
  <2>5. StandsAt(code, start + u, e)
    BY <2>4 DEF StandsAt
  <2>6. start + v = (start + u) + Len(e)
    BY <2>1, <2>2
  <2> QED
    BY <2>2, <2>5, <2>6 DEF e
<1>10. RecordPlaces(code, start, start + Len(FlattenSeq(s)), inits, place)
  BY <1>2, <1>8, <1>9 DEF RecordPlaces, s
<1> HIDE DEF place
<1> DEFINE T == {i \in Nat : i <= n => Len(f[i]) <= 3 * i}
<1>11. 0 \in T
  BY <1>6
<1>12. ASSUME NEW i \in 0 .. n - 1, i \in T PROVE i + 1 \in T
  <2> DEFINE u == Len(f[i])
             v == Len(f[i + 1])
             z == Len(s[i + 1])
  <2>1. i + 1 \in 1 .. n /\ (i + 1) - 1 = i /\ i \in Nat /\ i <= n
    BY <1>1
  <2>2. u \in Nat /\ v = u + z /\ z \in {2, 3}
    <3>1. Lies(f, s, i + 1)
      BY <1>5, <2>1
    <3> QED
      BY <1>2, <2>1, <3>1 DEF Lies
  <2>3. u <= 3 * i
    BY <1>12, <2>1
  <2> HIDE DEF u, v, z
  <2>4. v <= 3 * (i + 1)
    BY <2>1, <2>2, <2>3
  <2> QED
    BY <2>1, <2>4 DEF v
<1> HIDE DEF T
<1>13. \A i \in 0 .. n - 1 : i \in T => i + 1 \in T
  BY <1>12
<1>14. n \in T
  <2>1. \A i \in 0 .. n : i \in T
    BY <1>1, <1>11, <1>13, UpTo
  <2> QED
    BY <1>1, <2>1
<1>15. Len(f[n]) <= 3 * n
  BY <1>14 DEF T
<1> QED
  BY <1>1, <1>4, <1>6, <1>10, <1>15 DEF s, Bytes

Zeroes == [i \in 1 .. 12 |-> 0]

Intro(locals, inits) == (locals % 128) + (IF inits = << >> THEN 0 ELSE 128)

ReadsAsWritten(locals, inits) ==
  LET bytes == EncodeHeader(locals, inits)
      code  == bytes \o Zeroes
      lpst  == HeaderAt(code, Len(bytes), 0)
      lp128 == CompactHeaderAt(code, 0)
  IN  /\ lpst.ok /\ lpst.locals = locals
      /\ lpst.inits = SubSeq(inits, 1, Min({Len(inits), MaxInitializers}))
      /\ lpst.size = Len(bytes)
      /\ (lp128.size = lpst.size /\ lp128.inits = inits) <=> inits = << >>

\* A header is its first byte, and then its records.
HeaderHas(locals, inits, e, all) ==
  /\ all \in Bytes /\ e \in Bytes
  /\ Len(all) \in Nat /\ Len(all) <= 3 * Len(inits)
  /\ Len(e) = Len(all) + 1 /\ Len(e) \in 1 .. 193
  /\ e[1] = Intro(locals, inits)
  /\ \A k \in 1 .. Len(all) : e[k + 1] = all[k]

LEMMA HeaderIs ==
  ASSUME NEW locals \in 0 .. 127, NEW inits \in Seq(Inits), Len(inits) <= 64
  PROVE  HeaderHas(locals, inits, EncodeHeader(locals, inits), FlattenSeq(Encoded(inits)))
<1> DEFINE all == FlattenSeq(Encoded(inits))
           x   == <<Intro(locals, inits)>>
           e   == x \o all
<1>1. EncodeHeader(locals, inits) = e
  BY DEF EncodeHeader, Encoded, Intro
<1>2. all \in Bytes /\ Len(all) <= 3 * Len(inits)
  <2> DEFINE w == all
             code == [j \in Nat |-> w[j]]
  <2> HIDE DEF w
  <2>1. \A k \in 1 .. Len(w) : ByteAt(code, 0 + (k - 1)) = w[k]
    <3>1. ASSUME NEW k \in 1 .. Len(w) PROVE ByteAt(code, 0 + (k - 1)) = w[k]
      <4>1. k \in Nat /\ (0 + (k - 1)) + 1 = k
        OBVIOUS
      <4> QED
        BY <4>1 DEF ByteAt
    <3> QED
      BY <3>1
  <2> HIDE DEF code
  <2>2. StandsAt(code, 0, all)
    BY <2>1 DEF StandsAt, w
  <2> QED
    BY <2>2, RecordPlacesExist
<1>3. x \in Seq(Nat) /\ Len(x) = 1 /\ x[1] = Intro(locals, inits)
  BY DEF Intro
<1>4. all \in Seq(Nat) /\ Len(all) \in Nat /\ Len(inits) \in Nat
  BY <1>2, LenProperties DEF Bytes
<1> HIDE DEF x, all
<1>5. /\ e \in Seq(Nat) /\ Len(e) = Len(x) + Len(all)
      /\ \A k \in 1 .. Len(x) + Len(all) : e[k] = IF k <= Len(x) THEN x[k] ELSE all[k - Len(x)]
  BY <1>3, <1>4, ConcatProperties
<1> HIDE DEF e
<1>6. Len(e) = Len(all) + 1 /\ Len(e) \in 1 .. 193
  <2> DEFINE a == Len(all)
             b == Len(e)
             n == Len(inits)
  <2>1. a \in Nat /\ b = 1 + a /\ a <= 3 * n /\ n <= 64 /\ n \in Nat
    BY <1>2, <1>3, <1>4, <1>5
  <2> HIDE DEF a, b, n
  <2>2. b = a + 1 /\ b \in 1 .. 193
    BY <2>1
  <2> QED
    BY <2>2 DEF a, b
<1>7. \A k \in 1 .. Len(all) + 1 : e[k] = IF k <= 1 THEN x[k] ELSE all[k - 1]
  BY <1>3, <1>4, <1>5
<1>8. e[1] = x[1]
  <2>1. 1 \in 1 .. Len(all) + 1
    BY <1>4
  <2> QED
    BY <1>7, <2>1
<1>9. ASSUME NEW k \in 1 .. Len(all) PROVE e[k + 1] = all[k]
  <2>1. k + 1 \in 1 .. Len(all) + 1 /\ ~ (k + 1 <= 1) /\ (k + 1) - 1 = k
    BY <1>4
  <2> QED
    BY <1>7, <2>1
<1>10. Len(all) <= 3 * Len(inits) /\ all \in Bytes /\ e \in Bytes
  BY <1>2, <1>5 DEF Bytes, all
<1> QED
  BY <1>1, <1>3, <1>4, <1>6, <1>8, <1>9, <1>10 DEF all, e, x, HeaderHas

\* What LinchpinST makes of a header, and that it reads one wherever it stands
LpstReads(code, limit, start, locals, inits) ==
  HeaderAt(code, limit, start)
    = [ok |-> TRUE, locals |-> locals,
       inits |-> SubSeq(inits, 1, Min({Len(inits), MaxInitializers})),
       size |-> Len(EncodeHeader(locals, inits))]

LEMMA HeaderRead ==
  ASSUME NEW locals \in 0 .. 127, NEW inits \in Seq(Inits), Len(inits) <= 64,
         NEW code, NEW limit \in Nat, NEW start \in Nat,
         StandsAt(code, start, EncodeHeader(locals, inits)),
         start + Len(EncodeHeader(locals, inits)) <= limit
  PROVE  LpstReads(code, limit, start, locals, inits)
<1> DEFINE e == EncodeHeader(locals, inits)
           all == FlattenSeq(Encoded(inits))
           b == Len(e)
           a == Len(all)
           intro == Intro(locals, inits)
           kept  == SubSeq(inits, 1, Min({Len(inits), MaxInitializers}))
           tail  == IF intro >= 128 THEN InitializersFrom(code, limit, start + 1)
                    ELSE [ok |-> TRUE, inits |-> << >>, end |-> start + 1]
<1>1. /\ intro \in Nat /\ intro % 128 = locals /\ (intro >= 128 <=> inits # << >>)
      /\ Len(inits) \in Nat /\ (Len(inits) = 0 <=> inits = << >>)
  <2>1. locals % 128 = locals /\ (locals + 128) % 128 = locals
    OBVIOUS
  <2>2. Len(inits) \in Nat /\ (Len(inits) = 0 <=> inits = << >>)
    BY LenProperties, EmptySeq
  <2> QED
    BY <2>1, <2>2 DEF Intro
<1>2. /\ all \in Bytes /\ a \in Nat /\ a <= 3 * Len(inits) /\ b = a + 1 /\ b \in 1 .. 193
      /\ e[1] = intro /\ \A k \in 1 .. a : e[k + 1] = all[k]
  <2>1. HeaderHas(locals, inits, e, all)
    BY HeaderIs
  <2> HIDE DEF e, all, intro
  <2> QED
    BY <2>1 DEF HeaderHas, intro
<1>3. \A k \in 1 .. b : ByteAt(code, start + (k - 1)) = e[k]
  BY DEF StandsAt
<1>4. start + b <= limit
  OBVIOUS
<1> HIDE DEF e, all, a, b, intro
<1>5. ByteAt(code, start) = intro
  <2>1. 1 \in 1 .. b /\ start + (1 - 1) = start
    BY <1>2
  <2> QED
    BY <1>2, <1>3, <2>1
<1>6. StandsAt(code, start + 1, all)
  <2>1. ASSUME NEW k \in 1 .. a PROVE ByteAt(code, (start + 1) + (k - 1)) = all[k]
    <3>1. k + 1 \in 1 .. b /\ start + ((k + 1) - 1) = (start + 1) + (k - 1)
      BY <1>2
    <3> QED
      BY <1>2, <1>3, <3>1
  <2> QED
    BY <2>1 DEF StandsAt, a
<1>7. tail = [ok |-> TRUE, inits |-> inits, end |-> start + b]
  <2>1. CASE inits = << >>
    <3>1. b = 1 /\ ~ (intro >= 128)
      BY <1>1, <1>2, <2>1
    <3> QED
      BY <2>1, <3>1
  <2>2. CASE inits # << >>
    <3> DEFINE from == start + 1
               to == start + b
    <3>1. PICK place : RecordPlaces(code, start + 1, (start + 1) + Len(all), inits, place)
      <4>1. start + 1 \in Nat
        OBVIOUS
      <4> QED
        BY <1>6, <4>1, RecordPlacesExist DEF all
    <3>2. from \in Nat /\ to \in Nat /\ to <= limit /\ to = (start + 1) + Len(all)
      BY <1>2, <1>4 DEF a
    <3>3. RecordPlaces(code, from, to, inits, place)
      BY <3>1, <3>2
    <3> HIDE DEF from, to
    <3>4. InitializersFrom(code, limit, from) = [ok |-> TRUE, inits |-> inits, end |-> to]
      BY <2>2, <3>2, <3>3, RecordsRead
    <3> QED
      BY <1>1, <2>2, <3>4 DEF from, to
  <2> QED
    BY <2>1, <2>2
<1>8. HeaderAt(code, limit, start)
        = IF ~ tail.ok THEN Truncated
          ELSE [ok |-> TRUE, locals |-> intro % 128,
                inits |-> SubSeq(tail.inits, 1, Min({Len(tail.inits), MaxInitializers})),
                size |-> (tail.end - start) % 256]
  <2>1. ~ (start >= limit)
    BY <1>2, <1>4
  <2> QED
    BY <1>5, <2>1 DEF HeaderAt
<1> HIDE DEF tail
<1>9. tail.ok /\ tail.inits = inits /\ tail.end = start + b
  BY <1>7
<1>10. (tail.end - start) % 256 = b
  <2> DEFINE end == tail.end
  <2>1. end = start + b /\ b \in 1 .. 193
    BY <1>2, <1>9
  <2> HIDE DEF end
  <2>2. end - start = b
    BY <2>1
  <2>3. b % 256 = b
    BY <2>1
  <2> QED
    BY <2>2, <2>3 DEF end
<1> QED
  BY <1>1, <1>8, <1>9, <1>10 DEF LpstReads, e, b

LEMMA HeaderReads ==
  ASSUME NEW locals \in 0 .. 127, NEW inits \in Seq(Inits), Len(inits) <= 64
  PROVE  ReadsAsWritten(locals, inits)
<1> DEFINE all == FlattenSeq(Encoded(inits))
           n == Len(inits)
           intro == Intro(locals, inits)
           bytes == EncodeHeader(locals, inits)
           code  == bytes \o Zeroes
           kept  == SubSeq(inits, 1, Min({Len(inits), MaxInitializers}))
           count == IF intro >= 128 THEN ByteAt(code, 1) ELSE 0
           four  == IF count > 4 THEN 4 ELSE count
           from  == IF intro >= 128 THEN 2 ELSE 1
<1>1. /\ intro \in Nat /\ intro % 128 = locals /\ (intro >= 128 <=> inits # << >>)
      /\ n \in Nat /\ n <= 64 /\ (n = 0 <=> inits = << >>)
  <2>1. locals % 128 = locals /\ (locals + 128) % 128 = locals
    OBVIOUS
  <2>2. n \in Nat /\ (n = 0 <=> inits = << >>)
    BY LenProperties, EmptySeq
  <2> QED
    BY <2>1, <2>2 DEF Intro
<1>2. /\ bytes \in Bytes /\ all \in Bytes /\ Len(all) \in Nat /\ Len(all) <= 3 * n
      /\ Len(bytes) = Len(all) + 1 /\ Len(bytes) \in 1 .. 193 /\ bytes[1] = intro
      /\ \A k \in 1 .. Len(all) : bytes[k + 1] = all[k]
  <2>1. HeaderHas(locals, inits, bytes, all)
    BY <1>1, HeaderIs
  <2> HIDE DEF bytes, all, intro
  <2> QED
    BY <2>1 DEF HeaderHas, intro
<1>3. Len(bytes) \in Nat /\ Len(bytes) # 0 /\ Len(bytes) <= 3 * n + 1
  <2> DEFINE a == Len(all)
             b == Len(bytes)
  <2>1. a \in Nat /\ b = a + 1 /\ a <= 3 * n
    BY <1>2
  <2> HIDE DEF a, b
  <2>2. b \in Nat /\ b # 0 /\ b <= 3 * n + 1
    BY <1>1, <2>1
  <2> QED
    BY <2>2 DEF b
<1> HIDE DEF intro, bytes
<1>4. StandsAt(code, 0, bytes)
  <2>1. Zeroes \in Seq(Nat) /\ Len(Zeroes) = 12 /\ bytes \in Seq(Nat)
    BY <1>2 DEF Zeroes, Bytes
  <2>2. \A k \in 1 .. Len(bytes) + Len(Zeroes) :
          code[k] = IF k <= Len(bytes) THEN bytes[k] ELSE Zeroes[k - Len(bytes)]
    BY <2>1, ConcatProperties
  <2> HIDE DEF code
  <2>3. ASSUME NEW k \in 1 .. Len(bytes) PROVE ByteAt(code, 0 + (k - 1)) = bytes[k]
    <3>1. k \in 1 .. Len(bytes) + Len(Zeroes) /\ k <= Len(bytes) /\ (0 + (k - 1)) + 1 = k
      BY <1>3, <2>1
    <3> QED
      BY <2>2, <3>1 DEF ByteAt
  <2> QED
    BY <2>3 DEF StandsAt
<1> HIDE DEF code
<1>5. LpstReads(code, Len(bytes), 0, locals, inits)
  <2>1. StandsAt(code, 0, EncodeHeader(locals, inits))
        /\ 0 + Len(EncodeHeader(locals, inits)) <= Len(bytes)
    BY <1>3, <1>4 DEF bytes
  <2> DEFINE limit == Len(bytes)
             start == 0
  <2>2. limit \in Nat /\ start \in Nat /\ StandsAt(code, start, EncodeHeader(locals, inits))
        /\ start + Len(EncodeHeader(locals, inits)) <= limit
    BY <1>3, <2>1
  <2> HIDE DEF limit, start
  <2>3. LpstReads(code, limit, start, locals, inits)
    BY <1>1, <2>2, HeaderRead
  <2> QED
    BY <2>3 DEF limit, start
<1>6. ByteAt(code, 0) = intro
  <2>1. 1 \in 1 .. Len(bytes) /\ 0 + (1 - 1) = 0
    BY <1>3
  <2> QED
    BY <1>2, <1>4, <2>1 DEF StandsAt
<1>7. ASSUME inits # << >> PROVE ByteAt(code, 1) \in Nat
  <2>1. StandsAt(code, 1, all)
    <3> DEFINE b == Len(bytes)
               a == Len(all)
    <3>1. b = a + 1 /\ a \in Nat
      BY <1>2
    <3>2. \A k \in 1 .. b : ByteAt(code, 0 + (k - 1)) = bytes[k]
      BY <1>4 DEF StandsAt
    <3>3. \A k \in 1 .. a : bytes[k + 1] = all[k]
      BY <1>2
    <3> HIDE DEF a, b
    <3>4. ASSUME NEW k \in 1 .. a PROVE ByteAt(code, 1 + (k - 1)) = all[k]
      <4>1. k + 1 \in 1 .. b /\ 0 + ((k + 1) - 1) = 1 + (k - 1)
        BY <3>1
      <4> QED
        BY <3>2, <3>3, <4>1
    <3> QED
      BY <3>4 DEF StandsAt, a
  <2>2. PICK place : RecordPlaces(code, 1, 1 + Len(all), inits, place)
    BY <2>1, RecordPlacesExist
  <2> DEFINE e == EncodeInitializer(inits[1], 1 = n)
  <2>3. 1 \in 1 .. n /\ 1 - 1 = 0
    BY <1>1, <1>7
  <2>4. inits[1] \in Inits /\ (1 = n) \in BOOLEAN
    BY <2>3, ElementOfSeq
  <2>5. e \in Seq(Nat) /\ Len(e) \in {2, 3}
    BY <2>4, EncodedIs
  <2>6. StandsAt(code, 1, e)
    BY <2>2, <2>3 DEF RecordPlaces
  <2> HIDE DEF e
  <2>7. 1 \in 1 .. Len(e) /\ 1 + (1 - 1) = 1
    <3> DEFINE z == Len(e)
    <3>1. z \in {2, 3}
      BY <2>5
    <3> HIDE DEF z
    <3>2. 1 \in 1 .. z
      BY <3>1
    <3> QED
      BY <3>2 DEF z
  <2>8. ByteAt(code, 1) = e[1]
    BY <2>6, <2>7 DEF StandsAt
  <2>9. e[1] \in Nat
    BY <2>5, <2>7, ElementOfSeq
  <2> QED
    BY <2>8, <2>9
<1>9. /\ CompactHeaderAt(code, 0).size = (from + 3 * count) - 0
      /\ CompactHeaderAt(code, 0).inits
           = [i \in 1 .. four |->
                [local |-> ByteAt(code, from + 3 * (i - 1)),
                 value |-> LE16(ByteAt(code, from + 3 * (i - 1) + 1),
                                ByteAt(code, from + 3 * (i - 1) + 2))]]
  <2>1. 0 + 1 = 1 /\ 0 + 2 = 2 /\ 0 + from = from
    OBVIOUS
  <2> QED
    BY <1>6, <2>1 DEF CompactHeaderAt
<1>10. count \in Nat /\ four \in Nat /\ four <= count
  BY <1>1, <1>7
<1>11. HeaderAt(code, Len(bytes), 0)
         = [ok |-> TRUE, locals |-> locals, inits |-> kept, size |-> Len(bytes)]
  BY <1>5 DEF LpstReads, bytes
<1> DEFINE lp128 == CompactHeaderAt(code, 0)
<1> HIDE DEF count, four
<1>12. Len(lp128.inits) = four
  BY <1>9, <1>10
<1> HIDE DEF lp128
<1>13. ASSUME inits = << >> PROVE lp128.size = Len(bytes) /\ lp128.inits = inits
  <2>1. ~ (intro >= 128) /\ n = 0 /\ Len(all) = 0
    BY <1>1, <1>2, <1>13
  <2>2. count = 0 /\ from = 1 /\ four = 0 /\ Len(bytes) = 1
    BY <1>2, <2>1 DEF count, four
  <2>3. lp128.size = 1 /\ lp128.inits = << >>
    BY <1>9, <2>2 DEF lp128
  <2> QED
    BY <1>13, <2>2, <2>3
<1>14. ASSUME inits # << >> PROVE ~ (lp128.size = Len(bytes) /\ lp128.inits = inits)
  <2>1. ASSUME lp128.size = Len(bytes), lp128.inits = inits PROVE FALSE
    <3>1. four = n
      BY <1>12, <2>1
    <3>2. from = 2 /\ lp128.size = 2 + 3 * count
      BY <1>1, <1>9, <1>10, <1>14 DEF lp128
    <3> QED
      BY <1>1, <1>3, <1>10, <2>1, <3>1, <3>2
  <2> QED
    BY <1>14, <2>1
<1> DEFINE lpst == HeaderAt(code, Len(bytes), 0)
<1>15. lpst.ok /\ lpst.locals = locals /\ lpst.inits = kept /\ lpst.size = Len(bytes)
  <2> DEFINE b == Len(bytes)
  <2>1. lpst = [ok |-> TRUE, locals |-> locals, inits |-> kept, size |-> b]
    BY <1>11
  <2> HIDE DEF lpst, kept, b
  <2>2. lpst.ok /\ lpst.locals = locals /\ lpst.inits = kept /\ lpst.size = b
    BY <2>1
  <2> QED
    BY <2>2 DEF b
<1>16. (lp128.size = lpst.size /\ lp128.inits = inits) <=> inits = << >>
  BY <1>13, <1>14, <1>15
<1> HIDE DEF lpst
<1> QED
  BY <1>15, <1>16, Zenon DEF code, bytes, lpst, lp128, ReadsAsWritten

----------------------------------------------------------------------------
(* Headers *)

\* HeadersRead: for every number of locals and every list of up to 64 initial values.
THEOREM HeadersAreRead == OperatorsSpec => []HeadersRead
<1>1. ASSUME CaseKnown, asked.kind = "header" PROVE HeadersRead
  <2> DEFINE h == asked.header
             locals == h.locals
             inits == h.inits
  <2>1. locals \in 0 .. 127 /\ inits \in Seq(Inits) /\ Len(inits) <= 64
    BY <1>1 DEF CaseKnown, Known
  <2> HIDE DEF locals, inits
  <2>2. ReadsAsWritten(locals, inits)
    BY <2>1, HeaderReads
  <2> QED
    BY <2>2, Zenon DEF HeadersRead, ReadsAsWritten, Zeroes, locals, inits
<1>2. CaseKnown => HeadersRead
  BY <1>1 DEF HeadersRead
<1> QED
  BY <1>2, CasesKnown, PTL

----------------------------------------------------------------------------
(* Whole files and cut files *)

\* A part of a sequence, behind its first o elements
Holds(seq, o, part) ==
  /\ o + Len(part) <= Len(seq)
  /\ \A k \in 1 .. Len(part) : seq[o + k] = part[k]

\* Joined sequences hold both parts, one behind the other.
LEMMA HoldsParts ==
  ASSUME NEW S, NEW a \in Seq(S), NEW b \in Seq(S)
  PROVE  /\ a \o b \in Seq(S) /\ Len(a \o b) = Len(a) + Len(b)
         /\ Holds(a \o b, 0, a) /\ Holds(a \o b, Len(a), b)
<1> DEFINE ab == a \o b
           m == Len(a)
           n == Len(b)
<1>1. m \in Nat /\ n \in Nat
  BY LenProperties
<1>2. /\ ab \in Seq(S) /\ Len(ab) = m + n
      /\ \A k \in 1 .. m + n : ab[k] = IF k <= m THEN a[k] ELSE b[k - m]
  BY ConcatProperties
<1> HIDE DEF ab, m, n
<1>3. ASSUME NEW k \in 1 .. m PROVE ab[0 + k] = a[k]
  <2>1. k \in 1 .. m + n /\ k <= m /\ 0 + k = k
    BY <1>1
  <2> QED
    BY <1>2, <2>1
<1>4. ASSUME NEW k \in 1 .. n PROVE ab[m + k] = b[k]
  <2>1. m + k \in 1 .. m + n /\ ~ (m + k <= m) /\ (m + k) - m = k
    BY <1>1
  <2> QED
    BY <1>2, <2>1
<1>5. 0 + m <= Len(ab) /\ m + n <= Len(ab)
  BY <1>1, <1>2
<1> QED
  BY <1>2, <1>3, <1>4, <1>5 DEF Holds, ab, m, n

\* A part of a part is a part.
LEMMA HoldsDeeper ==
  ASSUME NEW S, NEW x \in Seq(S), NEW y \in Seq(S), NEW z \in Seq(S), NEW o \in Nat, NEW u \in Nat,
         Holds(x, o, y), Holds(y, u, z)
  PROVE  Holds(x, o + u, z)
<1> DEFINE a == Len(x)
           b == Len(y)
           c == Len(z)
<1>1. a \in Nat /\ b \in Nat /\ c \in Nat
  BY LenProperties
<1>2. /\ o + b <= a /\ \A k \in 1 .. b : x[o + k] = y[k]
      /\ u + c <= b /\ \A k \in 1 .. c : y[u + k] = z[k]
  BY DEF Holds
<1> HIDE DEF a, b, c
<1>3. ASSUME NEW k \in 1 .. c PROVE x[(o + u) + k] = z[k]
  <2>1. u + k \in 1 .. b /\ o + (u + k) = (o + u) + k
    BY <1>1, <1>2
  <2> QED
    BY <1>2, <2>1
<1>4. (o + u) + c <= a
  BY <1>1, <1>2
<1> QED
  BY <1>3, <1>4 DEF Holds, a, c

\* What a sequence holds is what one reads there.
LEMMA HoldsSubSeq ==
  ASSUME NEW S, NEW x \in Seq(S), NEW y \in Seq(S), NEW o \in Nat, Holds(x, o, y)
  PROVE  SubSeq(x, o + 1, o + Len(y)) = y
<1> DEFINE a == Len(x)
           b == Len(y)
           m == o + 1
           n == o + b
           z == SubSeq(x, m, n)
<1>1. a \in Nat /\ b \in Nat
  BY LenProperties
<1>2. o + b <= a /\ \A k \in 1 .. b : x[o + k] = y[k]
  BY DEF Holds
<1> HIDE DEF a, b
<1>3. m \in Int /\ n \in Int /\ n - m + 1 = b /\ (IF m <= n THEN n - m + 1 ELSE 0) = b
  BY <1>1
<1>4. \A i \in m .. n : x[i] \in S
  <2>1. ASSUME NEW i \in m .. n PROVE x[i] \in S
    <3>1. i \in 1 .. a
      BY <1>1, <1>2
    <3> QED
      BY <3>1, ElementOfSeq DEF a
  <2> QED
    BY <2>1
<1>a. \A k \in 1 .. b : m + k - 1 = o + k
  BY <1>1
<1> HIDE DEF m, n, z
<1>5. z \in Seq(S) /\ Len(z) = b /\ \A k \in 1 .. n - m + 1 : z[k] = x[m + k - 1]
  <2>1. /\ SubSeq(x, m, n) \in Seq(S)
        /\ Len(SubSeq(x, m, n)) = IF m <= n THEN n - m + 1 ELSE 0
        /\ \A i \in 1 .. n - m + 1 : SubSeq(x, m, n)[i] = x[m + i - 1]
    BY <1>3, <1>4, SubSeqProperties
  <2> QED
    BY <1>3, <2>1 DEF z
<1>6. \A k \in 1 .. b : z[k] = y[k]
  BY <1>2, <1>3, <1>5, <1>a
<1>7. z = y
  BY <1>5, <1>6, SeqEqual DEF b
<1> QED
  BY <1>7 DEF z, m, n, b

\* What a prefix is long enough for is in it.
LEMMA HoldsInPrefix ==
  ASSUME NEW S, NEW T, NEW c \in Seq(S), NEW x \in Seq(T), NEW y \in Seq(T), NEW o \in Nat,
         IsPrefix(c, x), Holds(x, o, y), o + Len(y) <= Len(c)
  PROVE  Holds(c, o, y)
<1> DEFINE a == Len(x)
           b == Len(y)
           n == Len(c)
<1>1. a \in Nat /\ b \in Nat /\ n \in Nat
  BY LenProperties
<1>2. \A k \in 1 .. b : x[o + k] = y[k]
  BY DEF Holds
<1>3. n <= a /\ SubSeq(c, 1, n) = SubSeq(x, 1, n) /\ o + b <= n
  BY DEF IsPrefix
<1> HIDE DEF a, b, n
<1>4. ASSUME NEW k \in 1 .. n PROVE c[k] = x[k]
  <2>1. 1 + k - 1 = k /\ n - 1 + 1 = n /\ 1 \in Int /\ n \in Int
    BY <1>1
  <2>2. \A i \in 1 .. n : c[i] \in S /\ x[i] \in T
    <3>1. ASSUME NEW i \in 1 .. n PROVE c[i] \in S /\ x[i] \in T
      <4>1. i \in 1 .. Len(x) /\ i \in 1 .. Len(c)
        BY <1>1, <1>3 DEF a, n
      <4> QED
        BY <4>1, ElementOfSeq
    <3> QED
      BY <3>1
  <2>3. \A i \in 1 .. n - 1 + 1 : SubSeq(c, 1, n)[i] = c[1 + i - 1]
    BY <2>1, <2>2, SubSeqProperties
  <2>4. \A i \in 1 .. n - 1 + 1 : SubSeq(x, 1, n)[i] = x[1 + i - 1]
    BY <2>1, <2>2, SubSeqProperties
  <2> QED
    BY <1>3, <2>1, <2>3, <2>4
<1>5. ASSUME NEW k \in 1 .. b PROVE c[o + k] = y[k]
  <2>1. o + k \in 1 .. n
    BY <1>1, <1>3
  <2> QED
    BY <1>2, <1>4, <2>1
<1> QED
  BY <1>3, <1>5 DEF Holds, b, n

\* Padding has the length asked for.
LEMMA ZerosAre ==
  ASSUME NEW n \in Nat
  PROVE  Zeros(n) \in Seq(Nat) /\ Len(Zeros(n)) = n
BY DEF Zeros

\* What is padded is a whole number of units.
LEMMA Padded ==
  ASSUME NEW x \in Seq(Nat), NEW u \in Nat \ {0}
  PROVE  /\ PaddedTo(x, u) \in Seq(Nat) /\ Holds(PaddedTo(x, u), 0, x)
         /\ Len(PaddedTo(x, u)) = u * ((Len(x) + u - 1) \div u)
<1> DEFINE n == Len(x)
           q == n \div u
           r == n % u
           k == (u - r) % u
<1>1. n \in Nat
  BY LenProperties
<1>2. n = u * q + r /\ r \in 0 .. u - 1 /\ q \in Int
  BY <1>1, Division
<1>3. k \in 0 .. u - 1
  BY <1>2, Division
<1>4. PaddedTo(x, u) = x \o Zeros(k)
  BY DEF PaddedTo
<1> HIDE DEF k
<1>5. k \in Nat /\ Zeros(k) \in Seq(Nat) /\ Len(Zeros(k)) = k
  BY <1>3, ZerosAre
<1>6. PaddedTo(x, u) \in Seq(Nat) /\ Len(PaddedTo(x, u)) = n + k /\ Holds(PaddedTo(x, u), 0, x)
  BY <1>4, <1>5, HoldsParts
<1> HIDE DEF n, q, r
<1>7. n + k = u * ((n + u - 1) \div u)
  <2>1. CASE r = 0
    <3>1. k = 0
      <4>1. (u - r) % u = 0
        <5>1. u - r = u * 1 + 0 /\ 0 \in 0 .. u - 1
          BY <2>1
        <5> QED
          BY <5>1, RestOfMultiple
      <4> QED
        BY <4>1 DEF k
    <3>2. n + u - 1 = u * q + (u - 1) /\ u - 1 \in 0 .. u - 1
      BY <1>1, <1>2, <2>1
    <3>3. (n + u - 1) \div u = q
      BY <1>1, <1>2, <3>2
    <3> QED
      BY <1>1, <1>2, <2>1, <3>1, <3>3
  <2>2. CASE r # 0
    <3>1. k = u - r
      <4> DEFINE v == u - r
      <4>1. v \in 0 .. u - 1 /\ u * 0 + v = v /\ 0 \in Int
        BY <1>2, <2>2
      <4> HIDE DEF v
      <4>2. v % u = v
        BY <4>1, RestOfMultiple
      <4> QED
        BY <4>2 DEF k, v
    <3>2. n + u - 1 = u * (q + 1) + (r - 1) /\ r - 1 \in 0 .. u - 1
      BY <1>1, <1>2, <2>2
    <3>3. (n + u - 1) \div u = q + 1
      BY <1>1, <1>2, <3>2
    <3>4. u * (q + 1) = u * q + u
      BY <1>2
    <3> QED
      BY <1>1, <1>2, <3>1, <3>3, <3>4
  <2> QED
    BY <2>1, <2>2
<1> QED
  BY <1>6, <1>7 DEF n

\* f starts with a base, and goes on as g says.
GoesOn(f, S, base, N, g) ==
  f \in [0 .. N -> S] /\ f = [n \in 0 .. N |-> IF n = 0 THEN base ELSE g[<<n, f[n - 1]>>]]

\* A sequence defined from its predecessor exists.
LEMMA RecursionExists ==
  ASSUME NEW S, NEW base \in S, NEW N \in Nat, NEW g, g \in [(1 .. N) \X S -> S]
  PROVE  \E f : GoesOn(f, S, base, N, g)
<1> DEFINE To(n, f) == f \in [0 .. n -> S] /\ f[0] = base
                       /\ \A i \in 1 .. n : f[i] = g[<<i, f[i - 1]>>]
           T == {n \in Nat : \E f : To(n, f)}
<1>1. 0 \in T
  <2> DEFINE f == [i \in 0 .. 0 |-> base]
  <2>1. To(0, f)
    OBVIOUS
  <2> QED
    BY <2>1
<1>2. ASSUME NEW n \in 0 .. N - 1, n \in T PROVE n + 1 \in T
  <2>1. PICK f : To(n, f)
    BY <1>2
  <2> DEFINE next == g[<<n + 1, f[n]>>]
             h == [i \in 0 .. n + 1 |-> IF i = n + 1 THEN next ELSE f[i]]
  <2>2. n + 1 \in Nat /\ n + 1 \in 1 .. N /\ n \in 0 .. n
    OBVIOUS
  <2>3. f[n] \in S /\ next \in S
    <3>1. f[n] \in S
      BY <2>1, <2>2
    <3>2. <<n + 1, f[n]>> \in (1 .. N) \X S
      BY <2>2, <3>1
    <3> QED
      BY <3>1, <3>2
  <2> HIDE DEF next
  <2>4. h \in [0 .. n + 1 -> S] /\ h[0] = base
    BY <2>1, <2>2, <2>3
  <2>5. ASSUME NEW i \in 1 .. n + 1 PROVE h[i] = g[<<i, h[i - 1]>>]
    <3>1. i \in 0 .. n + 1 /\ i - 1 \in 0 .. n + 1 /\ i - 1 # n + 1
      BY <2>2
    <3>2. h[i - 1] = f[i - 1] /\ h[i] = IF i = n + 1 THEN next ELSE f[i]
      BY <3>1
    <3> HIDE DEF h
    <3>3. CASE i = n + 1
      <4>1. i - 1 = n
        BY <2>2, <3>3
      <4> QED
        BY <3>2, <3>3, <4>1 DEF next
    <3>4. CASE i # n + 1
      <4>1. i \in 1 .. n
        BY <2>2, <3>4
      <4>2. f[i] = g[<<i, f[i - 1]>>]
        BY <2>1, <4>1
      <4> QED
        BY <3>2, <3>4, <4>2
    <3> QED
      BY <3>3, <3>4
  <2>6. To(n + 1, h)
    BY <2>4, <2>5
  <2> HIDE DEF h, To
  <2> QED
    BY <2>2, <2>6
<1> HIDE DEF T
<1>3. \A n \in 0 .. N - 1 : n \in T => n + 1 \in T
  BY <1>2
<1>4. N \in T
  <2>1. \A n \in 0 .. N : n \in T
    BY <1>1, <1>3, UpTo
  <2> QED
    BY <2>1
<1>5. PICK f : To(N, f)
  BY <1>4 DEF T
<1>6. ASSUME NEW n \in 0 .. N PROVE f[n] = IF n = 0 THEN base ELSE g[<<n, f[n - 1]>>]
  <2>1. n = 0 \/ n \in 1 .. N
    OBVIOUS
  <2> QED
    BY <1>5, <2>1
<1>7. f = [n \in 0 .. N |-> f[n]]
  BY <1>5
<1>8. f = [n \in 0 .. N |-> IF n = 0 THEN base ELSE g[<<n, f[n - 1]>>]]
  BY <1>6, <1>7
<1> QED
  BY <1>5, <1>8 DEF GoesOn

----------------------------------------------------------------------------
(* A module *)

ProcedureRecords == [locals : 0 .. 127, inits : Seq(Inits), code : Nat]

ProcHeader(routine) == EncodeHeader(routine.locals, routine.inits)

GoodModule(mod) ==
  /\ mod.procs \in Seq(ProcedureRecords)
  /\ mod.exports \in Seq(1 .. Len(mod.procs))
  /\ mod.globals \in Seq(Nat)
  /\ \A p \in 1 .. Len(mod.procs) : /\ Len(mod.procs[p].inits) <= MaxInitializers
                                       /\ CodeAt(mod, p) < 65536

\* The bytes and starts of so many procedures
Laying == [bytes : Bytes, starts : Seq(Nat)]

LaidNext(mod, n, upto) ==
  LET routine == mod.procs[n]
      header  == EncodeHeader(routine.locals, routine.inits)
      start  == StartAfter(Len(upto.bytes), Len(header))
  IN  [bytes  |-> upto.bytes \o Zeros(start - Len(upto.bytes)) \o header \o Zeros(routine.code),
       starts |-> Append(upto.starts, start)]

\* So many procedures are laid out, each with its header where it starts.
LaidSoFar(mod, n, laid) ==
  /\ laid \in Laying /\ Len(laid.starts) = n
  /\ \A p \in 1 .. n : Holds(laid.bytes, laid.starts[p], ProcHeader(mod.procs[p]))

\* AlignProcedureStart never moves a procedure back.
LEMMA StartsBehind ==
  ASSUME NEW end \in Nat, NEW n \in Nat
  PROVE  StartAfter(end, n) \in Nat /\ StartAfter(end, n) >= end
<1>1. PageBytes \in Nat \ {0}
  BY FilesAssumption
<1>2. end % PageBytes \in 0 .. PageBytes - 1
  BY <1>1, Division
<1> DEFINE r == end % PageBytes
<1> HIDE DEF r
<1>3. r \in 0 .. PageBytes - 1
  BY <1>2 DEF r
<1>4. StartAfter(end, n) = IF n > PageBytes - r THEN end + PageBytes - r ELSE end
  BY DEF StartAfter, r
<1> QED
  BY <1>1, <1>3, <1>4

\* A procedure's header takes 1 to 193 bytes.
LEMMA HeaderType ==
  ASSUME NEW routine \in ProcedureRecords, Len(routine.inits) <= 64
  PROVE  ProcHeader(routine) \in Seq(Nat) /\ Len(ProcHeader(routine)) \in 1 .. 193
<1>1. routine.locals \in 0 .. 127 /\ routine.inits \in Seq(Inits)
  BY DEF ProcedureRecords
<1>2. HeaderHas(routine.locals, routine.inits, EncodeHeader(routine.locals, routine.inits),
                FlattenSeq(Encoded(routine.inits)))
  BY <1>1, HeaderIs
<1> QED
  BY <1>2, Zenon DEF HeaderHas, ProcHeader, Bytes

\* One more procedure
LEMMA OneLaidMore ==
  ASSUME NEW mod, GoodModule(mod), NEW n \in 1 .. Len(mod.procs),
         NEW upto \in Laying
  PROVE  /\ LaidNext(mod, n, upto) \in Laying
         /\ LaidSoFar(mod, n - 1, upto) => LaidSoFar(mod, n, LaidNext(mod, n, upto))
<1> DEFINE routine == mod.procs[n]
           header == ProcHeader(routine)
           old == upto.bytes
           starts == upto.starts
           start == StartAfter(Len(old), Len(header))
           gap == Zeros(start - Len(old))
           code == Zeros(routine.code)
           a == old \o gap
           b == a \o header
           c == b \o code
           next == LaidNext(mod, n, upto)
<1>1. mod.procs \in Seq(ProcedureRecords)
      /\ \A p \in 1 .. Len(mod.procs) : Len(mod.procs[p].inits) <= MaxInitializers
  BY DEF GoodModule
<1>2. routine \in ProcedureRecords /\ Len(routine.inits) <= 64 /\ routine.code \in Nat
  <2>1. routine \in ProcedureRecords /\ Len(routine.inits) <= MaxInitializers
    BY <1>1, ElementOfSeq
  <2>2. routine.inits \in Seq(Inits) /\ routine.code \in Nat
    BY <2>1 DEF ProcedureRecords
  <2>3. Len(routine.inits) \in Nat
    BY <2>2, LenProperties
  <2> HIDE DEF routine
  <2> DEFINE i == Len(routine.inits)
  <2>4. i \in Nat /\ i <= MaxInitializers /\ MaxInitializers \in 1 .. 64
    BY <2>1, <2>3, FilesAssumption
  <2> HIDE DEF i
  <2>5. i <= 64
    BY <2>4
  <2> QED
    BY <2>1, <2>2, <2>5 DEF i
<1>3. header \in Seq(Nat) /\ Len(header) \in Nat
  BY <1>2, HeaderType
<1>4. old \in Seq(Nat) /\ starts \in Seq(Nat) /\ Len(old) \in Nat
  <2>1. old \in Seq(Nat) /\ starts \in Seq(Nat)
    BY DEF Laying, Bytes
  <2> QED
    BY <2>1, LenProperties
<1>5. next = [bytes |-> c, starts |-> Append(starts, start)]
  BY DEF LaidNext, ProcHeader
<1> HIDE DEF routine, header, old, starts, next
<1>6. start \in Nat /\ start - Len(old) \in Nat
  <2> DEFINE l == Len(old)
             h == Len(header)
  <2>1. l \in Nat /\ h \in Nat
    BY <1>3, <1>4
  <2> HIDE DEF l, h
  <2>2. StartAfter(l, h) \in Nat /\ StartAfter(l, h) >= l
    BY <2>1, StartsBehind
  <2>3. StartAfter(l, h) - l \in Nat
    BY <2>1, <2>2
  <2> QED
    BY <2>2, <2>3 DEF l, h
<1>7. gap \in Seq(Nat) /\ Len(gap) = start - Len(old) /\ code \in Seq(Nat)
  BY <1>2, <1>6, ZerosAre
<1> HIDE DEF start, gap, code
<1>8. a \in Seq(Nat) /\ Len(a) = start /\ Holds(a, 0, old)
  <2>1. a \in Seq(Nat) /\ Len(a) = Len(old) + Len(gap) /\ Holds(a, 0, old)
    BY <1>4, <1>7, HoldsParts
  <2> QED
    BY <1>4, <1>6, <1>7, <2>1
<1> HIDE DEF a
<1>9. b \in Seq(Nat) /\ Holds(b, 0, a) /\ Holds(b, start, header)
  BY <1>3, <1>8, HoldsParts
<1> HIDE DEF b
<1>10. c \in Seq(Nat) /\ Holds(c, 0, b)
  BY <1>7, <1>9, HoldsParts
<1> HIDE DEF c
<1>11. Holds(c, start, header)
  <2>1. Holds(c, 0 + start, header)
    BY <1>3, <1>6, <1>9, <1>10, HoldsDeeper
  <2> QED
    BY <1>6, <2>1
<1>12. Holds(c, 0, old)
  <2>1. Holds(b, 0 + 0, old)
    BY <1>4, <1>8, <1>9, HoldsDeeper
  <2>2. Holds(c, 0 + 0, old)
    BY <1>4, <1>9, <1>10, <2>1, HoldsDeeper
  <2> QED
    BY <2>2
<1> DEFINE more == Append(starts, start)
<1>13. /\ more \in Seq(Nat) /\ Len(more) = Len(starts) + 1
       /\ \A i \in 1 .. Len(starts) : more[i] = starts[i]
       /\ more[Len(starts) + 1] = start
  BY <1>4, <1>6, AppendProperties
<1>14. next \in Laying /\ next.bytes = c /\ next.starts = more
  BY <1>5, <1>10, <1>13 DEF Laying, Bytes
<1> HIDE DEF more
<1>15. ASSUME LaidSoFar(mod, n - 1, upto) PROVE LaidSoFar(mod, n, next)
  <2>1. /\ Len(starts) = n - 1
        /\ \A p \in 1 .. n - 1 : Holds(old, starts[p], ProcHeader(mod.procs[p]))
    BY <1>15 DEF LaidSoFar, starts, old
  <2>2. n \in Nat \ {0} /\ Len(more) = n /\ more[n] = start
        /\ \A p \in 1 .. n - 1 : more[p] = starts[p]
    <3>1. n \in Nat \ {0} /\ (n - 1) + 1 = n
      OBVIOUS
    <3> QED
      BY <1>13, <2>1, <3>1
  <2>3. ASSUME NEW p \in 1 .. n PROVE Holds(c, more[p], ProcHeader(mod.procs[p]))
    <3>1. CASE p = n
      BY <1>11, <2>2, <3>1 DEF header, routine
    <3>2. CASE p # n
      <4>1. p \in 1 .. n - 1 /\ p \in 1 .. Len(mod.procs)
        BY <1>1, <3>2, LenProperties
      <4>2. Holds(old, starts[p], ProcHeader(mod.procs[p])) /\ more[p] = starts[p]
        BY <2>1, <2>2, <4>1
      <4>3. starts[p] \in Nat
        BY <1>4, <2>1, <4>1, ElementOfSeq
      <4>4. ProcHeader(mod.procs[p]) \in Seq(Nat)
        <5> DEFINE q == mod.procs[p]
                   i == Len(q.inits)
        <5>1. q \in ProcedureRecords /\ i <= MaxInitializers
          BY <1>1, <4>1, ElementOfSeq
        <5>2. i \in Nat
          <6>1. q.inits \in Seq(Inits)
            BY <5>1 DEF ProcedureRecords
          <6> QED
            BY <6>1, LenProperties
        <5> HIDE DEF q
        <5>3. i <= 64
          <6> HIDE DEF i
          <6> QED
            BY <5>1, <5>2, FilesAssumption
        <5>4. ProcHeader(q) \in Seq(Nat)
          BY <5>1, <5>3, HeaderType
        <5> QED
          BY <5>4 DEF q
      <4> DEFINE o == starts[p]
                 h == ProcHeader(mod.procs[p])
      <4>5. o \in Nat /\ h \in Seq(Nat) /\ Holds(old, o, h)
        BY <4>2, <4>3, <4>4
      <4> HIDE DEF o, h
      <4>6. Holds(c, 0 + o, h)
        BY <1>4, <1>10, <1>12, <4>5, HoldsDeeper
      <4>7. 0 + o = o
        BY <4>5
      <4> QED
        BY <4>2, <4>6, <4>7 DEF o, h
    <3> QED
      BY <3>1, <3>2
  <2> QED
    BY <1>14, <2>2, <2>3 DEF LaidSoFar
<1> QED
  BY <1>14, <1>15 DEF next

\* LayoutModules puts every procedure's header where starts says.
LEMMA LaidOutIs ==
  ASSUME NEW mod, GoodModule(mod)
  PROVE  LaidSoFar(mod, Len(mod.procs), LaidOut(mod))
<1> DEFINE N == Len(mod.procs)
           none == [bytes |-> << >>, starts |-> << >>]
           step(h) == [n \in 0 .. N |-> IF n = 0 THEN none ELSE LaidNext(mod, n, h[n - 1])]
           laid == CHOOSE h : h = step(h)
<1>1. N \in Nat
  BY LenProperties DEF GoodModule
<1>2. LaidOut(mod) = laid[N]
  BY DEF LaidOut, LaidNext
<1>3. none \in Laying
  BY EmptySeq DEF Laying, Bytes
<1>4. \E h \in [0 .. N -> Laying] : h = step(h)
  <2> DEFINE g == [w \in (1 .. N) \X Laying |-> LaidNext(mod, w[1], w[2])]
  <2>1. g \in [(1 .. N) \X Laying -> Laying]
    <3>1. ASSUME NEW w \in (1 .. N) \X Laying PROVE LaidNext(mod, w[1], w[2]) \in Laying
      <4>1. w[1] \in 1 .. N /\ w[2] \in Laying
        OBVIOUS
      <4> QED
        BY <4>1, OneLaidMore
    <3> QED
      BY <3>1
  <2>2. \A n \in 1 .. N, x \in Laying : g[<<n, x>>] = LaidNext(mod, n, x)
    OBVIOUS
  <2> HIDE DEF g, N, none
  <2>3. PICK h : GoesOn(h, Laying, none, N, g)
    BY <1>1, <1>3, <2>1, RecursionExists
  <2>a. h \in [0 .. N -> Laying]
        /\ h = [n \in 0 .. N |-> IF n = 0 THEN none ELSE g[<<n, h[n - 1]>>]]
    BY <2>3 DEF GoesOn
  <2>4. ASSUME NEW n \in 0 .. N
        PROVE  h[n] = IF n = 0 THEN none ELSE LaidNext(mod, n, h[n - 1])
    <3>1. h[n] = IF n = 0 THEN none ELSE g[<<n, h[n - 1]>>]
      BY <2>a
    <3>2. CASE n # 0
      <4>1. n \in 1 .. N /\ n - 1 \in 0 .. N
        BY <1>1, <3>2
      <4>2. h[n - 1] \in Laying
        BY <2>a, <4>1
      <4> QED
        BY <2>2, <3>1, <3>2, <4>1, <4>2
    <3> QED
      BY <3>1, <3>2
  <2>5. h = [n \in 0 .. N |-> h[n]]
    BY <2>a
  <2>6. h = step(h)
    BY <2>4, <2>5
  <2> QED
    BY <2>a, <2>6 DEF N, none
<1>5. laid = step(laid)
  BY <1>4
<1> HIDE DEF laid
<1>6. \A n \in 0 .. N : laid[n] = IF n = 0 THEN none ELSE LaidNext(mod, n, laid[n - 1])
  BY <1>5
<1> DEFINE T == {n \in Nat : LaidSoFar(mod, n, laid[n])}
<1>7. 0 \in T
  <2>1. laid[0] = none /\ Len(none.starts) = 0
    BY <1>1, <1>6
  <2> QED
    BY <1>3, <2>1 DEF LaidSoFar
<1>8. ASSUME NEW n \in 0 .. N - 1, n \in T PROVE n + 1 \in T
  <2>1. n + 1 \in 1 .. Len(mod.procs) /\ n + 1 \in 0 .. N /\ n + 1 # 0 /\ (n + 1) - 1 = n
        /\ n + 1 \in Nat
    BY <1>1
  <2>2. laid[n + 1] = LaidNext(mod, n + 1, laid[n])
    BY <1>6, <2>1
  <2>3. laid[n] \in Laying /\ LaidSoFar(mod, (n + 1) - 1, laid[n])
    BY <1>8, <2>1 DEF LaidSoFar
  <2>4. LaidSoFar(mod, n + 1, LaidNext(mod, n + 1, laid[n]))
    BY <2>1, <2>3, OneLaidMore
  <2> QED
    BY <2>1, <2>2, <2>4
<1> HIDE DEF T
<1>9. \A n \in 0 .. N - 1 : n \in T => n + 1 \in T
  BY <1>8
<1>10. N \in T
  <2>1. \A n \in 0 .. N : n \in T
    BY <1>1, <1>7, <1>9, UpTo
  <2> QED
    BY <1>1, <2>1
<1> QED
  BY <1>2, <1>10 DEF T

\* Each of the sequences joined is held by the whole, and the first of them join alike.
LEMMA FlattenHolds ==
  ASSUME NEW S, NEW s \in Seq(Seq(S)), NEW f, Joins(f, s, S), NEW i \in 1 .. Len(s)
  PROVE  /\ Holds(FlattenSeq(s), Len(f[i - 1]), s[i])
         /\ Len(f[i - 1]) \in Nat /\ Len(f[i]) = Len(f[i - 1]) + Len(s[i])
         /\ Len(f[i]) <= Len(FlattenSeq(s))
<1>1. FlattenSeq(s) = f[Len(s)]
  BY FlattenJoins
<1>2. Lies(f, s, i)
  BY JoinedAt
<1> DEFINE u == Len(f[i - 1])
           v == Len(f[i])
           w == Len(f[Len(s)])
<1>3. /\ u \in Nat /\ v = u + Len(s[i]) /\ v <= w
      /\ \A k \in 1 .. Len(s[i]) : f[Len(s)][u + k] = s[i][k]
  BY <1>2 DEF Lies
<1> HIDE DEF u, v, w
<1>4. u + Len(s[i]) <= w
  BY <1>3
<1> QED
  BY <1>1, <1>3, <1>4 DEF Holds, u, v, w

\* The first of the sequences joined are the start of the whole.
LEMMA FlattenFirst ==
  ASSUME NEW S, NEW s \in Seq(Seq(S)), NEW f, Joins(f, s, S), NEW m \in 1 .. Len(s) + 1
  PROVE  FlattenSeq(SubSeq(s, 1, m - 1)) = f[m - 1]
<1> DEFINE n == m - 1
           t == SubSeq(s, 1, n)
           g == [i \in 0 .. n |-> f[i]]
<1>1. n \in Nat /\ n <= Len(s) /\ Len(s) \in Nat
  BY LenProperties
<1>2. /\ f \in [0 .. Len(s) -> Seq(S)] /\ f[0] = << >>
      /\ \A i \in 1 .. Len(s) : f[i] = f[i - 1] \o s[i]
  BY DEF Joins
<1> HIDE DEF n
<1>3. t \in Seq(Seq(S)) /\ Len(t) = n /\ \A i \in 1 .. n : t[i] = s[i]
  <2>1. \A i \in 1 .. n : s[i] \in Seq(S)
    <3>1. ASSUME NEW i \in 1 .. n PROVE s[i] \in Seq(S)
      <4>1. i \in 1 .. Len(s)
        BY <1>1
      <4> QED
        BY <4>1, ElementOfSeq
    <3> QED
      BY <3>1
  <2>2. 1 \in Int /\ n \in Int /\ n - 1 + 1 = n /\ (IF 1 <= n THEN n - 1 + 1 ELSE 0) = n
        /\ \A i \in 1 .. n : 1 + i - 1 = i
    BY <1>1
  <2>3. /\ SubSeq(s, 1, n) \in Seq(Seq(S))
        /\ Len(SubSeq(s, 1, n)) = IF 1 <= n THEN n - 1 + 1 ELSE 0
        /\ \A i \in 1 .. n - 1 + 1 : SubSeq(s, 1, n)[i] = s[1 + i - 1]
    BY <2>1, <2>2, SubSeqProperties
  <2> QED
    BY <2>2, <2>3
<1> HIDE DEF t
<1>4. Joins(g, t, S)
  <2>1. ASSUME NEW i \in 0 .. n PROVE i \in 0 .. Len(s)
    BY <1>1
  <2>2. g \in [0 .. n -> Seq(S)] /\ g[0] = << >>
    BY <1>1, <1>2, <2>1, SMTT(30)
  <2>3. ASSUME NEW i \in 1 .. n PROVE g[i] = g[i - 1] \o t[i]
    <3>1. i \in 1 .. Len(s) /\ i \in 0 .. n /\ i - 1 \in 0 .. n
      BY <1>1
    <3>2. g[i] = f[i] /\ g[i - 1] = f[i - 1]
      BY <3>1
    <3> QED
      BY <1>2, <1>3, <3>1, <3>2
  <2> HIDE DEF g
  <2> QED
    BY <1>3, <2>2, <2>3 DEF Joins
<1>5. FlattenSeq(t) = g[Len(t)]
  <2> HIDE DEF g
  <2> QED
    BY <1>3, <1>4, FlattenJoins
<1>6. n \in 0 .. n
  BY <1>1
<1>7. FlattenSeq(t) = f[n]
  BY <1>3, <1>5, <1>6
<1> QED
  BY <1>7 DEF t, n

----------------------------------------------------------------------------
(* A program *)

GoodProgram(p) ==
  /\ p.modules \in Seq([procs : Seq(ProcedureRecords), exports : Seq(Nat), globals : Seq(Nat)])
  /\ Len(p.modules) \in 1 .. MaxModules
  /\ \A m \in 1 .. Len(p.modules) : GoodModule(p.modules[m])
  /\ p.globals \in Seq(Nat) /\ p.ram \in Seq(Nat) /\ p.ram # << >> /\ p.data \in Nat
  /\ p.entry[1] \in 1 .. Len(p.modules) /\ p.entry[2] \in 0 .. 255
  /\ p.entry[2] < Len(p.modules[p.entry[1]].exports)

\* A sequence over a set is one over any larger set.
LEMMA SequencesOfMore ==
  ASSUME NEW S, NEW T, S \subseteq T
  PROVE  Seq(S) \subseteq Seq(T)
<1>1. ASSUME NEW s \in Seq(S) PROVE s \in Seq(T)
  BY <1>1
<1> QED
  BY <1>1

\* A table of words is a sequence of numbers.
LEMMA WordsAreNat == Seq(Words16) \subseteq Seq(Nat)
<1>1. Words16 \subseteq Nat
  BY DEF Words16
<1> QED
  BY <1>1, SequencesOfMore

\* The programs of the cases are well formed.
LEMMA ProgramsAreGood ==
  ASSUME NEW p \in Programs
  PROVE  GoodProgram(p)
<1> DEFINE n == Len(p.modules)
           Procs == [locals : 0 .. 127, inits : Seq([local : 0 .. 63, value : Words16]), code : Nat]
           Mods == [procs : Seq(Procs), exports : Seq(Nat), globals : Seq(Words16)]
<1>1. WellFormed(p) /\ n <= MaxModules /\ MaxModules \in Nat
  BY ProgramsAssumption
<1>2. p \in [modules : Seq(Mods), globals : Seq(Words16), entry : Nat \X (0 .. 255),
             ram : Seq(Words16), data : Nat]
  BY <1>1 DEF WellFormed, ProgramRecords
<1>3. Procs = ProcedureRecords
  <2>1. Words16 = WordValues
    BY DEF Words16, WordValues, W
  <2> QED
    BY <2>1 DEF ProcedureRecords, Inits, Locals
<1> HIDE DEF Procs
<1>4. Mods \subseteq [procs : Seq(ProcedureRecords), exports : Seq(Nat), globals : Seq(Nat)]
  BY <1>3, WordsAreNat
<1>5. /\ p.modules \in Seq(Mods) /\ p.globals \in Seq(Words16) /\ p.ram \in Seq(Words16) /\ p.data \in Nat
      /\ p.entry[1] \in Nat /\ p.entry[2] \in 0 .. 255
  BY <1>2
<1>6. /\ \A m \in DOMAIN p.modules :
           /\ \A e \in DOMAIN p.modules[m].exports :
                p.modules[m].exports[e] \in DOMAIN p.modules[m].procs
           /\ \A q \in DOMAIN p.modules[m].procs :
                /\ Len(p.modules[m].procs[q].inits) <= MaxInitializers
                /\ CodeAt(p.modules[m], q) \in Words16
      /\ p.entry[1] \in DOMAIN p.modules
      /\ p.entry[2] < Len(p.modules[p.entry[1]].exports)
      /\ p.ram # << >>
  BY <1>1 DEF WellFormed
<1>7. n \in Nat /\ DOMAIN p.modules = 1 .. n
  BY <1>5, LenProperties
<1>8. p.modules \in Seq([procs : Seq(ProcedureRecords), exports : Seq(Nat), globals : Seq(Nat)])
  <2> DEFINE M == [procs : Seq(ProcedureRecords), exports : Seq(Nat), globals : Seq(Nat)]
             x == p.modules
  <2>1. Mods \subseteq M /\ x \in Seq(Mods)
    BY <1>4, <1>5
  <2> HIDE DEF M, x, Mods
  <2>2. x \in Seq(M)
    BY <2>1
  <2> QED
    BY <2>2 DEF M, x
<1>9. ASSUME NEW m \in 1 .. n PROVE GoodModule(p.modules[m])
  <2> DEFINE k == p.modules[m]
  <2>1. k \in Mods
    BY <1>5, ElementOfSeq
  <2>2. k.procs \in Seq(ProcedureRecords) /\ k.exports \in Seq(Nat) /\ k.globals \in Seq(Nat)
    BY <1>4, <2>1
  <2>3. /\ \A e \in DOMAIN k.exports : k.exports[e] \in DOMAIN k.procs
        /\ \A q \in DOMAIN k.procs : /\ Len(k.procs[q].inits) <= MaxInitializers
                                     /\ CodeAt(k, q) \in Words16
    BY <1>6, <1>7
  <2> HIDE DEF k
  <2>4. DOMAIN k.procs = 1 .. Len(k.procs) /\ DOMAIN k.exports = 1 .. Len(k.exports)
        /\ Len(k.exports) \in Nat
    BY <2>2, LenProperties
  <2>5. k.exports \in Seq(1 .. Len(k.procs))
    <3> DEFINE x == k.exports
               P == 1 .. Len(k.procs)
    <3>1. x \in Seq(Nat) /\ \A e \in 1 .. Len(x) : x[e] \in P
      BY <2>2, <2>3, <2>4
    <3> HIDE DEF x, P
    <3>2. x \in Seq(P)
      BY <3>1
    <3> QED
      BY <3>2 DEF x, P
  <2>6. \A q \in 1 .. Len(k.procs) : /\ Len(k.procs[q].inits) <= MaxInitializers
                                     /\ CodeAt(k, q) < 65536
    <3>1. \A w \in Words16 : w < 65536
      BY DEF Words16
    <3>2. ASSUME NEW q \in 1 .. Len(k.procs)
          PROVE  Len(k.procs[q].inits) <= MaxInitializers /\ CodeAt(k, q) < 65536
      <4> DEFINE i == Len(k.procs[q].inits)
                 c == CodeAt(k, q)
      <4>1. i <= MaxInitializers /\ c \in Words16
        BY <2>3, <2>4
      <4> HIDE DEF i, c
      <4>2. i <= MaxInitializers /\ c < 65536
        BY <3>1, <4>1
      <4> QED
        BY <4>2 DEF i, c
    <3> QED
      BY <3>2
  <2> QED
    BY <2>2, <2>5, <2>6 DEF GoodModule, k
<1>10. p.globals \in Seq(Nat) /\ p.ram \in Seq(Nat)
  BY <1>5, WordsAreNat
<1>11. n \in 1 .. MaxModules /\ p.entry[1] \in 1 .. n
  BY <1>1, <1>6, <1>7
<1> QED
  BY <1>5, <1>6, <1>8, <1>9, <1>10, <1>11 DEF GoodProgram

----------------------------------------------------------------------------
(* The code *)

ModuleStart(p, m) == PageBytes * ModulePage(p, m)

ModuleStop(p, m) ==
  IF m = Len(p.modules) THEN Len(Code(p)) ELSE PageBytes * ModulePage(p, m + 1)

\* A module's bytes are in the code, where its page says, before the next.
ModuleIn(p, m) ==
  /\ ModuleStart(p, m) \in Nat /\ ModuleStop(p, m) \in Nat
  /\ ModuleStart(p, m) + Len(LaidOut(p.modules[m]).bytes) <= ModuleStop(p, m)
  /\ ModuleStop(p, m) <= Len(Code(p))
  /\ Holds(Code(p), ModuleStart(p, m), LaidOut(p.modules[m]).bytes)

\* Each module's bytes hold its code, and all but the last fill whole pages.
LEMMA ModuleBytesAre ==
  ASSUME NEW p, GoodProgram(p)
  PROVE  /\ ModuleBytes(p) \in Seq(Bytes) /\ Len(ModuleBytes(p)) = Len(p.modules)
         /\ \A m \in 1 .. Len(p.modules) :
              LET laid == LaidOut(p.modules[m]).bytes
              IN  /\ laid \in Bytes /\ Len(laid) \in Nat
                  /\ Holds(ModuleBytes(p)[m], 0, laid)
                  /\ m < Len(p.modules) =>
                       Len(ModuleBytes(p)[m]) = PageBytes * ((Len(laid) + PageBytes - 1) \div PageBytes)
<1> DEFINE n == Len(p.modules)
           laid(m) == LaidOut(p.modules[m]).bytes
           bytes(m) == IF m < n THEN PaddedTo(laid(m), PageBytes) ELSE laid(m)
<1>1. n \in Nat /\ DOMAIN p.modules = 1 .. n
  BY LenProperties DEF GoodProgram
<1>2. PageBytes \in Nat \ {0}
  BY FilesAssumption
<1>3. ASSUME NEW m \in 1 .. n
      PROVE  /\ laid(m) \in Bytes /\ Len(laid(m)) \in Nat
             /\ bytes(m) \in Bytes /\ Holds(bytes(m), 0, laid(m))
             /\ m < n => Len(bytes(m)) = PageBytes * ((Len(laid(m)) + PageBytes - 1) \div PageBytes)
  <2>1. GoodModule(p.modules[m])
    BY DEF GoodProgram
  <2>2. LaidSoFar(p.modules[m], Len(p.modules[m].procs), LaidOut(p.modules[m]))
    BY <2>1, LaidOutIs
  <2>3. laid(m) \in Seq(Nat)
    BY <2>2 DEF LaidSoFar, Laying, Bytes
  <2> DEFINE x == laid(m)
  <2>4. bytes(m) = IF m < n THEN PaddedTo(x, PageBytes) ELSE x
    OBVIOUS
  <2>5. x \in Seq(Nat)
    BY <2>3
  <2> HIDE DEF x, bytes, n
  <2>6. Len(x) \in Nat
    BY <2>5, LenProperties
  <2>7. /\ PaddedTo(x, PageBytes) \in Seq(Nat) /\ Holds(PaddedTo(x, PageBytes), 0, x)
        /\ Len(PaddedTo(x, PageBytes)) = PageBytes * ((Len(x) + PageBytes - 1) \div PageBytes)
    BY <1>2, <2>5, Padded
  <2>8. Holds(x, 0, x)
    <3>1. 0 + Len(x) <= Len(x) /\ \A k \in 1 .. Len(x) : 0 + k = k
      BY <2>6
    <3> QED
      BY <3>1 DEF Holds
  <2>9. x \in Bytes /\ bytes(m) \in Bytes /\ Holds(bytes(m), 0, x)
        /\ (m < n => Len(bytes(m)) = PageBytes * ((Len(x) + PageBytes - 1) \div PageBytes))
    BY <2>4, <2>5, <2>7, <2>8 DEF Bytes
  <2> QED
    BY <2>6, <2>9 DEF x
<1>4. ModuleBytes(p) = [m \in 1 .. n |-> bytes(m)]
  BY <1>1 DEF ModuleBytes
<1>5. ModuleBytes(p) \in Seq(Bytes) /\ Len(ModuleBytes(p)) = n
      /\ \A m \in 1 .. n : ModuleBytes(p)[m] = bytes(m)
  <2>1. \A m \in 1 .. n : bytes(m) \in Bytes
    BY <1>3
  <2> HIDE DEF bytes, n
  <2>2. [m \in 1 .. n |-> bytes(m)] \in Seq(Bytes) /\ Len([m \in 1 .. n |-> bytes(m)]) = n
    BY <1>1, <2>1
  <2> QED
    BY <1>4, <2>2
<1> HIDE DEF bytes
<1> QED
  BY <1>3, <1>5

\* What is known of the units: a page is an even number of bytes.
LEMMA UnitsAre ==
  /\ PageBytes \in Nat \ {0} /\ UnitBytes \in Nat \ {0} /\ HeaderWords \in 16 .. 48
  /\ \E h \in Nat \ {0} : PageBytes = 2 * h /\ PageBytes \div 2 = h
<1>1. /\ PageBytes \in {2 * n : n \in 1 .. 128}
      /\ UnitBytes \in {PageBytes, 2 * PageBytes} /\ HeaderWords \in 16 .. 48
  BY FilesAssumption
<1>2. PICK h \in 1 .. 128 : PageBytes = 2 * h
  BY <1>1
<1>3. PageBytes \div 2 = h
  BY <1>2
<1> QED
  BY <1>1, <1>2, <1>3

\* Whole units are counted as they are.
LEMMA PagesOf ==
  ASSUME NEW u \in Nat \ {0}, NEW q \in Nat
  PROVE  (u * q) \div u = q
<1>1. (u * q + 0) % u = 0
  BY RestOfMultiple
<1> DEFINE x == u * q
<1>2. x \in Int /\ x % u = 0
  BY <1>1
<1>3. x = u * (x \div u) + (x % u) /\ x \div u \in Int
  BY <1>2, Division
<1>4. u * (x \div u) = u * q
  BY <1>2, <1>3
<1> HIDE DEF x
<1>5. x \div u = q
  BY <1>3, <1>4
<1> QED
  BY <1>5 DEF x

\* Where the modules start, by the lengths of what is joined
LEMMA PagesAre ==
  ASSUME NEW p, GoodProgram(p), NEW f, Joins(f, ModuleBytes(p), Nat)
  PROVE  \A m \in 1 .. Len(p.modules) :
           /\ ModulePage(p, m) \in Nat /\ ModuleStart(p, m) = Len(f[m - 1])
<1> DEFINE n == Len(p.modules)
           s == ModuleBytes(p)
           T == {i \in Nat : \E q \in Nat : Len(f[i]) = PageBytes * q}
<1>1. n \in Nat \ {0} /\ PageBytes \in Nat \ {0}
  BY UnitsAre, ProgramsAssumption, LenProperties DEF GoodProgram
<1>2. /\ s \in Seq(Seq(Nat)) /\ Len(s) = n
      /\ \A m \in 1 .. n :
           /\ Len(LaidOut(p.modules[m]).bytes) \in Nat
           /\ m < n => Len(s[m]) = PageBytes * ((Len(LaidOut(p.modules[m]).bytes) + PageBytes - 1)
                                                  \div PageBytes)
  BY ModuleBytesAre DEF Bytes
<1>3. Joins(f, s, Nat) /\ f[0] = << >>
  BY DEF Joins
<1>4. 0 \in T
  <2>1. Len(<< >>) = 0 /\ 0 = PageBytes * 0 /\ 0 \in Nat
    BY <1>1
  <2> QED
    BY <1>3, <2>1
<1> HIDE DEF n, s
<1>5. ASSUME NEW i \in 0 .. (n - 1) - 1, i \in T PROVE i + 1 \in T
  <2>1. i + 1 \in 1 .. n /\ i + 1 < n /\ (i + 1) - 1 = i /\ i + 1 \in Nat
    BY <1>1
  <2>2. PICK q \in Nat : Len(f[i]) = PageBytes * q
    BY <1>5
  <2> DEFINE l == Len(LaidOut(p.modules[i + 1]).bytes)
             k == (l + PageBytes - 1) \div PageBytes
             a == Len(f[i])
             b == Len(f[i + 1])
             c == Len(s[i + 1])
  <2>3. l \in Nat /\ c = PageBytes * k
    BY <1>2, <2>1
  <2>4. a \in Nat /\ b = a + c
    BY <1>2, <1>3, <2>1, FlattenHolds, ZenonT(60)
  <2> HIDE DEF l, a, b, c
  <2>5. k \in Nat
    <3>1. l + PageBytes - 1 \in Nat
      BY <1>1, <2>3
    <3> DEFINE x == l + PageBytes - 1
    <3> HIDE DEF x
    <3>2. x \in Nat
      BY <3>1 DEF x
    <3>3. x \div PageBytes \in Nat
      BY <1>1, <3>2
    <3> QED
      BY <3>3 DEF x
  <2> HIDE DEF k
  <2>6. b = PageBytes * (q + k) /\ q + k \in Nat
    BY <1>1, <2>2, <2>3, <2>4, <2>5 DEF a
  <2> QED
    BY <2>1, <2>6 DEF b
<1>6. \A i \in 0 .. n - 1 : i \in T
  <2>1. n - 1 \in Nat
    BY <1>1
  <2> HIDE DEF T
  <2>2. \A i \in 0 .. (n - 1) - 1 : i \in T => i + 1 \in T
    BY <1>5
  <2> QED
    BY <1>4, <2>1, <2>2, UpTo
<1>7. ASSUME NEW m \in 1 .. n PROVE ModulePage(p, m) \in Nat /\ ModuleStart(p, m) = Len(f[m - 1])
  <2>1. m - 1 \in 0 .. n - 1 /\ m \in 1 .. Len(s) + 1
    BY <1>1, <1>2
  <2>2. FlattenSeq(SubSeq(s, 1, m - 1)) = f[m - 1]
    BY <1>2, <1>3, <2>1, FlattenFirst
  <2>3. ModulePage(p, m) = Len(f[m - 1]) \div PageBytes
    BY <2>2 DEF ModulePage, s
  <2>4. PICK q \in Nat : Len(f[m - 1]) = PageBytes * q
    BY <1>6, <2>1
  <2>5. (PageBytes * q) \div PageBytes = q
    BY <1>1, PagesOf
  <2>6. ModulePage(p, m) = q
    BY <2>3, <2>4, <2>5
  <2> QED
    BY <2>4, <2>6 DEF ModuleStart
<1> QED
  BY <1>7 DEF n

CodeUnits(p) == (Len(FlattenSeq(ModuleBytes(p))) + UnitBytes - 1) \div UnitBytes

\* The .OBJ holds the modules' bytes from its start and ends with a unit.
LEMMA CodeIs ==
  ASSUME NEW p, GoodProgram(p)
  PROVE  /\ Code(p) \in Seq(Nat) /\ Holds(Code(p), 0, FlattenSeq(ModuleBytes(p)))
         /\ FlattenSeq(ModuleBytes(p)) \in Seq(Nat)
         /\ CodeUnits(p) \in Nat /\ Len(Code(p)) = UnitBytes * CodeUnits(p)
         /\ Len(Code(p)) \div UnitBytes = CodeUnits(p)
<1> DEFINE x == FlattenSeq(ModuleBytes(p))
           l == Len(x)
<1>1. ModuleBytes(p) \in Seq(Seq(Nat))
  BY ModuleBytesAre DEF Bytes
<1>2. x \in Seq(Nat)
  <2> DEFINE s == ModuleBytes(p)
  <2>1. s \in Seq(Seq(Nat))
    BY <1>1
  <2> HIDE DEF s
  <2>2. PICK f : Joins(f, s, Nat)
    BY <2>1, JoinsExist
  <2>3. FlattenSeq(s) = f[Len(s)]
    BY <2>1, <2>2, FlattenJoins
  <2>4. Len(s) \in Nat /\ f \in [0 .. Len(s) -> Seq(Nat)]
    BY <2>1, <2>2, LenProperties DEF Joins
  <2> QED
    BY <2>3, <2>4 DEF s
<1> HIDE DEF x
<1>3. UnitBytes \in Nat \ {0} /\ l \in Nat
  BY <1>2, LenProperties, UnitsAre
<1>4. /\ PaddedTo(x, UnitBytes) \in Seq(Nat) /\ Holds(PaddedTo(x, UnitBytes), 0, x)
      /\ Len(PaddedTo(x, UnitBytes)) = UnitBytes * ((l + UnitBytes - 1) \div UnitBytes)
  BY <1>2, <1>3, Padded
<1> HIDE DEF l
<1>5. CodeUnits(p) \in Nat
  <2> DEFINE y == l + UnitBytes - 1
  <2>1. y \in Nat
    BY <1>3
  <2>2. CodeUnits(p) = y \div UnitBytes
    BY DEF CodeUnits, l, x
  <2> HIDE DEF y
  <2> QED
    BY <1>3, <2>1, <2>2
<1>6. Len(Code(p)) = UnitBytes * CodeUnits(p)
  BY <1>4 DEF Code, CodeUnits, l, x
<1> QED
  BY <1>2, <1>3, <1>4, <1>5, <1>6, PagesOf DEF Code, x

\* Every module begins with a page and holds its code there.
LEMMA ModulesLaid ==
  ASSUME NEW p, GoodProgram(p), NEW m \in 1 .. Len(p.modules)
  PROVE  ModuleIn(p, m)
<1> DEFINE n == Len(p.modules)
           s == ModuleBytes(p)
           laid == LaidOut(p.modules[m]).bytes
           code == Code(p)
           flat == FlattenSeq(s)
<1>1. n \in Nat
  BY LenProperties DEF GoodProgram
<1>2. /\ s \in Seq(Seq(Nat)) /\ Len(s) = n
      /\ laid \in Seq(Nat) /\ Len(laid) \in Nat /\ Holds(s[m], 0, laid)
  BY ModuleBytesAre DEF Bytes
<1>3. PICK f : Joins(f, s, Nat)
  BY <1>2, JoinsExist
<1>4. \A k \in 1 .. n : ModulePage(p, k) \in Nat /\ ModuleStart(p, k) = Len(f[k - 1])
  BY <1>3, PagesAre
<1>5. /\ code \in Seq(Nat) /\ flat \in Seq(Nat) /\ Holds(code, 0, flat)
  BY CodeIs
<1>a. ModuleStop(p, m) = IF m = n THEN Len(code) ELSE ModuleStart(p, m + 1)
  BY DEF ModuleStop, ModuleStart
<1> HIDE DEF n, s, laid, code
<1>6. /\ Holds(flat, Len(f[m - 1]), s[m]) /\ Len(f[m - 1]) \in Nat
      /\ Len(f[m]) = Len(f[m - 1]) + Len(s[m]) /\ Len(f[m]) <= Len(flat)
  <2>1. m \in 1 .. Len(s)
    BY <1>2 DEF n
  <2> QED
    BY <1>2, <1>3, <2>1, FlattenHolds
<1> HIDE DEF flat
<1> DEFINE part == s[m]
           o == Len(f[m - 1])
           v == Len(f[m])
           a == Len(flat)
           b == Len(code)
           c == Len(laid)
           d == Len(part)
<1>7. part \in Seq(Nat)
  BY <1>2, ElementOfSeq DEF n
<1>8. a \in Nat /\ b \in Nat /\ c \in Nat /\ d \in Nat
  BY <1>2, <1>5, <1>7, LenProperties
<1>9. o \in Nat /\ v = o + d /\ v <= a /\ a <= b /\ c <= d
  <2>1. 0 + a <= b /\ 0 + c <= d
    BY <1>2, <1>5 DEF Holds
  <2>2. o \in Nat /\ v = o + d /\ v <= a
    BY <1>6
  <2> HIDE DEF a, b, c, d, o, v
  <2> QED
    BY <1>8, <2>1, <2>2
<1>10. Holds(code, o, laid)
  <2> HIDE DEF part
  <2>1. Holds(part, 0, laid) /\ Holds(flat, o, part) /\ o \in Nat
    BY <1>2, <1>6 DEF part
  <2> HIDE DEF o
  <2>2. Holds(code, 0 + o, part)
    BY <1>5, <1>7, <2>1, HoldsDeeper
  <2>3. 0 + o = o
    BY <2>1
  <2>4. Holds(code, o, part)
    BY <2>2, <2>3
  <2>5. Holds(code, o + 0, laid)
    BY <1>2, <1>5, <1>7, <2>1, <2>4, HoldsDeeper
  <2>6. o + 0 = o
    BY <2>1
  <2> QED
    BY <2>5, <2>6
<1>11. ModuleStart(p, m) = o
  BY <1>4 DEF n
<1>12. ModuleStop(p, m) \in {v, b} /\ v <= ModuleStop(p, m) /\ ModuleStop(p, m) <= b
  <2> DEFINE stop == ModuleStop(p, m)
  <2>1. stop = IF m = n THEN b ELSE v
    <3>1. CASE m = n
      BY <1>a, <3>1
    <3>2. CASE m # n
      <4>1. m + 1 \in 1 .. n /\ (m + 1) - 1 = m
        BY <1>1, <3>2 DEF n
      <4> QED
        BY <1>4, <1>a, <3>2, <4>1
    <3> QED
      BY <3>1, <3>2
  <2> HIDE DEF a, b, c, d, o, v, stop
  <2>2. v <= b /\ v <= v /\ b <= b
    BY <1>8, <1>9
  <2>3. stop \in {v, b} /\ v <= stop /\ stop <= b
    BY <2>1, <2>2
  <2> QED
    BY <2>3 DEF stop
<1> HIDE DEF a, b, c, d, o, v
<1>13. /\ ModuleStart(p, m) \in Nat /\ ModuleStop(p, m) \in Nat
       /\ ModuleStart(p, m) + c <= ModuleStop(p, m)
  BY <1>8, <1>9, <1>11, <1>12
<1> QED
  BY <1>10, <1>11, <1>12, <1>13 DEF ModuleIn, b, c, code, laid

\* The quotient leaves less than one unit over.
LEMMA QuotientIs ==
  ASSUME NEW u \in Nat \ {0}, NEW q \in Int, NEW r \in 0 .. u - 1
  PROVE  (u * q + r) \div u = q
<1> DEFINE n == u * q + r
<1>1. n \in Int /\ n % u = r
  BY RestOfMultiple
<1> HIDE DEF n
<1>2. n = u * (n \div u) + (n % u) /\ n \div u \in Int
  BY <1>1, Division
<1>3. n = u * q + r
  BY DEF n
<1>4. u * (n \div u) = u * q
  BY <1>1, <1>2, <1>3
<1>5. n \div u = q
  BY <1>2, <1>4
<1> QED
  BY <1>5 DEF n

\* A sequence made longer still holds what it held.
LEMMA HoldsLonger ==
  ASSUME NEW S, NEW x \in Seq(S), NEW z \in Seq(S), NEW y \in Seq(S), NEW o \in Nat, Holds(x, o, y)
  PROVE  x \o z \in Seq(S) /\ Len(x \o z) = Len(x) + Len(z) /\ Holds(x \o z, o, y)
<1> DEFINE w == x \o z
<1>1. w \in Seq(S) /\ Len(w) = Len(x) + Len(z) /\ Holds(w, 0, x)
  BY HoldsParts
<1> HIDE DEF w
<1>2. Holds(w, 0 + o, y) /\ 0 + o = o
  BY <1>1, HoldsDeeper
<1> QED
  BY <1>1, <1>2 DEF w

----------------------------------------------------------------------------
(* The tables *)

PagesTable(p) == [m \in 1 .. Len(p.modules) |-> ModulePage(p, m)]

CountsTable(p) == [m \in 1 .. Len(p.modules) |-> Len(p.modules[m].globals)]

GlobalsTables(p) == [m \in 1 .. Len(p.modules) |-> p.modules[m].globals]

\* The parts of the tables, each where the ones before it end
HasTables(p, x, o) ==
  /\ Holds(x, o, <<Len(p.modules)>>)
  /\ Holds(x, o + 1, PagesTable(p))
  /\ Holds(x, o + 1 + Len(p.modules), <<Len(p.globals)>>)
  /\ Holds(x, o + 2 + Len(p.modules), CountsTable(p))
  /\ Holds(x, o + 2 + 2 * Len(p.modules), p.globals)
  /\ Holds(x, o + 2 + 2 * Len(p.modules) + Len(p.globals), FlattenSeq(GlobalsTables(p)))

TableTypes(p) ==
  /\ Len(p.modules) \in Nat /\ <<Len(p.modules)>> \in Seq(Nat)
  /\ PagesTable(p) \in Seq(Nat) /\ Len(PagesTable(p)) = Len(p.modules)
  /\ Len(p.globals) \in Nat /\ <<Len(p.globals)>> \in Seq(Nat)
  /\ CountsTable(p) \in Seq(Nat) /\ Len(CountsTable(p)) = Len(p.modules)
  /\ p.globals \in Seq(Nat)
  /\ GlobalsTables(p) \in Seq(Seq(Nat)) /\ Len(GlobalsTables(p)) = Len(p.modules)
  /\ FlattenSeq(GlobalsTables(p)) \in Seq(Nat)

\* Sequences over a set join to one over it.
LEMMA FlattenType ==
  ASSUME NEW S, NEW s \in Seq(Seq(S))
  PROVE  FlattenSeq(s) \in Seq(S)
<1>1. PICK f : Joins(f, s, S)
  BY JoinsExist
<1>2. FlattenSeq(s) = f[Len(s)]
  BY <1>1, FlattenJoins
<1>3. Len(s) \in Nat /\ f \in [0 .. Len(s) -> Seq(S)]
  BY <1>1, LenProperties DEF Joins
<1> QED
  BY <1>2, <1>3

\* Each table of the .MME is a sequence of numbers.
LEMMA TablesTyped ==
  ASSUME NEW p, GoodProgram(p)
  PROVE  TableTypes(p)
<1> DEFINE n == Len(p.modules)
           g == Len(p.globals)
           a == [m \in 1 .. n |-> ModulePage(p, m)]
           b == [m \in 1 .. n |-> Len(p.modules[m].globals)]
           c == [m \in 1 .. n |-> p.modules[m].globals]
<1>1. n \in Nat /\ g \in Nat /\ p.globals \in Seq(Nat)
  BY LenProperties DEF GoodProgram
<1>2. ASSUME NEW m \in 1 .. n
      PROVE  ModulePage(p, m) \in Nat /\ p.modules[m].globals \in Seq(Nat)
             /\ Len(p.modules[m].globals) \in Nat
  <2>1. PICK f : Joins(f, ModuleBytes(p), Nat)
    BY ModuleBytesAre, JoinsExist DEF Bytes
  <2>2. ModulePage(p, m) \in Nat
    BY <2>1, PagesAre
  <2>3. p.modules[m].globals \in Seq(Nat)
    <3> DEFINE k == p.modules[m]
    <3>1. GoodModule(k)
      BY DEF GoodProgram
    <3> HIDE DEF k
    <3>2. k.globals \in Seq(Nat)
      BY <3>1 DEF GoodModule
    <3> QED
      BY <3>2 DEF k
  <2> QED
    BY <2>2, <2>3, LenProperties
<1> HIDE DEF n, g
<1>3. <<n>> \in Seq(Nat) /\ <<g>> \in Seq(Nat)
  BY <1>1
<1>4. /\ a \in Seq(Nat) /\ Len(a) = n /\ b \in Seq(Nat) /\ Len(b) = n
      /\ c \in Seq(Seq(Nat)) /\ Len(c) = n
  BY <1>1, <1>2
<1> HIDE DEF a, b, c
<1>5. FlattenSeq(c) \in Seq(Nat)
  BY <1>4, FlattenType
<1> QED
  BY <1>1, <1>3, <1>4, <1>5
  DEF TableTypes, PagesTable, CountsTable, GlobalsTables, n, g, a, b, c

\* The tables stand one behind the other, as BuildMetadataImage writes them.
LEMMA TablesLaid ==
  ASSUME NEW p, GoodProgram(p)
  PROVE  /\ Tables(p) \in Seq(Nat) /\ HasTables(p, Tables(p), 0)
         /\ Len(Tables(p)) \in Nat
<1> DEFINE n == Len(p.modules)
           a == <<n>>
           b == PagesTable(p)
           g == Len(p.globals)
           c == <<g>>
           d == CountsTable(p)
           e == p.globals
           f == FlattenSeq(GlobalsTables(p))
           ab == a \o b
           abc == ab \o c
           abcd == abc \o d
           abcde == abcd \o e
           all == abcde \o f
<1>1. DOMAIN p.modules = 1 .. n
  BY LenProperties DEF GoodProgram
<1>2. Tables(p) = all
  BY <1>1 DEF Tables, PagesTable, CountsTable, GlobalsTables
<1>3. /\ n \in Nat /\ a \in Seq(Nat) /\ b \in Seq(Nat) /\ c \in Seq(Nat) /\ d \in Seq(Nat)
      /\ e \in Seq(Nat) /\ f \in Seq(Nat) /\ g \in Nat
      /\ Len(a) = 1 /\ Len(b) = n /\ Len(c) = 1 /\ Len(d) = n /\ Len(e) = g
  <2>1. Len(<<n>>) = 1 /\ Len(<<g>>) = 1
    OBVIOUS
  <2> QED
    BY <2>1, TablesTyped DEF TableTypes
<1> HIDE DEF a, b, c, d, e, f, n, g
<1>4. /\ ab \in Seq(Nat) /\ Len(ab) = 1 + n /\ Holds(ab, 0, a) /\ Holds(ab, 1, b)
  <2>1. ab \in Seq(Nat) /\ Len(ab) = Len(a) + Len(b) /\ Holds(ab, 0, a) /\ Holds(ab, Len(a), b)
    <3>1. a \in Seq(Nat) /\ b \in Seq(Nat)
      BY <1>3
    <3> QED
      BY <3>1, HoldsParts
  <2>2. Len(a) = 1 /\ Len(b) = n
    BY <1>3
  <2> HIDE DEF ab
  <2> QED
    BY <2>1, <2>2
<1> HIDE DEF ab
<1>5. /\ abc \in Seq(Nat) /\ Len(abc) = 2 + n /\ Holds(abc, 0, a) /\ Holds(abc, 1, b)
      /\ Holds(abc, 1 + n, c)
  <2>1. Len(abc) = Len(ab) + Len(c) /\ Holds(abc, Len(ab), c) /\ abc \in Seq(Nat)
    BY <1>3, <1>4, HoldsParts
  <2>2. Len(ab) + Len(c) = 2 + n
    BY <1>3, <1>4
  <2> QED
    BY <1>3, <1>4, <2>1, <2>2, HoldsLonger
<1> HIDE DEF abc
<1>6. /\ abcd \in Seq(Nat) /\ Len(abcd) = 2 + 2 * n /\ Holds(abcd, 0, a) /\ Holds(abcd, 1, b)
      /\ Holds(abcd, 1 + n, c) /\ Holds(abcd, 2 + n, d)
  <2>1. Len(abcd) = Len(abc) + Len(d) /\ Holds(abcd, Len(abc), d) /\ abcd \in Seq(Nat)
    BY <1>3, <1>5, HoldsParts
  <2>2. Len(abc) + Len(d) = 2 + 2 * n /\ 1 + n \in Nat
    BY <1>3, <1>5
  <2> QED
    BY <1>3, <1>5, <2>1, <2>2, HoldsLonger
<1> HIDE DEF abcd
<1>7. /\ abcde \in Seq(Nat) /\ Len(abcde) = 2 + 2 * n + g /\ Holds(abcde, 0, a) /\ Holds(abcde, 1, b)
      /\ Holds(abcde, 1 + n, c) /\ Holds(abcde, 2 + n, d) /\ Holds(abcde, 2 + 2 * n, e)
  <2>1. Len(abcde) = Len(abcd) + Len(e) /\ Holds(abcde, Len(abcd), e) /\ abcde \in Seq(Nat)
    BY <1>3, <1>6, HoldsParts
  <2>2. Len(abcd) + Len(e) = 2 + 2 * n + g /\ 1 + n \in Nat /\ 2 + n \in Nat
    BY <1>3, <1>6
  <2> QED
    BY <1>3, <1>6, <2>1, <2>2, HoldsLonger
<1> HIDE DEF abcde
<1>8. /\ all \in Seq(Nat) /\ Holds(all, 0, a) /\ Holds(all, 1, b)
      /\ Holds(all, 1 + n, c) /\ Holds(all, 2 + n, d) /\ Holds(all, 2 + 2 * n, e)
      /\ Holds(all, 2 + 2 * n + g, f)
  <2>1. Holds(all, Len(abcde), f) /\ all \in Seq(Nat)
    BY <1>3, <1>7, HoldsParts
  <2>2. 1 + n \in Nat /\ 2 + n \in Nat /\ 2 + 2 * n \in Nat
    BY <1>3
  <2> QED
    BY <1>3, <1>7, <2>1, <2>2, HoldsLonger
<1> HIDE DEF all
<1>9. /\ 0 + 1 = 1 /\ 0 + 1 + n = 1 + n /\ 0 + 2 + n = 2 + n /\ 0 + 2 + 2 * n = 2 + 2 * n
      /\ 0 + 2 + 2 * n + g = 2 + 2 * n + g
  BY <1>3
<1>10. HasTables(p, all, 0)
  BY <1>8, <1>9 DEF HasTables, a, b, c, d, e, f, n, g
<1> QED
  BY <1>2, <1>8, <1>10, LenProperties

ExportTable(mod) ==
  <<Len(mod.exports)>>
    \o [e \in 1 .. Len(mod.exports) |-> LaidOut(mod).starts[mod.exports[e]]]

ExportTableSeq(p) == [m \in 1 .. Len(p.modules) |-> ExportTable(p.modules[m])]

\* A module's table of exports counts them and then gives each one's start.
LEMMA ExportTableIs ==
  ASSUME NEW k, GoodModule(k)
  PROVE  /\ ExportTable(k) \in Seq(Nat) /\ Len(k.exports) \in Nat
         /\ Len(ExportTable(k)) = 1 + Len(k.exports)
         /\ ExportTable(k)[1] = Len(k.exports)
         /\ \A e \in 1 .. Len(k.exports) :
              /\ ExportTable(k)[1 + e] = LaidOut(k).starts[k.exports[e]]
              /\ k.exports[e] \in 1 .. Len(k.procs)
              /\ LaidOut(k).starts[k.exports[e]] \in Nat
<1> DEFINE n == Len(k.exports)
           starts == LaidOut(k).starts
           a == <<n>>
           b == [e \in 1 .. n |-> starts[k.exports[e]]]
           ab == a \o b
<1>1. k.exports \in Seq(1 .. Len(k.procs)) /\ n \in Nat
  BY LenProperties DEF GoodModule
<1>2. LaidSoFar(k, Len(k.procs), LaidOut(k))
  BY LaidOutIs
<1>3. starts \in Seq(Nat) /\ Len(starts) = Len(k.procs)
  BY <1>2 DEF LaidSoFar, Laying
<1>4. ASSUME NEW e \in 1 .. n
      PROVE  k.exports[e] \in 1 .. Len(k.procs) /\ starts[k.exports[e]] \in Nat
  <2> DEFINE q == k.exports[e]
  <2>1. q \in 1 .. Len(k.procs)
    BY <1>1, ElementOfSeq
  <2> HIDE DEF q
  <2>2. starts[q] \in Nat
    BY <1>3, <2>1, ElementOfSeq
  <2> QED
    BY <2>1, <2>2 DEF q
<1>5. ExportTable(k) = ab
  BY DEF ExportTable
<1> HIDE DEF n, starts
<1>6. a \in Seq(Nat) /\ Len(a) = 1 /\ a[1] = n
  BY <1>1
<1>7. b \in Seq(Nat) /\ Len(b) = n /\ \A e \in 1 .. n : b[e] = starts[k.exports[e]]
  BY <1>1, <1>4
<1> HIDE DEF a, b
<1>8. /\ ab \in Seq(Nat) /\ Len(ab) = 1 + n
      /\ Holds(ab, 0, a) /\ Holds(ab, 1, b)
  <2>1. /\ ab \in Seq(Nat) /\ Len(ab) = Len(a) + Len(b)
        /\ Holds(ab, 0, a) /\ Holds(ab, Len(a), b)
    BY <1>6, <1>7, HoldsParts
  <2> QED
    BY <1>6, <1>7, <2>1
<1> HIDE DEF ab
<1>9. ab[0 + 1] = a[1] /\ \A e \in 1 .. n : ab[1 + e] = b[e]
  BY <1>6, <1>7, <1>8 DEF Holds
<1>10. ab[1] = n /\ \A e \in 1 .. n : ab[1 + e] = starts[k.exports[e]]
  BY <1>6, <1>7, <1>9
<1> QED
  BY <1>1, <1>4, <1>5, <1>8, <1>10 DEF n, starts

\* The tables of the exports are sequences of numbers.
LEMMA ExportsTyped ==
  ASSUME NEW p, GoodProgram(p)
  PROVE  /\ ExportTableSeq(p) \in Seq(Seq(Nat)) /\ Len(ExportTableSeq(p)) = Len(p.modules)
         /\ ExportTables(p) = FlattenSeq(ExportTableSeq(p))
         /\ ExportTables(p) \in Seq(Nat) /\ Len(ExportTables(p)) \in Nat
<1> DEFINE n == Len(p.modules)
           s == [m \in 1 .. n |-> ExportTable(p.modules[m])]
<1>1. n \in Nat /\ DOMAIN p.modules = 1 .. n
  BY LenProperties DEF GoodProgram
<1>2. ASSUME NEW m \in 1 .. n
      PROVE  /\ ExportTable(p.modules[m]) \in Seq(Nat)
             /\ DOMAIN p.modules[m].exports = 1 .. Len(p.modules[m].exports)
  <2> DEFINE k == p.modules[m]
  <2>1. GoodModule(k)
    BY DEF GoodProgram
  <2> HIDE DEF k
  <2>2. ExportTable(k) \in Seq(Nat)
    BY <2>1, ExportTableIs
  <2>3. DOMAIN k.exports = 1 .. Len(k.exports)
    BY <2>1, LenProperties DEF GoodModule
  <2> QED
    BY <2>2, <2>3 DEF k
<1>3. ExportTables(p) = FlattenSeq(s)
  <2> DEFINE t == [m \in DOMAIN p.modules |->
                     <<Len(p.modules[m].exports)>>
                       \o [e \in DOMAIN p.modules[m].exports |->
                             LaidOut(p.modules[m]).starts[p.modules[m].exports[e]]]]
  <2>1. ExportTables(p) = FlattenSeq(t)
    BY DEF ExportTables
  <2>2. \A m \in 1 .. n : t[m] = s[m]
    BY <1>1, <1>2, Zenon DEF ExportTable
  <2>3. t = s
    <3>1. t = [m \in 1 .. n |-> t[m]] /\ s = [m \in 1 .. n |-> s[m]]
      BY <1>1, Zenon
    <3> HIDE DEF t, s
    <3> QED
      BY <2>2, <3>1
  <2> QED
    BY <2>1, <2>3, Zenon
<1>4. s \in Seq(Seq(Nat)) /\ Len(s) = n
  <2> HIDE DEF n
  <2> QED
    BY <1>1, <1>2
<1> HIDE DEF s
<1>5. FlattenSeq(s) \in Seq(Nat)
  BY <1>4, FlattenType
<1> QED
  BY <1>3, <1>4, <1>5, LenProperties DEF s, n, ExportTableSeq

\* The entry is a procedure, so there is code.
LEMMA CodeIsThere ==
  ASSUME NEW p, GoodProgram(p)
  PROVE  CodeUnits(p) - 1 \in Nat
<1> DEFINE m == p.entry[1]
           k == p.modules[m]
           laid == LaidOut(k).bytes
           routine == k.procs[1]
           e == p.entry[2]
<1>1. m \in 1 .. Len(p.modules) /\ e \in 0 .. 255 /\ e < Len(k.exports)
  BY DEF GoodProgram
<1>2. GoodModule(k) /\ ModuleIn(p, m)
  BY <1>1, ModulesLaid DEF GoodProgram
<1>3. laid \in Bytes /\ Len(laid) \in Nat
  BY <1>1, ModuleBytesAre
<1>4. ModuleStart(p, m) \in Nat /\ ModuleStop(p, m) \in Nat
      /\ ModuleStart(p, m) + Len(laid) <= ModuleStop(p, m) /\ ModuleStop(p, m) <= Len(Code(p))
  BY <1>2 DEF ModuleIn
<1> HIDE DEF m, e, k
<1>5. 1 \in 1 .. Len(k.procs)
  <2>1. k.exports[1] \in 1 .. Len(k.procs) /\ Len(k.procs) \in Nat
    <3>1. k.exports \in Seq(1 .. Len(k.procs)) /\ k.procs \in Seq(ProcedureRecords)
      BY <1>2 DEF GoodModule
    <3>2. Len(k.exports) \in Nat
      BY <3>1, LenProperties
    <3> DEFINE x == Len(k.exports)
    <3>3. x \in Nat /\ e < x /\ e \in 0 .. 255
      BY <1>1, <3>2
    <3> HIDE DEF x
    <3>4. 1 \in 1 .. x
      BY <3>3
    <3> QED
      BY <3>1, <3>4, ElementOfSeq, LenProperties DEF x
  <2> DEFINE x == k.exports[1]
             y == Len(k.procs)
  <2>2. x \in 1 .. y /\ y \in Nat
    BY <2>1
  <2> HIDE DEF x, y
  <2>3. 1 \in 1 .. y
    BY <2>2
  <2> QED
    BY <2>3 DEF y
<1>6. LaidSoFar(k, Len(k.procs), LaidOut(k))
  BY <1>2, LaidOutIs
<1>7. LaidOut(k).starts \in Seq(Nat) /\ Len(LaidOut(k).starts) = Len(k.procs)
      /\ Holds(laid, LaidOut(k).starts[1], ProcHeader(routine))
  BY <1>5, <1>6 DEF LaidSoFar, Laying
<1>8. LaidOut(k).starts[1] \in Nat
  BY <1>5, <1>7, ElementOfSeq
<1>9. Len(ProcHeader(routine)) \in 1 .. 193
  <2>1. routine \in ProcedureRecords /\ Len(routine.inits) <= MaxInitializers
    BY <1>2, <1>5, ElementOfSeq DEF GoodModule
  <2>2. routine.inits \in Seq(Inits)
    BY <2>1 DEF ProcedureRecords
  <2> DEFINE i == Len(routine.inits)
  <2>3. i \in Nat /\ i <= MaxInitializers
    BY <2>1, <2>2, LenProperties
  <2> HIDE DEF i
  <2>4. i <= 64
    BY <2>3, FilesAssumption
  <2> HIDE DEF routine
  <2> QED
    BY <2>1, <2>4, HeaderType DEF i
<1>10. LaidOut(k).starts[1] + Len(ProcHeader(routine)) <= Len(laid)
  BY <1>7 DEF Holds
<1> DEFINE a == LaidOut(k).starts[1]
           b == Len(ProcHeader(routine))
           c == Len(laid)
           o == ModuleStart(p, m)
           stop == ModuleStop(p, m)
           l == Len(Code(p))
<1>11. /\ a \in Nat /\ b \in 1 .. 193 /\ c \in Nat /\ a + b <= c
       /\ o \in Nat /\ stop \in Nat /\ o + c <= stop /\ stop <= l
  BY <1>3, <1>4, <1>8, <1>9, <1>10
<1>12. l \in Nat /\ l = UnitBytes * CodeUnits(p) /\ CodeUnits(p) \in Nat
  BY CodeIs, LenProperties
<1> HIDE DEF a, b, c, o, stop, l
<1>13. l # 0
  BY <1>11, <1>12
<1>14. CodeUnits(p) # 0
  BY <1>12, <1>13, UnitsAre
<1> QED
  BY <1>12, <1>14

\* The words of the header that lpst_image_load reads.
LEMMA HeaderIsSeq ==
  ASSUME NEW p, GoodProgram(p)
  PROVE  /\ Header(p) \in Seq(Nat) /\ Len(Header(p)) = HeaderWords
         /\ Header(p)[8] = CodeUnits(p) - 1 /\ CodeUnits(p) - 1 \in Nat
         /\ Header(p)[9] = 256 * p.entry[1] + p.entry[2]
         /\ Header(p)[12] = Len(p.ram) /\ Header(p)[14] = ExportsPage(p)
         /\ Header(p)[16] = Len(ExportTables(p))
         /\ ExportsPage(p) \in Nat /\ Len(p.ram) \in Nat
<1> DEFINE a == CodeUnits(p) - 1
           b == 256 * p.entry[1] + p.entry[2]
           c == Len(p.ram)
           d == ExportsPage(p)
           e == Len(ExportTables(p))
           x == [i \in 1 .. HeaderWords |->
                   CASE i = 8 -> a [] i = 9 -> b [] i = 12 -> c [] i = 14 -> d [] i = 16 -> e
                     [] OTHER -> 0]
<1>1. a \in Nat
  BY CodeIsThere
<1>2. b \in Nat
  <2> DEFINE u == p.entry[1]
             v == p.entry[2]
             n == Len(p.modules)
  <2>1. n \in Nat /\ u \in 1 .. n /\ v \in 0 .. 255
    BY LenProperties DEF GoodProgram
  <2> HIDE DEF u, v, n
  <2>2. 256 * u + v \in Nat
    BY <2>1
  <2> QED
    BY <2>2 DEF u, v
<1>3. c \in Nat /\ e \in Nat
  BY ExportsTyped, LenProperties DEF GoodProgram
<1>4. d \in Nat
  <2> DEFINE l == 2 * (HeaderWords + Len(Tables(p))) + PageBytes - 1
  <2>1. l \in Nat /\ PageBytes \in Nat \ {0}
    BY TablesLaid, UnitsAre
  <2>2. d = l \div PageBytes
    BY DEF ExportsPage
  <2> HIDE DEF l, d
  <2> QED
    BY <2>1, <2>2
<1>5. Len(Code(p)) \div UnitBytes - 1 = a
  BY CodeIs
<1>6. Header(p) = x
  BY <1>5 DEF Header
<1> HIDE DEF a, b, c, d, e
<1>7. HeaderWords \in 16 .. 48
  BY UnitsAre
<1>8. /\ x \in Seq(Nat) /\ Len(x) = HeaderWords
      /\ x[8] = a /\ x[9] = b /\ x[12] = c /\ x[14] = d /\ x[16] = e
  <2>1. HeaderWords \in Nat /\ 8 \in 1 .. HeaderWords /\ 9 \in 1 .. HeaderWords
        /\ 12 \in 1 .. HeaderWords /\ 14 \in 1 .. HeaderWords /\ 16 \in 1 .. HeaderWords
    BY <1>7
  <2> QED
    BY <1>1, <1>2, <1>3, <1>4, <2>1, SMTT(30)
<1> QED
  BY <1>1, <1>3, <1>4, <1>6, <1>8 DEF a, b, c, d, e

\* Tables held behind other words lie there as they do alone.
LEMMA TablesHeld ==
  ASSUME NEW p, GoodProgram(p), NEW x \in Seq(Nat), NEW o \in Nat, Holds(x, o, Tables(p))
  PROVE  HasTables(p, x, o)
<1> DEFINE n == Len(p.modules)
           a == <<n>>
           b == PagesTable(p)
           g == Len(p.globals)
           c == <<g>>
           d == CountsTable(p)
           e == p.globals
           f == FlattenSeq(GlobalsTables(p))
           t == Tables(p)
<1>1. /\ n \in Nat /\ a \in Seq(Nat) /\ b \in Seq(Nat) /\ c \in Seq(Nat) /\ d \in Seq(Nat)
      /\ e \in Seq(Nat) /\ f \in Seq(Nat) /\ g \in Nat
  BY TablesTyped DEF TableTypes
<1>2. t \in Seq(Nat) /\ HasTables(p, t, 0) /\ Holds(x, o, t)
  BY TablesLaid
<1> HIDE DEF a, b, c, d, e, f, n, g, t
<1>3. /\ Holds(t, 0, a) /\ Holds(t, 0 + 1, b) /\ Holds(t, 0 + 1 + n, c) /\ Holds(t, 0 + 2 + n, d)
      /\ Holds(t, 0 + 2 + 2 * n, e) /\ Holds(t, 0 + 2 + 2 * n + g, f)
  BY <1>2 DEF HasTables, a, b, c, d, e, f, n, g
<1>4. /\ 0 \in Nat /\ 0 + 1 \in Nat /\ 0 + 1 + n \in Nat /\ 0 + 2 + n \in Nat
      /\ 0 + 2 + 2 * n \in Nat /\ 0 + 2 + 2 * n + g \in Nat
  BY <1>1
<1>5. /\ Holds(x, o + 0, a) /\ Holds(x, o + (0 + 1), b) /\ Holds(x, o + (0 + 1 + n), c)
      /\ Holds(x, o + (0 + 2 + n), d) /\ Holds(x, o + (0 + 2 + 2 * n), e)
      /\ Holds(x, o + (0 + 2 + 2 * n + g), f)
  BY <1>1, <1>2, <1>3, <1>4, HoldsDeeper
<1>6. /\ o + 0 = o /\ o + (0 + 1) = o + 1 /\ o + (0 + 1 + n) = o + 1 + n
      /\ o + (0 + 2 + n) = o + 2 + n /\ o + (0 + 2 + 2 * n) = o + 2 + 2 * n
      /\ o + (0 + 2 + 2 * n + g) = o + 2 + 2 * n + g
  BY <1>1
<1>7. /\ Holds(x, o, a) /\ Holds(x, o + 1, b) /\ Holds(x, o + 1 + n, c)
      /\ Holds(x, o + 2 + n, d) /\ Holds(x, o + 2 + 2 * n, e) /\ Holds(x, o + 2 + 2 * n + g, f)
  BY <1>5, <1>6
<1> QED
  BY <1>7 DEF HasTables, a, b, c, d, e, f, n, g

Half == PageBytes \div 2

RamWord(p) == Half * (1 + ExportsPage(p) + (2 * Len(ExportTables(p))) \div PageBytes)

\* Where the parts of the .MME file are, in words
MmeHas(p) ==
  /\ Mme(p) \in Seq(Nat) /\ Len(Mme(p)) = RamWord(p) + Len(p.ram)
  /\ Holds(Mme(p), 0, Header(p)) /\ Holds(Mme(p), HeaderWords, Tables(p))
  /\ Holds(Mme(p), Half * ExportsPage(p), ExportTables(p))
  /\ Holds(Mme(p), RamWord(p), p.ram)
  /\ HeaderWords + Len(Tables(p)) <= Half * ExportsPage(p)
  /\ RamWord(p) \in Nat /\ RamAt(p) = 2 * RamWord(p)

\* A page holds half as many words as bytes.
LEMMA PagesInWords ==
  ASSUME NEW l \in Nat, NEW h \in Nat \ {0}
  PROVE  (2 * l + 2 * h - 1) \div (2 * h) = (l + h - 1) \div h
<1> DEFINE n == l + h - 1
           q == n \div h
           r == n % h
<1>1. n \in Nat
  OBVIOUS
<1> HIDE DEF n
<1>2. n = h * q + r /\ r \in 0 .. h - 1 /\ q \in Int
  BY <1>1, Division
<1> HIDE DEF q, r
<1> DEFINE u == 2 * h
           s == 2 * r + 1
<1>3. u \in Nat \ {0} /\ s \in 0 .. u - 1
  BY <1>2
<1>4. 2 * l + 2 * h - 1 = u * q + s
  <2>1. 2 * l + 2 * h - 1 = 2 * n + 1
    BY DEF n
  <2>2. 2 * (h * q) = (2 * h) * q /\ h * q \in Int
    BY <1>2
  <2> QED
    BY <1>2, <2>1, <2>2
<1> HIDE DEF u, s
<1>5. (u * q + s) \div u = q
  BY <1>2, <1>3, QuotientIs
<1> QED
  BY <1>4, <1>5 DEF u, q, n

\* The .MME holds header, tables, exports and RAM where its header says.
LEMMA MmeLaid ==
  ASSUME NEW p, GoodProgram(p)
  PROVE  MmeHas(p)
<1> DEFINE x == Header(p)
           t == Tables(p)
           xt == x \o t
           page == PaddedTo(xt, Half)
           e == ExportTables(p)
           upto == page \o e
           k == RamAt(p) \div 2 - Len(upto)
           gap == Zeros(k)
           ug == upto \o gap
           ram == p.ram
           all == ug \o ram
           E == ExportsPage(p)
           H == HeaderWords
           l == Len(t)
           c == Len(e)
           L == H + l
<1>1. Mme(p) = all
  BY DEF Mme, Half
<1>2. /\ x \in Seq(Nat) /\ Len(x) = H /\ t \in Seq(Nat) /\ l \in Nat /\ E \in Nat
      /\ e \in Seq(Nat) /\ c \in Nat /\ ram \in Seq(Nat) /\ Len(ram) \in Nat
  BY HeaderIsSeq, TablesLaid, ExportsTyped DEF GoodProgram
<1>3. PICK h \in Nat \ {0} : PageBytes = 2 * h /\ Half = h
  BY UnitsAre DEF Half
<1>a. H \in Nat
  BY UnitsAre
<1>b. E = (L + h - 1) \div h
  <2>1. E = (2 * L + PageBytes - 1) \div PageBytes
    BY DEF ExportsPage
  <2> HIDE DEF L
  <2>2. L \in Nat
    BY <1>2, <1>a DEF L
  <2>3. E = (2 * L + 2 * h - 1) \div (2 * h)
    BY <1>3, <2>1
  <2> QED
    BY <1>3, <2>2, <2>3, PagesInWords
<1>c. RamAt(p) = PageBytes * (1 + E + (2 * c) \div PageBytes)
      /\ RamWord(p) = Half * (1 + E + (2 * c) \div PageBytes)
  BY DEF RamAt, RamWord
<1> HIDE DEF x, t, e, ram, E, H, l, c
<1>4. /\ xt \in Seq(Nat) /\ Len(xt) = L /\ Holds(xt, 0, x) /\ Holds(xt, H, t)
  <2>1. /\ xt \in Seq(Nat) /\ Len(xt) = Len(x) + Len(t)
        /\ Holds(xt, 0, x) /\ Holds(xt, Len(x), t)
    BY <1>2, HoldsParts
  <2> QED
    BY <1>2, <2>1 DEF l
<1> HIDE DEF xt
<1>5. /\ page \in Seq(Nat) /\ Holds(page, 0, xt) /\ Len(page) = h * E
  <2>1. Len(page) = h * ((Len(xt) + h - 1) \div h) /\ page \in Seq(Nat) /\ Holds(page, 0, xt)
    BY <1>3, <1>4, Padded
  <2> QED
    BY <1>4, <1>b, <2>1
<1> HIDE DEF page
<1>6. Holds(page, 0, x) /\ Holds(page, H, t) /\ L <= h * E
  <2>1. Holds(page, 0 + 0, x) /\ Holds(page, 0 + H, t) /\ 0 + 0 = 0 /\ 0 + H = H
    BY <1>2, <1>4, <1>5, <1>a, HoldsDeeper
  <2>2. 0 + Len(xt) <= Len(page)
    BY <1>5 DEF Holds
  <2>3. L \in Nat /\ h * E \in Nat
    BY <1>2, <1>3, <1>a
  <2> HIDE DEF L
  <2>4. L <= h * E
    BY <1>4, <1>5, <2>2, <2>3
  <2> QED
    BY <2>1, <2>4
<1>7. /\ upto \in Seq(Nat) /\ Len(upto) = h * E + c
      /\ Holds(upto, 0, x) /\ Holds(upto, H, t) /\ Holds(upto, h * E, e)
  <2>1. /\ upto \in Seq(Nat) /\ Len(upto) = Len(page) + Len(e)
        /\ Holds(upto, Len(page), e)
    BY <1>2, <1>5, HoldsParts
  <2>2. Holds(upto, 0, x) /\ Holds(upto, H, t)
    BY <1>2, <1>5, <1>6, <1>a, HoldsLonger
  <2> QED
    BY <1>5, <2>1, <2>2 DEF c
<1> HIDE DEF upto
<1> DEFINE q == (2 * c) \div PageBytes
           R == h * (1 + E + q)
<1>8. q \in Nat /\ R \in Nat /\ RamWord(p) = R /\ RamAt(p) = 2 * R /\ RamAt(p) \div 2 = R
      /\ h * E + c <= R
  <2> DEFINE y == 2 * c
             r == y % PageBytes
  <2>1. y \in Nat /\ PageBytes \in Nat \ {0}
    BY <1>2, UnitsAre
  <2>2. y = PageBytes * q + r /\ r \in 0 .. PageBytes - 1 /\ q \in Nat
    <3> HIDE DEF y
    <3>1. y = PageBytes * (y \div PageBytes) + r /\ r \in 0 .. PageBytes - 1
      BY <2>1, Division
    <3>2. y \div PageBytes \in Nat
      BY <2>1
    <3> QED
      BY <3>1, <3>2 DEF y
  <2> HIDE DEF q, r
  <2>3. RamWord(p) = R /\ RamAt(p) = (2 * h) * (1 + E + q)
    BY <1>3, <1>c DEF q
  <2> DEFINE z == 1 + E + q
  <2>4. z \in Nat
    BY <1>2, <2>2
  <2>5. (2 * h) * z = 2 * (h * z) /\ h * z \in Nat
    BY <1>3, <2>4
  <2>6. h * z = h + h * E + h * q /\ h * E \in Nat /\ h * q \in Nat
    BY <1>2, <1>3, <2>2
  <2>7. 2 * c < 2 * (h * q) + 2 * h
    <3>1. (2 * h) * q = 2 * (h * q)
      BY <1>3, <2>2
    <3> QED
      BY <1>2, <1>3, <2>2, <2>6, <3>1
  <2>8. h * E + c <= h * z
    BY <1>2, <1>3, <2>6, <2>7
  <2>9. (2 * (h * z)) \div 2 = h * z
    BY <2>5
  <2> QED
    BY <2>2, <2>3, <2>5, <2>8, <2>9
<1> HIDE DEF q, R
<1>9. k \in Nat /\ k = R - (h * E + c)
  <2>1. k = R - (h * E + c)
    BY <1>7, <1>8
  <2>2. h * E \in Nat
    BY <1>2, <1>3
  <2> QED
    BY <1>2, <1>8, <2>1, <2>2
<1> HIDE DEF k
<1>10. gap \in Seq(Nat) /\ Len(gap) = k
  BY <1>9, ZerosAre
<1> HIDE DEF gap
<1>11. /\ ug \in Seq(Nat) /\ Len(ug) = R /\ Holds(ug, 0, x) /\ Holds(ug, H, t)
       /\ Holds(ug, h * E, e)
  <2>1. h * E \in Nat
    BY <1>2, <1>3
  <2>2. /\ ug \in Seq(Nat) /\ Len(ug) = Len(upto) + Len(gap) /\ Holds(ug, 0, x) /\ Holds(ug, H, t)
        /\ Holds(ug, h * E, e)
    BY <1>2, <1>7, <1>10, <1>a, <2>1, HoldsLonger
  <2>3. (h * E + c) + k = R
    BY <1>2, <1>8, <1>9, <2>1
  <2> QED
    BY <1>7, <1>10, <2>2, <2>3
<1> HIDE DEF ug
<1>12. /\ all \in Seq(Nat) /\ Len(all) = R + Len(ram) /\ Holds(all, 0, x) /\ Holds(all, H, t)
       /\ Holds(all, h * E, e) /\ Holds(all, R, ram)
  <2>1. h * E \in Nat
    BY <1>2, <1>3
  <2>2. /\ all \in Seq(Nat) /\ Len(all) = Len(ug) + Len(ram) /\ Holds(all, 0, x) /\ Holds(all, H, t)
        /\ Holds(all, h * E, e)
    BY <1>2, <1>11, <1>a, <2>1, HoldsLonger
  <2>3. Holds(all, Len(ug), ram)
    BY <1>2, <1>11, HoldsParts
  <2> QED
    BY <1>11, <2>2, <2>3
<1> HIDE DEF all
<1>13. /\ Mme(p) \in Seq(Nat) /\ Len(Mme(p)) = RamWord(p) + Len(ram)
       /\ Holds(Mme(p), 0, x) /\ Holds(Mme(p), H, t) /\ Holds(Mme(p), Half * E, e)
       /\ Holds(Mme(p), RamWord(p), ram) /\ H + l <= Half * E
       /\ RamWord(p) \in Nat /\ RamAt(p) = 2 * RamWord(p)
  BY <1>1, <1>3, <1>6, <1>8, <1>12
<1> QED
  BY <1>13 DEF MmeHas, x, t, e, ram, E, H, l

\* The files found are those of the program, or so much of each.
FilesOf(p) ==
  /\ case.mme \in Seq(Nat) /\ case.obj \in Seq(Nat)
  /\ IsPrefix(case.mme, Mme(p)) /\ IsPrefix(case.obj, Obj(p))

\* A word of the .MME is read as it was written.
LEMMA WordRead ==
  ASSUME NEW o \in Nat, NEW y, Holds(case.mme, o, y), NEW k \in 1 .. Len(y)
  PROVE  WordAt(2 * (o + (k - 1))) = y[k]
<1> DEFINE n == Len(y)
<1>1. case.mme[o + k] = y[k]
  BY DEF Holds
<1>2. (2 * (o + (k - 1))) \div 2 + 1 = o + k
  <2>1. k \in Nat \ {0}
    OBVIOUS
  <2> QED
    BY <2>1
<1> QED
  BY <1>1, <1>2 DEF WordAt

\* A table of the .MME is read as it was written.
LEMMA WordsRead ==
  ASSUME NEW o \in Nat, NEW y \in Seq(Nat), case.mme \in Seq(Nat), Holds(case.mme, o, y)
  PROVE  WordsAt(2 * o, Len(y)) = y
<1> DEFINE x == case.mme
           n == Len(y)
<1>1. SubSeq(x, o + 1, o + n) = y
  BY HoldsSubSeq
<1>2. (2 * o) \div 2 = o
  OBVIOUS
<1> QED
  BY <1>1, <1>2 DEF WordsAt

\* What the header says
HeaderSays(p) ==
  /\ CodeEnd = Len(Code(p))
  /\ EntryModule = p.entry[1] /\ EntryProcedure = p.entry[2]
  /\ HeaderWord(11) = Len(p.ram)
  /\ ExportsAt = 2 * (Half * ExportsPage(p))
  /\ ExportsEnd = ExportsAt + 2 * Len(ExportTables(p))
  /\ Half * ExportsPage(p) \in Nat

\* The header of a file that has it says what Chisel wrote.
LEMMA HeaderReadable ==
  ASSUME NEW p, GoodProgram(p), FilesOf(p), HeaderWords <= Len(case.mme)
  PROVE  HeaderSays(p)
<1> DEFINE x == case.mme
           h == Header(p)
           H == HeaderWords
           n == Len(x)
           E == ExportsPage(p)
           c == Len(ExportTables(p))
<1>2. x \in Seq(Nat) /\ n \in Nat /\ H \in 16 .. 48 /\ MmeSize = 2 * n
  BY UnitsAre, LenProperties DEF FilesOf, MmeSize
<1>3. H <= n
  OBVIOUS
<1>4. h \in Seq(Nat) /\ Len(h) = H
  BY HeaderIsSeq
<1>5. Holds(x, 0, h)
  <2> DEFINE y == Mme(p)
  <2>1. y \in Seq(Nat) /\ Holds(y, 0, h) /\ IsPrefix(x, y)
    BY MmeLaid DEF MmeHas, FilesOf
  <2>2. 0 + Len(h) <= Len(x)
    BY <1>2, <1>3, <1>4
  <2> HIDE DEF x, y, h
  <2> QED
    BY <1>2, <1>4, <2>1, <2>2, HoldsInPrefix
<1>6. ASSUME NEW i \in 1 .. 16 PROVE HeaderWord(i - 1) = h[i]
  <2>1. i \in 1 .. Len(h)
    BY <1>2, <1>4
  <2>2. WordAt(2 * (0 + (i - 1))) = h[i]
    BY <1>5, <2>1, WordRead
  <2>3. 2 * (0 + (i - 1)) = 2 * (i - 1)
    OBVIOUS
  <2> QED
    BY <2>2, <2>3 DEF HeaderWord
<1>7. /\ HeaderWord(7) = h[8] /\ HeaderWord(8) = h[9] /\ HeaderWord(11) = h[12]
      /\ HeaderWord(13) = h[14] /\ HeaderWord(15) = h[16]
  <2>1. /\ HeaderWord(8 - 1) = h[8] /\ HeaderWord(9 - 1) = h[9] /\ HeaderWord(12 - 1) = h[12]
        /\ HeaderWord(14 - 1) = h[14] /\ HeaderWord(16 - 1) = h[16]
    BY <1>6
  <2>2. 8 - 1 = 7 /\ 9 - 1 = 8 /\ 12 - 1 = 11 /\ 14 - 1 = 13 /\ 16 - 1 = 15
    OBVIOUS
  <2> QED
    BY <2>1, <2>2
<1>8. /\ HeaderWord(7) = CodeUnits(p) - 1 /\ HeaderWord(8) = 256 * p.entry[1] + p.entry[2]
      /\ HeaderWord(11) = Len(p.ram) /\ HeaderWord(13) = E /\ HeaderWord(15) = c
      /\ E \in Nat /\ c \in Nat
  BY <1>7, HeaderIsSeq, ExportsTyped, ZenonT(60)
<1>9. CodeEnd = Len(Code(p))
  <2> DEFINE u == CodeUnits(p)
  <2>1. u \in Nat /\ Len(Code(p)) = UnitBytes * u /\ UnitBytes \in Nat
    BY CodeIs, UnitsAre
  <2>2. CodeEnd = (u - 1 + 1) * UnitBytes
    BY <1>8 DEF CodeEnd
  <2> HIDE DEF u
  <2>3. (u - 1 + 1) * UnitBytes = UnitBytes * u
    BY <2>1
  <2> QED
    BY <2>1, <2>2, <2>3
<1>10. EntryModule = p.entry[1] /\ EntryProcedure = p.entry[2]
  <2> DEFINE u == p.entry[1]
             v == p.entry[2]
             k == Len(p.modules)
  <2>1. k \in Nat /\ u \in 1 .. k /\ v \in 0 .. 255
    BY LenProperties DEF GoodProgram
  <2>2. EntryModule = (256 * u + v) \div 256 /\ EntryProcedure = (256 * u + v) % 256
    BY <1>8 DEF EntryModule, EntryProcedure
  <2> HIDE DEF u, v, k
  <2>3. (256 * u + v) \div 256 = u /\ (256 * u + v) % 256 = v
    BY <2>1
  <2> QED
    BY <2>2, <2>3 DEF u, v
<1>11. ExportsAt = 2 * (Half * E) /\ Half * E \in Nat
  <2>1. PICK i \in Nat \ {0} : PageBytes = 2 * i /\ Half = i
    BY UnitsAre DEF Half
  <2>2. ExportsAt = E * PageBytes
    BY <1>8 DEF ExportsAt
  <2> HIDE DEF E
  <2>3. E * (2 * i) = 2 * (i * E) /\ i * E \in Nat
    BY <1>8, <2>1
  <2> QED
    BY <2>1, <2>2, <2>3
<1>12. ExportsEnd = ExportsAt + 2 * c
  BY <1>8 DEF ExportsEnd
<1> QED
  BY <1>8, <1>9, <1>10, <1>11, <1>12 DEF HeaderSays

\* The header of an accepted file, and how much of the file there is
LEMMA HeaderRight ==
  ASSUME NEW p, GoodProgram(p), FilesOf(p), HeaderError = "none"
  PROVE  HeaderSays(p) /\ CodeEnd <= ObjSize /\ ExportsEnd <= MmeSize
<1> DEFINE H == HeaderWords
           n == Len(case.mme)
           c == Len(ExportTables(p))
           B == Half * ExportsPage(p)
<1>1. ~ (MmeSize < 2 * H) /\ ~ (CodeEnd > ObjSize) /\ ~ (ExportsEnd > MmeSize)
  BY DEF HeaderError
<1>2. n \in Nat /\ H \in 16 .. 48 /\ MmeSize = 2 * n
  BY UnitsAre, LenProperties DEF FilesOf, MmeSize
<1> HIDE DEF n, H
<1>3. H <= n
  BY <1>1, <1>2
<1>4. HeaderSays(p)
  BY <1>3, HeaderReadable DEF n, H
<1>5. ObjSize \in Nat /\ CodeEnd \in Nat
  BY <1>4, CodeIs, LenProperties DEF ObjSize, FilesOf, HeaderSays
<1>6. ExportsEnd = 2 * B + 2 * c /\ B \in Nat /\ c \in Nat
  BY <1>4, ExportsTyped DEF HeaderSays
<1> HIDE DEF B, c
<1>7. ExportsEnd \in Nat /\ MmeSize \in Nat
  BY <1>2, <1>6
<1> QED
  BY <1>1, <1>4, <1>5, <1>7

\* No check of the header rejects a whole pair of files.
LEMMA WholeHeader ==
  ASSUME NEW p, GoodProgram(p), FilesOf(p), case.mme = Mme(p), case.obj = Obj(p)
  PROVE  HeaderError = "none"
<1> DEFINE H == HeaderWords
           y == Mme(p)
           n == Len(y)
           c == Len(ExportTables(p))
           l == Len(Tables(p))
           B == Half * ExportsPage(p)
           k == Len(Code(p))
<1>1. /\ y \in Seq(Nat) /\ B + c <= n /\ H + l <= B
  BY MmeLaid DEF MmeHas, Holds
<1>2. n \in Nat /\ c \in Nat /\ l \in Nat /\ H \in Nat /\ k \in Nat
  BY <1>1, ExportsTyped, TablesLaid, UnitsAre, CodeIs, LenProperties
<1>3. H <= n /\ (B \in Nat => B + c <= n /\ ~ (n < H))
  <2> HIDE DEF n, c, l, B, k, H
  <2>1. c + l >= 0 /\ B \in Int
    <3>1. B \in Nat
      <4>1. ExportsPage(p) \in Nat /\ PageBytes \div 2 \in Nat
        BY HeaderIsSeq, UnitsAre
      <4> QED
        BY <4>1 DEF B, Half
    <3> QED
      BY <1>2, <3>1
  <2> QED
    BY <1>1, <1>2, <2>1
<1>4. HeaderSays(p)
  BY <1>3, HeaderReadable
<1>5. B \in Nat /\ CodeEnd = k /\ ExportsEnd = 2 * B + 2 * c /\ MmeSize = 2 * n
  BY <1>4 DEF HeaderSays, MmeSize
<1>6. k <= ObjSize /\ ObjSize \in Nat
  <2> DEFINE code == Code(p)
             z == Zeros(p.data)
  <2>1. code \in Seq(Nat) /\ z \in Seq(Nat) /\ ObjSize = Len(code \o z)
    BY CodeIs, ZerosAre DEF Obj, ObjSize, GoodProgram
  <2> HIDE DEF code, z
  <2> DEFINE a == Len(z)
             b == Len(code)
  <2>2. Len(code \o z) = b + a /\ a \in Nat /\ b \in Nat
    BY <2>1, HoldsParts, LenProperties
  <2>3. b = k
    BY DEF code
  <2> HIDE DEF a, b, k
  <2> QED
    BY <2>1, <2>2, <2>3
<1> HIDE DEF n, c, l, B, k, H
<1>7. ~ (2 * n < 2 * H) /\ ~ (k > ObjSize) /\ ~ (2 * B + 2 * c > 2 * n)
  BY <1>2, <1>3, <1>5, <1>6
<1> QED
  BY <1>5, <1>7 DEF HeaderError, H

\* What the files hold of the program
FilesHave(p) ==
  /\ HasTables(p, case.mme, HeaderWords)
  /\ Holds(case.mme, Half * ExportsPage(p), ExportTables(p))
  /\ Holds(case.obj, 0, Code(p))

\* Files that pass the checks of the header have the tables and the code.
LEMMA FilesRight ==
  ASSUME NEW p, GoodProgram(p), FilesOf(p), HeaderError = "none"
  PROVE  FilesHave(p)
<1> DEFINE x == case.mme
           y == Mme(p)
           e == ExportTables(p)
           t == Tables(p)
           B == Half * ExportsPage(p)
           n == Len(x)
           c == Len(e)
           l == Len(t)
           H == HeaderWords
<1>1. HeaderSays(p) /\ CodeEnd <= ObjSize /\ ExportsEnd <= MmeSize
  BY HeaderRight
<1>2. x \in Seq(Nat) /\ n \in Nat /\ MmeSize = 2 * n /\ e \in Seq(Nat) /\ c \in Nat
      /\ t \in Seq(Nat) /\ l \in Nat /\ H \in Nat
  BY ExportsTyped, TablesLaid, UnitsAre, LenProperties DEF FilesOf, MmeSize
<1>3. /\ y \in Seq(Nat) /\ IsPrefix(x, y) /\ Holds(y, H, t) /\ Holds(y, B, e)
      /\ H + l <= B
  BY MmeLaid DEF MmeHas, FilesOf
<1>4. B \in Nat /\ 2 * B + 2 * c <= MmeSize
  BY <1>1 DEF HeaderSays
<1> HIDE DEF B, n, c, l, H
<1>5. B + c <= n /\ H + l <= n
  BY <1>2, <1>3, <1>4
<1> HIDE DEF x, y, e, t
<1>6. Holds(x, B, e) /\ Holds(x, H, t)
  BY <1>2, <1>3, <1>4, <1>5, HoldsInPrefix DEF n, c, l
<1>7. HasTables(p, x, H)
  BY <1>2, <1>6, TablesHeld DEF t
<1>8. Holds(case.obj, 0, Code(p))
  <2> DEFINE a == case.obj
             b == Obj(p)
             code == Code(p)
  <2>1. a \in Seq(Nat) /\ IsPrefix(a, b) /\ code \in Seq(Nat) /\ p.data \in Nat
    BY CodeIs DEF FilesOf, GoodProgram
  <2>2. Zeros(p.data) \in Seq(Nat)
    BY <2>1, ZerosAre
  <2>3. b = code \o Zeros(p.data)
    BY DEF Obj
  <2>4. Len(code) \in Nat /\ Len(code) <= Len(a)
    BY <1>1, <2>1, LenProperties DEF HeaderSays, ObjSize
  <2> HIDE DEF a, b, code
  <2>5. b \in Seq(Nat) /\ Holds(b, 0, code)
    BY <2>1, <2>2, <2>3, HoldsParts
  <2>6. 0 + Len(code) <= Len(a)
    BY <2>4
  <2> QED
    BY <2>1, <2>5, <2>6, HoldsInPrefix DEF a, code
<1> QED
  BY <1>6, <1>7, <1>8 DEF FilesHave, x, e, B, H

\* The module's tables are read where Chisel put them.
TablesSay(p) ==
  /\ Count = Len(p.modules)
  /\ ProgramGlobalCount = Len(p.globals)
  /\ WordsAt(ProgramGlobalsAt, ProgramGlobalCount) = p.globals
  /\ \A m \in 1 .. Len(p.modules) :
       /\ ModuleGlobalCount(m) = Len(p.modules[m].globals)
       /\ ModuleAt(m) = ModuleStart(p, m) /\ ModuleEnd(m) = ModuleStop(p, m)

GlobalsWord(p) == HeaderWords + 2 + 2 * Len(p.modules) + Len(p.globals)

\* In accepted files lpst_image_load finds the tables where Chisel put them.
LEMMA TablesRight ==
  ASSUME NEW p, GoodProgram(p), FilesOf(p), HeaderError = "none"
  PROVE  /\ TablesSay(p) /\ ProgramGlobalsAt + 2 * ProgramGlobalCount = 2 * GlobalsWord(p)
         /\ GlobalsWord(p) \in Nat
<1> DEFINE n == Len(p.modules)
           g == Len(p.globals)
           a == <<n>>
           b == PagesTable(p)
           c == <<g>>
           d == CountsTable(p)
           e == p.globals
           H == HeaderWords
           x == case.mme
<1>1. /\ n \in Nat /\ a \in Seq(Nat) /\ b \in Seq(Nat) /\ c \in Seq(Nat) /\ d \in Seq(Nat)
      /\ e \in Seq(Nat) /\ g \in Nat /\ Len(b) = n /\ Len(d) = n
  BY TablesTyped DEF TableTypes
<1>2. Len(a) = 1 /\ a[1] = n /\ Len(c) = 1 /\ c[1] = g
  OBVIOUS
<1>3. /\ \A m \in 1 .. n : b[m] = ModulePage(p, m) /\ d[m] = Len(p.modules[m].globals)
  BY DEF PagesTable, CountsTable
<1>4. /\ Holds(x, H, a) /\ Holds(x, H + 1, b) /\ Holds(x, H + 1 + n, c)
      /\ Holds(x, H + 2 + n, d) /\ Holds(x, H + 2 + 2 * n, e)
  BY FilesRight DEF FilesHave, HasTables
<1>5. H \in Nat /\ n <= MaxModules /\ MaxModules \in Nat
  BY UnitsAre, ProgramsAssumption DEF GoodProgram
<1> HIDE DEF n, g, a, b, c, d, e, H
<1>6. Count = n
  <2>1. 1 \in 1 .. Len(a) /\ 2 * (H + (1 - 1)) = 2 * H
    BY <1>2, <1>5
  <2>2. WordAt(2 * (H + (1 - 1))) = a[1]
    BY <1>4, <1>5, <2>1, WordRead DEF x
  <2>3. WordAt(2 * H) = n
    BY <1>2, <2>1, <2>2
  <2>4. ~ (n > MaxModules)
    BY <1>1, <1>5
  <2> QED
    BY <2>3, <2>4 DEF Count, H
<1>7. PagesAt = 2 * (H + 1)
  <2>1. PagesAt = 2 * H + 2
    BY DEF PagesAt, H
  <2> QED
    BY <1>5, <2>1
<1>8. ProgramGlobalCount = g
  <2>1. 1 \in 1 .. Len(c) /\ H + 1 + n \in Nat
        /\ 2 * (H + 1) + 2 * n = 2 * ((H + 1 + n) + (1 - 1))
    BY <1>1, <1>2, <1>5
  <2>2. WordAt(2 * ((H + 1 + n) + (1 - 1))) = c[1]
    BY <1>4, <2>1, WordRead DEF x
  <2>3. ProgramGlobalCount = WordAt(2 * (H + 1) + 2 * n)
    BY <1>6, <1>7 DEF ProgramGlobalCount
  <2> QED
    BY <1>2, <2>1, <2>2, <2>3
<1>9. ProgramGlobalsAt = 2 * (H + 2 + 2 * n) /\ H + 2 + 2 * n \in Nat
  <2>1. ProgramGlobalsAt = 2 * (H + 1) + 2 * n + 2 + 2 * n
    BY <1>6, <1>7 DEF ProgramGlobalsAt
  <2> QED
    BY <1>1, <1>5, <2>1
<1>10. WordsAt(ProgramGlobalsAt, ProgramGlobalCount) = p.globals
  <2>1. WordsAt(2 * (H + 2 + 2 * n), Len(e)) = e
    <3>1. case.mme \in Seq(Nat) /\ Holds(case.mme, H + 2 + 2 * n, e)
      BY <1>4 DEF FilesOf, x
    <3> DEFINE o == H + 2 + 2 * n
    <3>2. o \in Nat /\ Holds(case.mme, o, e)
      BY <1>9, <3>1
    <3> HIDE DEF o
    <3>3. WordsAt(2 * o, Len(e)) = e
      BY <1>1, <3>1, <3>2, WordsRead
    <3> QED
      BY <3>3 DEF o
  <2> QED
    BY <1>8, <1>9, <2>1 DEF e, g
<1>11. ASSUME NEW m \in 1 .. n
       PROVE  ModuleGlobalCount(m) = Len(p.modules[m].globals) /\ ModuleAt(m) = ModuleStart(p, m)
  <2>1. m \in 1 .. Len(b) /\ m \in 1 .. Len(d)
    BY <1>1
  <2> DEFINE o1 == H + 1
             o2 == H + 2 + n
  <2>2. o1 \in Nat /\ o2 \in Nat /\ Holds(case.mme, o1, b) /\ Holds(case.mme, o2, d)
    BY <1>1, <1>4, <1>5 DEF x
  <2>3. 2 * (H + 1) + 2 * (m - 1) = 2 * (o1 + (m - 1))
        /\ 2 * (H + 1) + 2 * n + 2 * m = 2 * (o2 + (m - 1))
    BY <1>1, <1>5
  <2> HIDE DEF o1, o2
  <2>4. WordAt(2 * (o1 + (m - 1))) = b[m] /\ WordAt(2 * (o2 + (m - 1))) = d[m]
    BY <2>1, <2>2, WordRead
  <2>5. ModuleGlobalCount(m) = WordAt(2 * (H + 1) + 2 * n + 2 * m)
    BY <1>6, <1>7 DEF ModuleGlobalCount
  <2>6. ModuleAt(m) = WordAt(2 * (H + 1) + 2 * (m - 1)) * PageBytes
    BY <1>7 DEF ModuleAt
  <2>7. ModuleAt(m) = ModulePage(p, m) * PageBytes
    BY <1>3, <2>3, <2>4, <2>6
  <2>8. ModulePage(p, m) * PageBytes = PageBytes * ModulePage(p, m)
    <3>1. b[m] \in Nat
      BY <1>1, <2>1, ElementOfSeq
    <3>2. ModulePage(p, m) \in Nat /\ PageBytes \in Nat
      BY <1>3, <3>1, UnitsAre
    <3> QED
      BY <3>2
  <2> QED
    BY <1>3, <2>3, <2>4, <2>5, <2>7, <2>8 DEF ModuleStart
<1>12. ASSUME NEW m \in 1 .. n PROVE ModuleEnd(m) = ModuleStop(p, m)
  <2>1. CodeEnd = Len(Code(p))
    BY HeaderRight DEF HeaderSays
  <2>2. ModuleEnd(m) = IF m = n THEN CodeEnd ELSE ModuleAt(m + 1)
    BY <1>6 DEF ModuleEnd
  <2>3. ModuleStop(p, m) = IF m = n THEN Len(Code(p)) ELSE ModuleStart(p, m + 1)
    BY DEF ModuleStop, ModuleStart, n
  <2>4. CASE m # n
    <3>1. m + 1 \in 1 .. n
      BY <1>1, <2>4
    <3> QED
      BY <1>11, <2>2, <2>3, <2>4, <3>1
  <2> QED
    BY <2>1, <2>2, <2>3, <2>4
<1>13. TablesSay(p)
  BY <1>6, <1>8, <1>10, <1>11, <1>12 DEF TablesSay, n, g
<1>14. ProgramGlobalsAt + 2 * ProgramGlobalCount = 2 * GlobalsWord(p) /\ GlobalsWord(p) \in Nat
  <2>1. GlobalsWord(p) = H + 2 + 2 * n + g
    BY DEF GlobalsWord, H, n, g
  <2>2. 2 * (H + 2 + 2 * n) + 2 * g = 2 * (H + 2 + 2 * n + g) /\ H + 2 + 2 * n + g \in Nat
    BY <1>1, <1>5
  <2> QED
    BY <1>8, <1>9, <2>1, <2>2
<1> QED
  BY <1>13, <1>14

----------------------------------------------------------------------------
(* The globals of the modules, one table behind the other *)

GlobalsSay(p) ==
  \A m \in 1 .. Len(p.modules) :
    WordsAt(ModuleGlobalsAt(m), ModuleGlobalCount(m)) = p.modules[m].globals

\* In accepted files it reads every module's globals as they were written.
LEMMA GlobalsRight ==
  ASSUME NEW p, GoodProgram(p), FilesOf(p), HeaderError = "none"
  PROVE  GlobalsSay(p)
<1> DEFINE n == Len(p.modules)
           s == GlobalsTables(p)
           B == GlobalsWord(p)
           x == case.mme
<1>1. /\ n \in Nat /\ s \in Seq(Seq(Nat)) /\ Len(s) = n /\ x \in Seq(Nat)
      /\ FlattenSeq(s) \in Seq(Nat)
  BY TablesTyped DEF TableTypes, FilesOf
<1>2. \A m \in 1 .. n : s[m] = p.modules[m].globals
  BY DEF GlobalsTables
<1>3. /\ B \in Nat /\ ProgramGlobalsAt + 2 * ProgramGlobalCount = 2 * B
      /\ \A m \in 1 .. n : ModuleGlobalCount(m) = Len(s[m])
  BY <1>2, TablesRight DEF TablesSay
<1>4. Holds(x, B, FlattenSeq(s))
  BY FilesRight DEF FilesHave, HasTables, GlobalsWord
<1>5. PICK f : Joins(f, s, Nat)
  BY <1>1, JoinsExist
<1>6. Len(f[0]) = 0
  BY <1>5 DEF Joins
<1> HIDE DEF n, s, B, x
<1>7. \A k \in 1 .. n : /\ Holds(FlattenSeq(s), Len(f[k - 1]), s[k])
                        /\ Len(f[k - 1]) \in Nat /\ Len(f[k]) = Len(f[k - 1]) + Len(s[k])
                        /\ Len(s[k]) \in Nat /\ s[k] \in Seq(Nat)
  <2>1. ASSUME NEW k \in 1 .. n PROVE s[k] \in Seq(Nat) /\ Len(s[k]) \in Nat
    BY <1>1, ElementOfSeq, LenProperties
  <2> QED
    BY <1>1, <1>5, <2>1, FlattenHolds, ZenonT(60)
<1>8. ASSUME NEW m \in 1 .. n PROVE ModuleGlobalsAt(m) = 2 * (B + Len(f[m - 1]))
  <2> DEFINE step(h) == [k \in 1 .. m |->
                           IF k = 1 THEN ProgramGlobalsAt + 2 * ProgramGlobalCount
                                    ELSE h[k - 1] + 2 * ModuleGlobalCount(k - 1)]
             start == CHOOSE h : h = step(h)
             w == [k \in 1 .. m |-> 2 * (B + Len(f[k - 1]))]
  <2>1. ModuleGlobalsAt(m) = start[m]
    BY DEF ModuleGlobalsAt
  <2>2. ASSUME NEW k \in 1 .. m
        PROVE  w[k] = IF k = 1 THEN 2 * B ELSE w[k - 1] + 2 * ModuleGlobalCount(k - 1)
    <3>1. CASE k = 1
      <4>1. w[k] = 2 * (B + 0)
        BY <1>6, <3>1
      <4> QED
        BY <1>3, <3>1, <4>1
    <3>2. CASE k # 1
      <4>1. k - 1 \in 1 .. n /\ k - 1 \in 1 .. m
        BY <1>1, <3>2
      <4> DEFINE i == k - 1
                 u == Len(f[i - 1])
                 v == Len(f[i])
                 l == Len(s[i])
      <4>2. u \in Nat /\ l \in Nat /\ v = u + l /\ ModuleGlobalCount(i) = l
        BY <1>3, <1>7, <4>1
      <4>3. w[k] = 2 * (B + v) /\ w[i] = 2 * (B + u)
        BY <4>1
      <4> HIDE DEF i, u, v, l, w
      <4>4. w[k] = w[i] + 2 * ModuleGlobalCount(i)
        BY <1>3, <4>2, <4>3
      <4> QED
        BY <3>2, <4>4 DEF i
    <3> QED
      BY <3>1, <3>2
  <2>3. w = step(w)
    <3>1. w = [k \in 1 .. m |-> w[k]]
      OBVIOUS
    <3> HIDE DEF w
    <3> QED
      BY <1>3, <2>2, <3>1
  <2>4. start = step(start)
    BY <2>3
  <2> HIDE DEF start, w
  <2>5. \A k \in 1 .. m : start[k] = IF k = 1 THEN 2 * B ELSE start[k - 1] + 2 * ModuleGlobalCount(k - 1)
    BY <1>3, <2>4
  <2> DEFINE T == {k \in Nat : k = 0 \/ start[k] = w[k]}
  <2>6. m \in Nat /\ 0 \in T
    OBVIOUS
  <2>7. ASSUME NEW k \in 0 .. m - 1, k \in T PROVE k + 1 \in T
    <3>1. k + 1 \in 1 .. m /\ (k + 1) - 1 = k /\ k + 1 \in Nat /\ (k + 1 = 1 <=> k = 0)
      BY <2>6
    <3>2. w[k + 1] = IF k + 1 = 1 THEN 2 * B ELSE w[k] + 2 * ModuleGlobalCount(k)
      BY <2>2, <3>1
    <3>3. start[k + 1] = IF k + 1 = 1 THEN 2 * B ELSE start[k] + 2 * ModuleGlobalCount(k)
      BY <2>5, <3>1
    <3>4. start[k + 1] = w[k + 1]
      BY <2>7, <3>1, <3>2, <3>3
    <3> QED
      BY <3>1, <3>4
  <2>8. m \in T
    <3> HIDE DEF T
    <3>1. \A k \in 0 .. m - 1 : k \in T => k + 1 \in T
      BY <2>7
    <3>2. \A k \in 0 .. m : k \in T
      BY <2>6, <3>1, UpTo
    <3> QED
      BY <2>6, <3>2
  <2>9. start[m] = w[m]
    BY <2>8
  <2>10. w[m] = 2 * (B + Len(f[m - 1]))
    BY DEF w
  <2> QED
    BY <2>1, <2>9, <2>10
<1>9. ASSUME NEW m \in 1 .. n
      PROVE  WordsAt(ModuleGlobalsAt(m), ModuleGlobalCount(m)) = p.modules[m].globals
  <2> DEFINE u == Len(f[m - 1])
             y == s[m]
             o == B + u
             z == FlattenSeq(s)
  <2>1. u \in Nat /\ y \in Seq(Nat) /\ Holds(z, u, y) /\ Holds(x, B, z) /\ z \in Seq(Nat)
    BY <1>1, <1>4, <1>7
  <2>2. ModuleGlobalsAt(m) = 2 * o /\ ModuleGlobalCount(m) = Len(y) /\ y = p.modules[m].globals
    BY <1>2, <1>3, <1>8
  <2> HIDE DEF u, y, z
  <2>3. Holds(x, o, y) /\ o \in Nat
    BY <1>1, <1>3, <2>1, HoldsDeeper
  <2> HIDE DEF o
  <2>4. WordsAt(2 * o, Len(y)) = y
    BY <1>1, <2>1, <2>3, WordsRead DEF x
  <2> QED
    BY <2>2, <2>4
<1> QED
  BY <1>9 DEF GlobalsSay, n

\* The tables of the exports, one behind the other
ExportsSay(p) ==
  \A m \in 1 .. Len(p.modules) :
    /\ Exports(m) = Len(p.modules[m].exports)
    /\ \A e \in 1 .. Len(p.modules[m].exports) :
         ExportOffset(m, e) = LaidOut(p.modules[m]).starts[p.modules[m].exports[e]]

\* In accepted files it reads every module's exports as they were written.
LEMMA ExportsRight ==
  ASSUME NEW p, GoodProgram(p), FilesOf(p), HeaderError = "none"
  PROVE  ExportsSay(p)
<1> DEFINE n == Len(p.modules)
           s == ExportTableSeq(p)
           B == Half * ExportsPage(p)
           x == case.mme
           c(m) == Len(p.modules[m].exports)
           q(m, e) == LaidOut(p.modules[m]).starts[p.modules[m].exports[e]]
<1>1. /\ n \in Nat /\ s \in Seq(Seq(Nat)) /\ Len(s) = n /\ x \in Seq(Nat)
      /\ ExportTables(p) = FlattenSeq(s) /\ FlattenSeq(s) \in Seq(Nat)
  BY ExportsTyped, LenProperties DEF FilesOf, GoodProgram
<1>2. ASSUME NEW m \in 1 .. n
      PROVE  /\ c(m) \in Nat /\ s[m] \in Seq(Nat) /\ Len(s[m]) = 1 + c(m) /\ s[m][1] = c(m)
             /\ \A e \in 1 .. c(m) : s[m][1 + e] = q(m, e)
  <2> DEFINE k == p.modules[m]
  <2>1. GoodModule(k) /\ s[m] = ExportTable(k)
    BY DEF GoodProgram, ExportTableSeq
  <2> HIDE DEF k
  <2>2. /\ ExportTable(k) \in Seq(Nat) /\ Len(k.exports) \in Nat
        /\ Len(ExportTable(k)) = 1 + Len(k.exports)
        /\ ExportTable(k)[1] = Len(k.exports)
        /\ \A e \in 1 .. Len(k.exports) : ExportTable(k)[1 + e] = LaidOut(k).starts[k.exports[e]]
    BY <2>1, ExportTableIs
  <2> QED
    BY <2>1, <2>2 DEF k
<1>3. B \in Nat /\ ExportsAt = 2 * B
  BY HeaderRight DEF HeaderSays
<1>4. Holds(x, B, FlattenSeq(s))
  BY <1>1, FilesRight DEF FilesHave
<1>5. PICK f : Joins(f, s, Nat)
  BY <1>1, JoinsExist
<1>6. Len(f[0]) = 0
  BY <1>5 DEF Joins
<1> HIDE DEF n, s, B, x, c, q
<1>7. ASSUME NEW m \in 1 .. n
      PROVE  /\ Len(f[m - 1]) \in Nat /\ Len(f[m]) = Len(f[m - 1]) + 1 + c(m)
             /\ Holds(x, B + Len(f[m - 1]), s[m]) /\ B + Len(f[m - 1]) \in Nat
  <2> DEFINE u == Len(f[m - 1])
             v == Len(f[m])
             l == Len(s[m])
             y == s[m]
             z == FlattenSeq(s)
  <2>1. u \in Nat /\ v = u + l /\ Holds(z, u, y) /\ z \in Seq(Nat) /\ Holds(x, B, z)
    BY <1>1, <1>4, <1>5, FlattenHolds
  <2>2. y \in Seq(Nat) /\ l = 1 + c(m) /\ c(m) \in Nat
    BY <1>2
  <2> HIDE DEF u, v, l, y, z
  <2>3. Holds(x, B + u, y) /\ B + u \in Nat
    BY <1>1, <1>3, <2>1, <2>2, HoldsDeeper, SMTT(30)
  <2>4. v = u + 1 + c(m)
    BY <2>1, <2>2
  <2> QED
    BY <2>1, <2>3, <2>4 DEF u, v, y
<1>8. ASSUME NEW m \in 1 .. n
      PROVE  /\ WordAt(2 * (B + Len(f[m - 1]))) = c(m)
             /\ \A e \in 1 .. c(m) : WordAt(2 * (B + Len(f[m - 1])) + 2 * e) = q(m, e)
  <2> DEFINE o == B + Len(f[m - 1])
             y == s[m]
  <2>1. o \in Nat /\ Holds(case.mme, o, y)
    BY <1>7 DEF x
  <2>2. y \in Seq(Nat) /\ Len(y) = 1 + c(m) /\ y[1] = c(m) /\ c(m) \in Nat
        /\ \A e \in 1 .. c(m) : y[1 + e] = q(m, e)
    BY <1>2
  <2> HIDE DEF o, y
  <2>3. WordAt(2 * o) = c(m)
    <3>1. 1 \in 1 .. Len(y) /\ 2 * (o + (1 - 1)) = 2 * o
      BY <2>1, <2>2
    <3>2. WordAt(2 * (o + (1 - 1))) = y[1]
      BY <2>1, <3>1, WordRead
    <3> QED
      BY <2>2, <3>1, <3>2
  <2>4. ASSUME NEW e \in 1 .. c(m) PROVE WordAt(2 * o + 2 * e) = q(m, e)
    <3>1. 1 + e \in 1 .. Len(y) /\ 2 * (o + ((1 + e) - 1)) = 2 * o + 2 * e
      BY <2>1, <2>2
    <3>2. WordAt(2 * (o + ((1 + e) - 1))) = y[1 + e]
      BY <2>1, <3>1, WordRead
    <3> QED
      BY <2>2, <3>1, <3>2
  <2> QED
    BY <2>3, <2>4 DEF o
<1>9. ASSUME NEW m \in 1 .. n PROVE ExportTableAt(m) = 2 * (B + Len(f[m - 1]))
  <2> DEFINE step(h) == [k \in 1 .. m |->
                           IF k = 1 THEN ExportsAt ELSE h[k - 1] + 2 + 2 * WordAt(h[k - 1])]
             table == CHOOSE h : h = step(h)
             w == [k \in 1 .. m |-> 2 * (B + Len(f[k - 1]))]
  <2>1. ExportTableAt(m) = table[m]
    BY DEF ExportTableAt
  <2>2. ASSUME NEW k \in 1 .. m
        PROVE  w[k] = IF k = 1 THEN 2 * B ELSE w[k - 1] + 2 + 2 * WordAt(w[k - 1])
    <3>1. CASE k = 1
      <4>1. w[k] = 2 * (B + 0)
        BY <1>6, <3>1
      <4> QED
        BY <1>3, <3>1, <4>1
    <3>2. CASE k # 1
      <4>1. k - 1 \in 1 .. n /\ k - 1 \in 1 .. m
        BY <1>1, <3>2
      <4> DEFINE i == k - 1
                 u == Len(f[i - 1])
                 v == Len(f[i])
                 l == c(i)
      <4>2. u \in Nat /\ l \in Nat /\ v = u + 1 + l /\ WordAt(2 * (B + u)) = l
        BY <1>2, <1>7, <1>8, <4>1
      <4>3. w[k] = 2 * (B + v) /\ w[i] = 2 * (B + u)
        BY <4>1
      <4> HIDE DEF i, u, v, l, w
      <4>4. w[k] = w[i] + 2 + 2 * WordAt(w[i])
        BY <1>3, <4>2, <4>3
      <4> QED
        BY <3>2, <4>4 DEF i
    <3> QED
      BY <3>1, <3>2
  <2>3. w = step(w)
    <3>1. w = [k \in 1 .. m |-> w[k]]
      OBVIOUS
    <3> HIDE DEF w
    <3> QED
      BY <1>3, <2>2, <3>1
  <2>4. table = step(table)
    BY <2>3
  <2> HIDE DEF table, w
  <2>5. \A k \in 1 .. m :
          table[k] = IF k = 1 THEN 2 * B ELSE table[k - 1] + 2 + 2 * WordAt(table[k - 1])
    BY <1>3, <2>4
  <2> DEFINE T == {k \in Nat : k = 0 \/ table[k] = w[k]}
  <2>6. m \in Nat /\ 0 \in T
    OBVIOUS
  <2>7. ASSUME NEW k \in 0 .. m - 1, k \in T PROVE k + 1 \in T
    <3>1. k + 1 \in 1 .. m /\ (k + 1) - 1 = k /\ k + 1 \in Nat /\ (k + 1 = 1 <=> k = 0)
      BY <2>6
    <3>2. w[k + 1] = IF k + 1 = 1 THEN 2 * B ELSE w[k] + 2 + 2 * WordAt(w[k])
      BY <2>2, <3>1
    <3>3. table[k + 1] = IF k + 1 = 1 THEN 2 * B ELSE table[k] + 2 + 2 * WordAt(table[k])
      BY <2>5, <3>1
    <3>4. table[k + 1] = w[k + 1]
      BY <2>7, <3>1, <3>2, <3>3
    <3> QED
      BY <3>1, <3>4
  <2>8. m \in T
    <3> HIDE DEF T
    <3>1. \A k \in 0 .. m - 1 : k \in T => k + 1 \in T
      BY <2>7
    <3>2. \A k \in 0 .. m : k \in T
      BY <2>6, <3>1, UpTo
    <3> QED
      BY <2>6, <3>2
  <2>9. table[m] = w[m]
    BY <2>8
  <2>10. w[m] = 2 * (B + Len(f[m - 1]))
    BY DEF w
  <2> QED
    BY <2>1, <2>9, <2>10
<1>10. ASSUME NEW m \in 1 .. n
       PROVE  Exports(m) = c(m) /\ \A e \in 1 .. c(m) : ExportOffset(m, e) = q(m, e)
  BY <1>8, <1>9 DEF Exports, ExportOffset
<1> QED
  BY <1>10 DEF ExportsSay, n, c, q

----------------------------------------------------------------------------
(* The procedures *)

\* What the loader makes of an export of a module, and what Chisel wrote of it
HeaderOf(m, e) == HeaderAt(CodeOf(m), ModuleLength(m), ExportOffset(m, e))

WrittenProc(k, q) ==
  [start  |-> LaidOut(k).starts[q], code |-> CodeAt(k, q),
   locals |-> k.procs[q].locals, inits |-> k.procs[q].inits]

ProcRead(m, e, proc_) ==
  /\ ExportOffset(m, e) < ModuleLength(m)
  /\ HeaderOf(m, e).ok /\ ExportOffset(m, e) = proc_.start
  /\ HeaderOf(m, e).locals = proc_.locals /\ HeaderOf(m, e).inits = proc_.inits
  /\ (ExportOffset(m, e) + HeaderOf(m, e).size) % 65536 = proc_.code

\* A number below 2^16 fits a word.
LEMMA SmallStays ==
  ASSUME NEW n \in Nat, n < 65536
  PROVE  n % 65536 = n
OBVIOUS

\* No more than the limit loses nothing.
LEMMA WholeSubSeq ==
  ASSUME NEW S, NEW s \in Seq(S), NEW n \in Nat, Len(s) <= n
  PROVE  SubSeq(s, 1, Min({Len(s), n})) = s
<1> DEFINE l == Len(s)
<1>1. l \in Nat /\ Min({l, n}) = l
  <2>1. l \in Nat
    BY LenProperties
  <2> HIDE DEF l
  <2> QED
    BY <2>1, SmallerOf DEF l
<1>2. Holds(s, 0, s)
  <2>1. 0 + l <= l /\ \A k \in 1 .. l : 0 + k = k
    BY <1>1
  <2> QED
    BY <2>1 DEF Holds
<1>3. SubSeq(s, 0 + 1, 0 + Len(s)) = s
  BY <1>2, HoldsSubSeq
<1> QED
  BY <1>1, <1>3

\* A cut around what is held still holds it, at its start.
LEMMA HoldsCut ==
  ASSUME NEW S, NEW x \in Seq(S), NEW y \in Seq(S), NEW a \in Nat, NEW b \in Nat,
         Holds(x, a, y), a + Len(y) <= b, b <= Len(x)
  PROVE  /\ SubSeq(x, a + 1, b) \in Seq(S) /\ Len(SubSeq(x, a + 1, b)) = b - a
         /\ Holds(SubSeq(x, a + 1, b), 0, y)
<1> DEFINE l == Len(x)
           n == Len(y)
           m == a + 1
           z == SubSeq(x, m, b)
<1>1. l \in Nat /\ n \in Nat
  BY LenProperties
<1>2. a + n <= b /\ b <= l /\ \A k \in 1 .. n : x[a + k] = y[k]
  BY DEF Holds
<1> HIDE DEF l, n
<1>3. m \in Int /\ b \in Int /\ (IF m <= b THEN b - m + 1 ELSE 0) = b - a /\ b - m + 1 = b - a
  BY <1>1, <1>2
<1>4. \A i \in m .. b : x[i] \in S
  <2>1. ASSUME NEW i \in m .. b PROVE x[i] \in S
    <3>1. i \in 1 .. l
      BY <1>1, <1>2
    <3> QED
      BY <3>1, ElementOfSeq DEF l
  <2> QED
    BY <2>1
<1>5. \A k \in 1 .. n : k \in 1 .. b - m + 1 /\ m + k - 1 = a + k
  BY <1>1, <1>2
<1> HIDE DEF m
<1>6. z \in Seq(S) /\ Len(z) = b - a /\ \A k \in 1 .. b - m + 1 : z[k] = x[m + k - 1]
  <2>1. /\ SubSeq(x, m, b) \in Seq(S)
        /\ Len(SubSeq(x, m, b)) = IF m <= b THEN b - m + 1 ELSE 0
        /\ \A i \in 1 .. b - m + 1 : SubSeq(x, m, b)[i] = x[m + i - 1]
    BY <1>3, <1>4, SubSeqProperties
  <2> QED
    BY <1>3, <2>1
<1> HIDE DEF z
<1>7. ASSUME NEW k \in 1 .. n PROVE z[0 + k] = y[k]
  <2>1. 0 + k = k
    OBVIOUS
  <2> QED
    BY <1>2, <1>5, <1>6, <2>1
<1>8. 0 + n <= Len(z)
  BY <1>1, <1>2, <1>6
<1> QED
  BY <1>6, <1>7, <1>8 DEF Holds, n, z, m

\* A header held by the code stands in it.
LEMMA HoldsStands ==
  ASSUME NEW code, NEW c \in Nat, NEW e, Holds(code, c, e)
  PROVE  StandsAt(code, c, e)
<1> DEFINE n == Len(e)
<1>1. \A k \in 1 .. n : code[c + k] = e[k]
  BY DEF Holds
<1>2. ASSUME NEW k \in 1 .. n PROVE ByteAt(code, c + (k - 1)) = e[k]
  <2>1. c + (k - 1) + 1 = c + k
    OBVIOUS
  <2> QED
    BY <1>1, <2>1 DEF ByteAt
<1> QED
  BY <1>2 DEF StandsAt

\* The module's code is in the file, and its headers in it.
LEMMA CodeOfModule ==
  ASSUME NEW p, GoodProgram(p), FilesOf(p), HeaderError = "none",
         NEW m \in 1 .. Len(p.modules)
  PROVE  /\ ModuleAt(m) \in Nat /\ ModuleAt(m) <= ModuleEnd(m) /\ ModuleEnd(m) <= ObjSize
         /\ ModuleLength(m) \in Nat /\ ModuleEnd(m) \in Nat
         /\ CodeOf(m) \in Seq(Nat)
         /\ Holds(CodeOf(m), 0, LaidOut(p.modules[m]).bytes)
         /\ Len(LaidOut(p.modules[m]).bytes) <= ModuleLength(m)
<1> DEFINE x == case.obj
           laid == LaidOut(p.modules[m]).bytes
           a == ModuleAt(m)
           b == ModuleEnd(m)
           c == Len(laid)
           code == Code(p)
           l == Len(code)
           n == Len(x)
<1>1. a = ModuleStart(p, m) /\ b = ModuleStop(p, m)
  BY TablesRight DEF TablesSay
<1>2. /\ a \in Nat /\ b \in Nat /\ a + c <= b /\ b <= l /\ Holds(code, a, laid)
  BY <1>1, ModulesLaid DEF ModuleIn
<1>3. /\ laid \in Seq(Nat) /\ c \in Nat
  BY ModuleBytesAre DEF Bytes
<1>4. /\ x \in Seq(Nat) /\ n \in Nat /\ code \in Seq(Nat) /\ l \in Nat
      /\ Holds(x, 0, code)
  BY CodeIs, FilesRight, LenProperties DEF FilesOf, FilesHave
<1>5. 0 + l <= n
  BY <1>4 DEF Holds
<1>6. /\ ModuleLength(m) = b - a /\ CodeOf(m) = SubSeq(x, a + 1, b) /\ ObjSize = n
  BY DEF ModuleLength, CodeOf, ObjSize
<1> HIDE DEF x, laid, a, b, c, code, l, n
<1>7. Holds(x, a, laid)
  <2>1. Holds(x, 0 + a, laid) /\ 0 + a = a
    BY <1>2, <1>3, <1>4, HoldsDeeper
  <2> QED
    BY <2>1
<1>8. b <= n /\ b - a \in Nat /\ a <= b /\ c <= b - a
  BY <1>2, <1>3, <1>4, <1>5
<1>9. SubSeq(x, a + 1, b) \in Seq(Nat) /\ Holds(SubSeq(x, a + 1, b), 0, laid)
  <2>1. a + Len(laid) <= b /\ b <= Len(x)
    BY <1>2, <1>8 DEF c, n
  <2> QED
    BY <1>2, <1>3, <1>4, <1>7, <2>1, HoldsCut
<1> QED
  BY <1>2, <1>6, <1>8, <1>9 DEF laid, a, b, c

\* parse_procedure_header reads every exported procedure as Chisel encoded it.
LEMMA ProceduresRight ==
  ASSUME NEW p, GoodProgram(p), FilesOf(p), HeaderError = "none",
         NEW m \in 1 .. Len(p.modules), NEW e \in 1 .. Len(p.modules[m].exports)
  PROVE  LET w == WrittenProc(p.modules[m], p.modules[m].exports[e])
         IN  ProcRead(m, e, w) /\ w.start \in Nat /\ w.code \in w.start + 1 .. ModuleLength(m)
<1> DEFINE k == p.modules[m]
           q == k.exports[e]
           proc_ == k.procs[q]
           laid == LaidOut(k).bytes
           start == LaidOut(k).starts[q]
           h == ProcHeader(proc_)
           code == CodeOf(m)
           limit == ModuleLength(m)
           c == Len(h)
           l == Len(laid)
           i == Len(proc_.inits)
<1>1. GoodModule(k)
  BY DEF GoodProgram
<1>2. /\ limit \in Nat /\ code \in Seq(Nat) /\ Holds(code, 0, laid) /\ l <= limit
  BY CodeOfModule
<1>3. laid \in Seq(Nat) /\ l \in Nat
  BY ModuleBytesAre DEF Bytes
<1>4. ExportOffset(m, e) = start
  BY ExportsRight DEF ExportsSay
<1> HIDE DEF k, code, limit
<1>5. q \in 1 .. Len(k.procs) /\ start \in Nat
  BY <1>1, ExportTableIs DEF k
<1> HIDE DEF q
<1>6. proc_ \in ProcedureRecords /\ i <= MaxInitializers /\ CodeAt(k, q) < 65536
  BY <1>1, <1>5, ElementOfSeq DEF GoodModule
<1>7. proc_.inits \in Seq(Inits) /\ proc_.locals \in 0 .. 127 /\ i \in Nat
  <2>1. proc_.inits \in Seq(Inits) /\ proc_.locals \in 0 .. 127
    BY <1>6 DEF ProcedureRecords
  <2> QED
    BY <2>1, LenProperties
<1>8. i <= 64 /\ MaxInitializers \in Nat
  <2> HIDE DEF i
  <2> QED
    BY <1>6, <1>7, FilesAssumption
<1>9. Holds(laid, start, h)
  <2>1. LaidSoFar(k, Len(k.procs), LaidOut(k))
    BY <1>1, LaidOutIs
  <2> QED
    BY <1>5, <2>1 DEF LaidSoFar
<1>10. CodeAt(k, q) = start + c
  BY DEF CodeAt, ProcHeader
<1> HIDE DEF proc_, laid, start
<1>11. h \in Seq(Nat) /\ c \in 1 .. 193
  BY <1>6, <1>8, HeaderType DEF i
<1>b. h = EncodeHeader(proc_.locals, proc_.inits)
  BY DEF ProcHeader
<1> HIDE DEF h
<1>12. Holds(code, start, h)
  <2>1. Holds(code, 0 + start, h) /\ 0 + start = start
    BY <1>2, <1>3, <1>5, <1>9, <1>11, HoldsDeeper
  <2> QED
    BY <2>1
<1>13. StandsAt(code, start, h)
  BY <1>5, <1>12, HoldsStands
<1>14. start + c <= l
  BY <1>9 DEF Holds
<1> HIDE DEF c, l
<1>15. start + c <= limit /\ start < limit /\ start + c \in Nat
  BY <1>2, <1>3, <1>5, <1>11, <1>14
<1>16. LpstReads(code, limit, start, proc_.locals, proc_.inits)
  BY <1>2, <1>5, <1>7, <1>8, <1>13, <1>15, <1>b, HeaderRead DEF c, i
<1>17. SubSeq(proc_.inits, 1, Min({i, MaxInitializers})) = proc_.inits
  BY <1>6, <1>7, <1>8, WholeSubSeq DEF i
<1>18. HeaderAt(code, limit, start)
         = [ok |-> TRUE, locals |-> proc_.locals, inits |-> proc_.inits, size |-> c]
  BY <1>16, <1>17, <1>b DEF LpstReads, c, i
<1>19. (start + c) % 65536 = start + c
  <2> DEFINE n == start + c
  <2>1. n \in Nat /\ n < 65536
    BY <1>6, <1>10, <1>15
  <2> HIDE DEF n
  <2>2. n % 65536 = n
    BY <2>1, SmallStays
  <2> QED
    BY <2>2 DEF n
<1>20. HeaderOf(m, e) = HeaderAt(code, limit, start)
  BY <1>4 DEF HeaderOf, code, limit
<1> DEFINE w == WrittenProc(k, q)
<1>21. /\ w.start = start /\ w.code = CodeAt(k, q) /\ w.locals = proc_.locals
       /\ w.inits = proc_.inits
  BY DEF WrittenProc, start, proc_
<1> HIDE DEF w
<1>22. HeaderOf(m, e).ok /\ HeaderOf(m, e).locals = proc_.locals
       /\ HeaderOf(m, e).inits = proc_.inits /\ HeaderOf(m, e).size = c
  BY <1>18, <1>20
<1>23. ExportOffset(m, e) < ModuleLength(m)
  BY <1>4, <1>15 DEF limit
<1>24. (ExportOffset(m, e) + HeaderOf(m, e).size) % 65536 = CodeAt(k, q)
  BY <1>4, <1>10, <1>19, <1>22
<1>25. ProcRead(m, e, w)
  BY <1>4, <1>21, <1>22, <1>23, <1>24 DEF ProcRead
<1>26. w.start \in Nat /\ w.code \in w.start + 1 .. limit /\ limit = ModuleLength(m)
  <2>1. c \in Nat \ {0}
    BY <1>11
  <2> HIDE DEF h
  <2>2. start + c \in start + 1 .. limit
    BY <1>2, <1>5, <1>15, <2>1
  <2> QED
    BY <1>5, <1>10, <1>21, <2>2 DEF limit
<1> QED
  BY <1>25, <1>26 DEF w, k, q

\* A sequence holds its own first elements.
LEMMA HoldsHead ==
  ASSUME NEW S, NEW y \in Seq(S), NEW k \in Nat, k <= Len(y)
  PROVE  /\ SubSeq(y, 1, k) \in Seq(S) /\ Len(SubSeq(y, 1, k)) = k
         /\ Holds(y, 0, SubSeq(y, 1, k))
<1> DEFINE l == Len(y)
           z == SubSeq(y, 1, k)
<1>1. l \in Nat
  BY LenProperties
<1>2. \A i \in 1 .. k : y[i] \in S
  <2>1. ASSUME NEW i \in 1 .. k PROVE y[i] \in S
    <3>1. i \in 1 .. l
      <4> HIDE DEF l
      <4>1. k <= l
        BY DEF l
      <4> QED
        BY <1>1, <4>1
    <3> QED
      BY <3>1, ElementOfSeq
  <2> QED
    BY <2>1
<1>3. 1 \in Int /\ k \in Int /\ k - 1 + 1 = k /\ (IF 1 <= k THEN k - 1 + 1 ELSE 0) = k
      /\ \A i \in 1 .. k : 1 + i - 1 = i
  OBVIOUS
<1>4. z \in Seq(S) /\ Len(z) = k /\ \A i \in 1 .. k : z[i] = y[i]
  <2>1. /\ SubSeq(y, 1, k) \in Seq(S)
        /\ Len(SubSeq(y, 1, k)) = IF 1 <= k THEN k - 1 + 1 ELSE 0
        /\ \A i \in 1 .. k - 1 + 1 : SubSeq(y, 1, k)[i] = y[1 + i - 1]
    BY <1>2, <1>3, SubSeqProperties
  <2> QED
    BY <1>3, <2>1
<1> HIDE DEF z, l
<1>5. 0 + k <= l /\ \A i \in 1 .. k : 0 + i = i
  BY <1>1 DEF l
<1> QED
  BY <1>4, <1>5 DEF Holds, l, z

\* The export tables end within a page, and not just where it ends.
EndsInPage(p) == (2 * Len(ExportTables(p))) % PageBytes # 0

\* The RAM begins behind the page of the last table, if the tables do not end with a page.
LEMMA RamStarts ==
  ASSUME NEW p, GoodProgram(p), HeaderSays(p), EndsInPage(p)
  PROVE  RamStart = 2 * RamWord(p)
<1> DEFINE E == ExportsPage(p)
           c == Len(ExportTables(p))
           y == 2 * c
           q == y \div PageBytes
           r == y % PageBytes
<1>1. PICK h \in Nat \ {0} : PageBytes = 2 * h /\ Half = h
  BY UnitsAre DEF Half
<1>2. E \in Nat /\ c \in Nat /\ r # 0
  BY HeaderIsSeq, ExportsTyped DEF EndsInPage
<1>3. ExportsEnd = 2 * (h * E) + y
  BY <1>1 DEF HeaderSays
<1>4. y \in Nat
  <2> HIDE DEF c
  <2> QED
    BY <1>2
<1>5. RamWord(p) = h * (1 + E + q)
  BY <1>1 DEF RamWord
<1> HIDE DEF y
<1>6. y = PageBytes * q + r /\ r \in 0 .. PageBytes - 1 /\ q \in Int
  <2>1. PageBytes \in Nat \ {0} /\ y \in Int
    BY <1>4, UnitsAre
  <2> QED
    BY <2>1, Division
<1> HIDE DEF E, c, q, r
<1> DEFINE n == ExportsEnd + PageBytes - 1
           k == 1 + E + q
           s == r - 1
<1>7. n = PageBytes * k + s /\ k \in Int /\ s \in 0 .. PageBytes - 1
  <2>1. (2 * h) * k = 2 * h + 2 * (h * E) + (2 * h) * q /\ k \in Int
    BY <1>1, <1>2, <1>6
  <2>2. s \in 0 .. PageBytes - 1
    BY <1>1, <1>2, <1>6
  <2>3. h * E \in Int /\ (2 * h) * q \in Int
    BY <1>1, <1>2, <1>6
  <2> QED
    BY <1>1, <1>3, <1>6, <2>1, <2>2, <2>3
<1>8. RamStart = PageBytes * (n \div PageBytes)
  BY DEF RamStart, AlignToPage
<1> HIDE DEF n, s
<1>9. n \div PageBytes = k
  <2> HIDE DEF k
  <2>1. PageBytes \in Nat \ {0}
    BY UnitsAre
  <2>2. (PageBytes * k + s) \div PageBytes = k
    BY <1>7, <2>1, QuotientIs
  <2> QED
    BY <1>7, <2>2
<1>10. RamStart = (2 * h) * k
  BY <1>1, <1>8, <1>9
<1>11. (2 * h) * k = 2 * (h * k)
  BY <1>1, <1>7
<1> QED
  BY <1>5, <1>10, <1>11

HalfOf(ram) == SubSeq(ram, 1, Len(ram) \div 2)

\* The RAM as it was written, or its first half
RamIs(p) ==
  /\ ~ RamTruncated => WordsAt(RamStart, RamBytes \div 2) \in {p.ram, HalfOf(p.ram)}
  /\ case.mme = Mme(p) => ~ RamTruncated /\ WordsAt(RamStart, RamBytes \div 2) = p.ram

\* The RAM read is the program's, or its start where the file was cut.
LEMMA RamRight ==
  ASSUME NEW p, GoodProgram(p), FilesOf(p), HeaderError = "none", EndsInPage(p)
  PROVE  RamIs(p)
<1> DEFINE x == case.mme
           y == Mme(p)
           ram == p.ram
           R == RamWord(p)
           r == Len(ram)
           n == Len(x)
           half == HalfOf(ram)
           k == r \div 2
<1>1. /\ x \in Seq(Nat) /\ n \in Nat /\ ram \in Seq(Nat) /\ r \in Nat /\ ram # << >>
      /\ IsPrefix(x, y)
  BY LenProperties DEF FilesOf, GoodProgram
<1>2. y \in Seq(Nat) /\ Len(y) = R + r /\ Holds(y, R, ram) /\ R \in Nat
  BY MmeLaid DEF MmeHas
<1>3. HeaderSays(p) /\ RamStart = 2 * R
  BY HeaderRight, RamStarts
<1>4. HeaderWord(11) = r /\ MmeSize = 2 * n
  BY <1>3 DEF HeaderSays, MmeSize
<1>5. r # 0
  BY <1>1, EmptySeq
<1>6. k \in Nat /\ k <= r /\ half = SubSeq(ram, 1, k)
  <2>1. half = SubSeq(ram, 1, k)
    BY DEF HalfOf
  <2> HIDE DEF r
  <2> QED
    BY <1>1, <2>1
<1> HIDE DEF R, y, x, n, k, half, ram
<1>7. half \in Seq(Nat) /\ Len(half) = k /\ Holds(ram, 0, half)
  BY <1>1, <1>6, HoldsHead DEF r
<1> HIDE DEF r
<1>8. /\ Holds(y, R, half)
  <2>1. Holds(y, R + 0, half) /\ R + 0 = R
    BY <1>1, <1>2, <1>7, HoldsDeeper
  <2> QED
    BY <2>1
<1> DEFINE fits(m) == 2 * R > 2 * n \/ m <= 2 * n - 2 * R
           b == RamBytes
<1>9. b = IF fits(2 * r) THEN 2 * r ELSE IF fits(r) THEN r ELSE 0
  BY <1>3, <1>4 DEF RamBytes
<1>10. RamTruncated <=> b = 0 \/ 2 * R + b > 2 * n
  BY <1>3, <1>4 DEF RamTruncated
<1> HIDE DEF b
<1>11. ASSUME ~ RamTruncated
       PROVE  \/ b \div 2 = r /\ R + r <= n
              \/ b \div 2 = k /\ R + k <= n
  <2>1. b # 0 /\ ~ (2 * R + b > 2 * n)
    BY <1>10, <1>11
  <2>2. CASE b = 2 * r
    <3>1. R + r <= n /\ (2 * r) \div 2 = r
      BY <1>1, <1>2, <2>1, <2>2
    <3> QED
      BY <2>2, <3>1
  <2>3. CASE b = r
    <3>1. b \div 2 = k
      BY <2>3 DEF k
    <3>2. r = 2 * k \/ r = 2 * k + 1
      BY <1>1, <1>6 DEF k
    <3>3. 2 * R + r <= 2 * n
      BY <1>1, <1>2, <2>1, <2>3
    <3>4. R + k <= n
      BY <1>1, <1>2, <1>6, <3>2, <3>3
    <3> QED
      BY <3>1, <3>4
  <2> QED
    BY <1>9, <2>1, <2>2, <2>3
<1>12. ASSUME ~ RamTruncated PROVE WordsAt(RamStart, b \div 2) \in {ram, half}
  <2>1. CASE b \div 2 = r /\ R + r <= n
    <3>1. Holds(x, R, ram)
      BY <1>1, <1>2, <2>1, HoldsInPrefix DEF r, n
    <3>2. WordsAt(2 * R, r) = ram
      BY <1>1, <1>2, <3>1, WordsRead DEF x, r
    <3> QED
      BY <1>3, <2>1, <3>2
  <2>2. CASE b \div 2 = k /\ R + k <= n
    <3>1. Holds(x, R, half)
      BY <1>1, <1>2, <1>7, <1>8, <2>2, HoldsInPrefix DEF n
    <3>2. WordsAt(2 * R, k) = half
      BY <1>1, <1>2, <1>7, <3>1, WordsRead DEF x
    <3> QED
      BY <1>3, <2>2, <3>2
  <2> QED
    BY <1>11, <1>12, <2>1, <2>2
<1>13. ASSUME x = y PROVE ~ RamTruncated /\ WordsAt(RamStart, b \div 2) = ram
  <2>1. n = R + r
    BY <1>2, <1>13 DEF n
  <2>2. b = 2 * r /\ ~ (b = 0) /\ ~ (2 * R + b > 2 * n)
    BY <1>1, <1>2, <1>5, <1>9, <2>1
  <2>3. (2 * r) \div 2 = r
    BY <1>1
  <2>4. WordsAt(2 * R, r) = ram
    BY <1>1, <1>2, <1>13, WordsRead DEF x, r
  <2> QED
    BY <1>3, <1>10, <2>2, <2>3, <2>4
<1> QED
  BY <1>12, <1>13 DEF RamIs, b, x, y, ram, half

----------------------------------------------------------------------------
(* The image, step by step *)

ProcRecs == [start : Nat, code : Nat, locals : 0 .. 127, inits : Seq(Inits)]

ModRecs == [at : Nat, length : Nat, procs : Seq(ProcRecs)]

WrittenProcs(k) == [e \in 1 .. Len(k.exports) |-> WrittenProc(k, k.exports[e])]

WrittenModule(p, m) ==
  [at |-> ModuleStart(p, m), length |-> ModuleStop(p, m) - ModuleStart(p, m),
   procs |-> WrittenProcs(p.modules[m])]

WrittenModules(p) == [m \in 1 .. Len(p.modules) |-> WrittenModule(p, m)]

Images(p, modules, ram) ==
  [count : {Len(p.modules)}, globals : {p.globals},
   moduleGlobals : {GlobalsTables(p)}, modules : {modules}, ram : {ram}]

\* So many modules of the program, and of the last so many procedures
ModulesTo(p, s, m) ==
  s \in Seq(ModRecs) /\ Len(s) = m /\ \A k \in 1 .. m : s[k] = WrittenModule(p, k)

ProcsTo(k, t, e) ==
  t \in Seq(ProcRecs) /\ Len(t) = e /\ \A i \in 1 .. e : t[i] = WrittenProc(k, k.exports[i])

ModuleTo(p, s, m, e) ==
  /\ s \in Seq(ModRecs) /\ Len(s) = m /\ \A k \in 1 .. m - 1 : s[k] = WrittenModule(p, k)
  /\ s[m].at = ModuleStart(p, m) /\ s[m].length = ModuleStop(p, m) - ModuleStart(p, m)
  /\ ProcsTo(p.modules[m], s[m].procs, e)

\* What the image is to hold of a module's procedures.
LEMMA WrittenProcsAre ==
  ASSUME NEW k, GoodModule(k)
  PROVE  /\ Len(k.exports) \in Nat
         /\ \A e \in 1 .. Len(k.exports) : WrittenProc(k, k.exports[e]) \in ProcRecs
         /\ WrittenProcs(k) \in Seq(ProcRecs) /\ Len(WrittenProcs(k)) = Len(k.exports)
         /\ ProcsTo(k, WrittenProcs(k), Len(k.exports))
<1> DEFINE n == Len(k.exports)
           w(e) == WrittenProc(k, k.exports[e])
           s == [e \in 1 .. n |-> w(e)]
<1>1. n \in Nat
  BY ExportTableIs
<1>2. ASSUME NEW e \in 1 .. n PROVE w(e) \in ProcRecs
  <2> DEFINE q == k.exports[e]
  <2>1. q \in 1 .. Len(k.procs) /\ LaidOut(k).starts[q] \in Nat
    BY ExportTableIs
  <2> HIDE DEF q
  <2>2. k.procs[q] \in ProcedureRecords /\ Len(k.procs[q].inits) <= MaxInitializers
    BY <2>1, ElementOfSeq DEF GoodModule
  <2> DEFINE proc_ == k.procs[q]
             i == Len(proc_.inits)
  <2>3. proc_.inits \in Seq(Inits) /\ proc_.locals \in 0 .. 127 /\ i \in Nat
    <3>1. proc_.inits \in Seq(Inits) /\ proc_.locals \in 0 .. 127
      BY <2>2 DEF ProcedureRecords
    <3> QED
      BY <3>1, LenProperties
  <2>4. i <= 64
    <3> HIDE DEF i
    <3>1. i <= MaxInitializers
      BY <2>2 DEF i
    <3> QED
      BY <2>3, <3>1, FilesAssumption
  <2>5. Len(ProcHeader(proc_)) \in Nat
    <3> HIDE DEF proc_
    <3>1. proc_ \in ProcedureRecords
      BY <2>2 DEF proc_
    <3> QED
      BY <2>4, <3>1, HeaderType
  <2>6. CodeAt(k, q) \in Nat
    <3> DEFINE u == LaidOut(k).starts[q]
               v == Len(ProcHeader(proc_))
    <3>1. CodeAt(k, q) = u + v
      BY DEF CodeAt, ProcHeader
    <3>2. u \in Nat /\ v \in Nat
      BY <2>1, <2>5
    <3> HIDE DEF u, v
    <3> QED
      BY <3>1, <3>2
  <2>7. WrittenProc(k, q) \in ProcRecs
    <3> HIDE DEF proc_
    <3>1. WrittenProc(k, q) = [start |-> LaidOut(k).starts[q], code |-> CodeAt(k, q),
                               locals |-> proc_.locals, inits |-> proc_.inits]
      BY DEF WrittenProc, proc_
    <3> QED
      BY <2>1, <2>3, <2>6, <3>1 DEF ProcRecs
  <2> QED
    BY <2>7 DEF q
<1> HIDE DEF n, w
<1>3. s \in Seq(ProcRecs) /\ Len(s) = n /\ \A e \in 1 .. n : s[e] = w(e)
  BY <1>1, <1>2
<1>4. WrittenProcs(k) = s
  BY DEF WrittenProcs, n, w
<1> HIDE DEF s
<1>5. ProcsTo(k, s, n)
  BY <1>3 DEF ProcsTo, w
<1> QED
  BY <1>1, <1>2, <1>3, <1>4, <1>5 DEF n, w

\* What the image is to hold of the modules.
LEMMA WrittenModulesAre ==
  ASSUME NEW p, GoodProgram(p)
  PROVE  /\ WrittenModules(p) \in Seq(ModRecs) /\ Len(WrittenModules(p)) = Len(p.modules)
         /\ Len(p.modules) \in Nat
         /\ \A m \in 1 .. Len(p.modules) :
              /\ WrittenModules(p)[m] = WrittenModule(p, m) /\ WrittenModule(p, m) \in ModRecs
              /\ ModuleStart(p, m) \in Nat /\ ModuleStop(p, m) - ModuleStart(p, m) \in Nat
<1> DEFINE n == Len(p.modules)
           w(m) == WrittenModule(p, m)
           s == [m \in 1 .. n |-> w(m)]
<1>1. n \in Nat
  BY LenProperties DEF GoodProgram
<1>2. ASSUME NEW m \in 1 .. n
      PROVE  /\ w(m) \in ModRecs /\ ModuleStart(p, m) \in Nat
             /\ ModuleStop(p, m) - ModuleStart(p, m) \in Nat
  <2> DEFINE a == ModuleStart(p, m)
             b == ModuleStop(p, m)
             l == Len(LaidOut(p.modules[m]).bytes)
             procs == WrittenProcs(p.modules[m])
  <2>1. a \in Nat /\ b \in Nat /\ a + l <= b /\ l \in Nat
    BY ModulesLaid, ModuleBytesAre DEF ModuleIn
  <2>2. procs \in Seq(ProcRecs)
    <3>1. GoodModule(p.modules[m])
      BY DEF GoodProgram
    <3> QED
      BY <3>1, WrittenProcsAre
  <2>3. w(m) = [at |-> a, length |-> b - a, procs |-> procs]
    BY DEF WrittenModule
  <2> HIDE DEF a, b, l, procs, w
  <2>4. b - a \in Nat
    BY <2>1
  <2>5. w(m) \in ModRecs
    BY <2>1, <2>2, <2>3, <2>4 DEF ModRecs
  <2> QED
    BY <2>1, <2>4, <2>5 DEF a, b
<1> HIDE DEF n, w
<1>3. s \in Seq(ModRecs) /\ Len(s) = n /\ \A m \in 1 .. n : s[m] = w(m)
  BY <1>1, <1>2
<1>4. WrittenModules(p) = s
  BY DEF WrittenModules, n, w
<1> QED
  BY <1>1, <1>2, <1>3, <1>4 DEF n, w

\* What the image is to hold of the program.
LEMMA WrittenIs ==
  ASSUME NEW p, GoodProgram(p)
  PROVE  Written(p) = [count |-> Len(p.modules), globals |-> p.globals,
                       moduleGlobals |-> GlobalsTables(p), modules |-> WrittenModules(p),
                       ram |-> p.ram]
<1> DEFINE n == Len(p.modules)
<1>1. DOMAIN p.modules = 1 .. n
  BY LenProperties DEF GoodProgram
<1>2. \A m \in 1 .. n : DOMAIN p.modules[m].exports = 1 .. Len(p.modules[m].exports)
  <2>1. ASSUME NEW m \in 1 .. n
        PROVE  DOMAIN p.modules[m].exports = 1 .. Len(p.modules[m].exports)
    <3> DEFINE k == p.modules[m]
    <3>1. GoodModule(k)
      BY DEF GoodProgram
    <3> HIDE DEF k
    <3>2. DOMAIN k.exports = 1 .. Len(k.exports)
      BY <3>1, LenProperties DEF GoodModule
    <3> QED
      BY <3>2 DEF k
  <2> QED
    BY <2>1
<1> DEFINE v == [m \in DOMAIN p.modules |->
                   [at |-> PageBytes * ModulePage(p, m),
                    length |-> (IF m = Len(p.modules) THEN Len(Code(p))
                                ELSE PageBytes * ModulePage(p, m + 1))
                                 - PageBytes * ModulePage(p, m),
                    procs |-> [e \in DOMAIN p.modules[m].exports |->
                      [start  |-> LaidOut(p.modules[m]).starts[p.modules[m].exports[e]],
                       code   |-> CodeAt(p.modules[m], p.modules[m].exports[e]),
                       locals |-> p.modules[m].procs[p.modules[m].exports[e]].locals,
                       inits  |-> p.modules[m].procs[p.modules[m].exports[e]].inits]]]]
<1>3. \A m \in 1 .. n : v[m] = WrittenModule(p, m)
  BY <1>1, <1>2, Zenon DEF WrittenModule, WrittenProcs, WrittenProc, ModuleStart, ModuleStop
<1>4. v = WrittenModules(p)
  <2>1. v = [m \in 1 .. n |-> v[m]]
    BY <1>1, Zenon
  <2> HIDE DEF v
  <2> QED
    BY <1>3, <2>1 DEF WrittenModules
<1>5. Written(p) = [count |-> n, globals |-> p.globals,
                    moduleGlobals |-> [m \in DOMAIN p.modules |-> p.modules[m].globals],
                    modules |-> v, ram |-> p.ram]
  BY DEF Written
<1> HIDE DEF v
<1> QED
  BY <1>1, <1>4, <1>5 DEF GlobalsTables

----------------------------------------------------------------------------
(* What is appended to a list of modules, and of procedures *)

\* With all the modules read, they are those of the program.
LEMMA AllModules ==
  ASSUME NEW p, GoodProgram(p), NEW s, ModulesTo(p, s, Len(p.modules))
  PROVE  s = WrittenModules(p)
<1> DEFINE n == Len(p.modules)
           w == WrittenModules(p)
<1>1. w \in Seq(ModRecs) /\ Len(w) = n /\ \A m \in 1 .. n : w[m] = WrittenModule(p, m)
  BY WrittenModulesAre
<1>2. s \in Seq(ModRecs) /\ Len(s) = n /\ \A m \in 1 .. n : s[m] = WrittenModule(p, m)
  BY DEF ModulesTo
<1> HIDE DEF n, w
<1>3. Len(s) = Len(w) /\ \A m \in 1 .. Len(w) : s[m] = w[m]
  BY <1>1, <1>2
<1>4. s = w
  BY <1>1, <1>2, <1>3, SeqEqual
<1> QED
  BY <1>4 DEF w

\* A module begun has none of its procedures yet; one without exports is complete.
LEMMA ModuleBegun ==
  ASSUME NEW p, GoodProgram(p), NEW m \in 1 .. Len(p.modules), NEW s, ModulesTo(p, s, m - 1),
         NEW x, x = [at |-> ModuleStart(p, m), length |-> ModuleStop(p, m) - ModuleStart(p, m),
                     procs |-> << >>]
  PROVE  /\ ModuleTo(p, Append(s, x), m, 0)
         /\ Len(p.modules[m].exports) = 0 => ModulesTo(p, Append(s, x), m)
<1> DEFINE y == Append(s, x)
<1>1. x \in ModRecs
  BY EmptySeq, WrittenModulesAre DEF ModRecs
<1>2. s \in Seq(ModRecs) /\ Len(s) = m - 1 /\ \A k \in 1 .. m - 1 : s[k] = WrittenModule(p, k)
  BY DEF ModulesTo
<1>3. m \in Nat \ {0} /\ (m - 1) + 1 = m
  BY WrittenModulesAre
<1>4. /\ y \in Seq(ModRecs) /\ Len(y) = m /\ y[m] = x
      /\ \A k \in 1 .. m - 1 : y[k] = WrittenModule(p, k)
  <2>1. /\ y \in Seq(ModRecs) /\ Len(y) = Len(s) + 1
        /\ \A i \in 1 .. Len(s) : y[i] = s[i]
        /\ y[Len(s) + 1] = x
    BY <1>1, <1>2, AppendProperties
  <2> HIDE DEF y
  <2> QED
    BY <1>2, <1>3, <2>1
<1> HIDE DEF y
<1>5. ProcsTo(p.modules[m], << >>, 0)
  BY EmptySeq DEF ProcsTo
<1>6. x.at = ModuleStart(p, m) /\ x.length = ModuleStop(p, m) - ModuleStart(p, m)
      /\ x.procs = << >>
  OBVIOUS
<1>7. ModuleTo(p, y, m, 0)
  BY <1>4, <1>5, <1>6 DEF ModuleTo
<1>8. ASSUME Len(p.modules[m].exports) = 0 PROVE ModulesTo(p, y, m)
  <2> DEFINE w == WrittenProcs(p.modules[m])
  <2>1. w \in Seq(ProcRecs) /\ Len(w) = 0
    <3>1. GoodModule(p.modules[m])
      BY DEF GoodProgram
    <3> QED
      BY <1>8, <3>1, WrittenProcsAre
  <2>2. w = << >>
    <3> HIDE DEF w
    <3> QED
      BY <2>1, EmptySeq
  <2>3. x = WrittenModule(p, m)
    BY <2>2 DEF WrittenModule
  <2>4. ASSUME NEW k \in 1 .. m PROVE y[k] = WrittenModule(p, k)
    <3>1. CASE k = m
      BY <1>4, <2>3, <3>1
    <3>2. CASE k # m
      <4>1. k \in 1 .. m - 1
        BY <1>3, <3>2
      <4> QED
        BY <1>4, <4>1
    <3> QED
      BY <3>1, <3>2
  <2> QED
    BY <1>4, <2>4 DEF ModulesTo
<1> QED
  BY <1>7, <1>8 DEF y

\* One more procedure read is one more procedure of the program.
LEMMA ProcedureAdded ==
  ASSUME NEW p, GoodProgram(p), NEW m \in 1 .. Len(p.modules), NEW s, NEW e \in Nat \ {0},
         e <= Len(p.modules[m].exports), ModuleTo(p, s, m, e - 1),
         NEW x, x = WrittenProc(p.modules[m], p.modules[m].exports[e])
  PROVE  ModuleTo(p, [s EXCEPT ![m].procs = Append(@, x)], m, e)
<1> DEFINE k == p.modules[m]
           t == s[m].procs
           u == Append(t, x)
           y == [s EXCEPT ![m].procs = Append(@, x)]
           z == [s[m] EXCEPT !.procs = u]
<1>1. /\ s \in Seq(ModRecs) /\ Len(s) = m /\ \A j \in 1 .. m - 1 : s[j] = WrittenModule(p, j)
      /\ s[m].at = ModuleStart(p, m) /\ s[m].length = ModuleStop(p, m) - ModuleStart(p, m)
      /\ ProcsTo(k, t, e - 1)
  BY DEF ModuleTo
<1>2. m \in Nat \ {0} /\ m \in 1 .. m
  BY WrittenModulesAre
<1>3. x \in ProcRecs /\ x = WrittenProc(k, k.exports[e])
  <2>1. GoodModule(k) /\ e \in 1 .. Len(k.exports)
    <3>1. GoodModule(k)
      BY DEF GoodProgram
    <3>2. Len(k.exports) \in Nat
      BY <3>1, ExportTableIs
    <3> QED
      BY <3>1, <3>2
  <2> HIDE DEF k
  <2>2. WrittenProc(k, k.exports[e]) \in ProcRecs
    BY <2>1, WrittenProcsAre
  <2> QED
    BY <2>2 DEF k
<1> HIDE DEF k, t
<1>4. /\ t \in Seq(ProcRecs) /\ Len(t) = e - 1
      /\ \A i \in 1 .. e - 1 : t[i] = WrittenProc(k, k.exports[i])
  BY <1>1 DEF ProcsTo
<1>5. ProcsTo(k, u, e)
  <2>1. /\ u \in Seq(ProcRecs) /\ Len(u) = Len(t) + 1
        /\ \A i \in 1 .. Len(t) : u[i] = t[i]
        /\ u[Len(t) + 1] = x
    BY <1>3, <1>4, AppendProperties
  <2> HIDE DEF u
  <2>2. Len(u) = e /\ u[e] = x /\ \A i \in 1 .. e - 1 : u[i] = t[i]
    BY <1>4, <2>1
  <2>3. ASSUME NEW i \in 1 .. e PROVE u[i] = WrittenProc(k, k.exports[i])
    <3>1. CASE i = e
      BY <1>3, <2>2, <3>1
    <3>2. CASE i # e
      <4>1. i \in 1 .. e - 1
        BY <3>2
      <4> QED
        BY <1>4, <2>2, <4>1
    <3> QED
      BY <3>1, <3>2
  <2> QED
    BY <2>1, <2>2, <2>3 DEF ProcsTo
<1> HIDE DEF u
<1>6. s[m] \in ModRecs
  BY <1>1, <1>2, ElementOfSeq
<1>7. z \in ModRecs /\ z.at = s[m].at /\ z.length = s[m].length /\ z.procs = u
  <2>1. u \in Seq(ProcRecs)
    BY <1>5 DEF ProcsTo
  <2> DEFINE r == s[m]
  <2>2. r \in ModRecs
    BY <1>6
  <2>3. z = [r EXCEPT !.procs = u]
    OBVIOUS
  <2> HIDE DEF r, z
  <2>4. z \in ModRecs /\ z.at = r.at /\ z.length = r.length /\ z.procs = u
    BY <2>1, <2>2, <2>3 DEF ModRecs
  <2> QED
    BY <2>4 DEF r
<1>8. y = [s EXCEPT ![m] = z]
  BY DEF u, t
<1> HIDE DEF z, y
<1>9. /\ y \in Seq(ModRecs) /\ Len(y) = m /\ y[m] = z /\ \A j \in 1 .. m - 1 : y[j] = s[j]
  BY <1>1, <1>2, <1>7, <1>8
<1>10. ModuleTo(p, y, m, e)
  BY <1>1, <1>5, <1>7, <1>9 DEF ModuleTo, k
<1> QED
  BY <1>10 DEF y

\* A module with all its procedures is complete.
LEMMA ModuleEnded ==
  ASSUME NEW p, GoodProgram(p), NEW m \in 1 .. Len(p.modules), NEW s,
         ModuleTo(p, s, m, Len(p.modules[m].exports))
  PROVE  ModulesTo(p, s, m)
<1> DEFINE k == p.modules[m]
           n == Len(k.exports)
           t == s[m].procs
           w == WrittenProcs(k)
<1>1. /\ s \in Seq(ModRecs) /\ Len(s) = m /\ \A j \in 1 .. m - 1 : s[j] = WrittenModule(p, j)
      /\ s[m].at = ModuleStart(p, m) /\ s[m].length = ModuleStop(p, m) - ModuleStart(p, m)
      /\ ProcsTo(k, t, n)
  BY DEF ModuleTo
<1>2. m \in Nat \ {0} /\ m \in 1 .. m
  BY WrittenModulesAre
<1>3. GoodModule(k)
  BY DEF GoodProgram
<1>4. WrittenModule(p, m) = [at |-> ModuleStart(p, m),
                             length |-> ModuleStop(p, m) - ModuleStart(p, m), procs |-> w]
  BY DEF WrittenModule
<1> HIDE DEF k
<1>5. ProcsTo(k, w, n)
  BY <1>3, WrittenProcsAre
<1> HIDE DEF t, w, n
<1>6. t = w
  <2>1. /\ t \in Seq(ProcRecs) /\ Len(t) = n /\ w \in Seq(ProcRecs) /\ Len(w) = n
        /\ \A i \in 1 .. n : t[i] = w[i]
    BY <1>1, <1>5 DEF ProcsTo
  <2>2. Len(t) = Len(w) /\ \A i \in 1 .. Len(w) : t[i] = w[i]
    BY <2>1
  <2> QED
    BY <2>1, <2>2, SeqEqual
<1>7. s[m] = WrittenModule(p, m)
  <2>1. s[m] \in ModRecs
    BY <1>1, <1>2, ElementOfSeq
  <2> DEFINE r == s[m]
  <2>2. r.procs = w /\ r.at = ModuleStart(p, m)
        /\ r.length = ModuleStop(p, m) - ModuleStart(p, m) /\ r \in ModRecs
    BY <1>1, <1>6, <2>1 DEF t
  <2> HIDE DEF r
  <2>3. r = [at |-> r.at, length |-> r.length, procs |-> r.procs]
    BY <2>2 DEF ModRecs
  <2>4. r = WrittenModule(p, m)
    BY <1>4, <2>2, <2>3
  <2> QED
    BY <2>4 DEF r
<1>8. ASSUME NEW j \in 1 .. m PROVE s[j] = WrittenModule(p, j)
  <2>1. CASE j = m
    BY <1>7, <2>1
  <2>2. CASE j # m
    <3>1. j \in 1 .. m - 1
      BY <1>2, <2>2
    <3> QED
      BY <1>1, <3>1
  <2> QED
    BY <2>1, <2>2
<1> QED
  BY <1>1, <1>8 DEF ModulesTo

----------------------------------------------------------------------------
(* Every step of a load of the program's files *)

ImageOf(p, modules, ram) == image \in Images(p, modules, ram)

\* The files, as a case gives them
Loading(p) ==
  /\ FilesOf(p) /\ case.written = Written(p) /\ case.files \in {"whole", "cut"}
  /\ case.files = "whole" => case.mme = Mme(p) /\ case.obj = Obj(p)

Loaded(p) ==
  /\ image.ram \in {p.ram, HalfOf(p.ram)} /\ ImageOf(p, WrittenModules(p), image.ram)
  /\ case.files = "whole" => image.ram = p.ram

NothingRead(p) == image = NoImage /\ module = 1 /\ proc = 1

InModules(p) ==
  /\ module \in 1 .. Len(p.modules) + 1 /\ proc = 1
  /\ ModulesTo(p, image.modules, module - 1) /\ ImageOf(p, image.modules, << >>)

InProcedures(p) ==
  /\ module \in 1 .. Len(p.modules)
  /\ proc \in 1 .. Len(p.modules[module].exports) + 1
  /\ ModuleTo(p, image.modules, module, proc - 1) /\ ImageOf(p, image.modules, << >>)

AtEnd(p) ==
  /\ result = "OK" => Loaded(p)
  /\ case.files = "whole" => result \in {"OK", "IO", "ALLOC"}

\* How far the load is, at each step: what of the program the image holds
Stage(p) ==
  /\ at \in {"files", "header", "globals"} => NothingRead(p)
  /\ at \notin {"files", "header", "done"} => HeaderError = "none"
  /\ at = "offsets" => ImageOf(p, << >>, << >>) /\ module = 1 /\ proc = 1
  /\ at = "module" => InModules(p)
  /\ at = "procedure" => InProcedures(p)
  /\ at = "ram" => ImageOf(p, WrittenModules(p), << >>)
  /\ at = "entry" => Loaded(p)
  /\ at = "done" => AtEnd(p)

LoadingStage(p) == Loading(p) /\ Stage(p)

\* The files do not change during a load.
LEMMA CaseKept ==
  ASSUME NEW p, case' = case
  PROVE  (Loading(p)' <=> Loading(p)) /\ HeaderError' = HeaderError
<1>1. Loading(p)' <=> Loading(p)
  BY DEF Loading, FilesOf
<1>2. HeaderError' = HeaderError
  BY DEF HeaderError, MmeSize, ObjSize, CodeEnd, ExportsEnd, ExportsAt, HeaderWord, WordAt
<1> QED
  BY <1>1, <1>2

\* A failing load of whole files is one of the disk or of the memory.
LEMMA FailedStage ==
  ASSUME NEW p, LoadingStage(p), NEW error, NEW got, NEW freed, Fail(error, got, freed),
         error # "OK", case.files = "whole" => error \in {"IO", "ALLOC"}
  PROVE  LoadingStage(p)'
<1>1. at' = "done" /\ result' = error /\ case' = case
  BY DEF Fail
<1>2. Loading(p)'
  BY <1>1, CaseKept DEF LoadingStage
<1>3. AtEnd(p)'
  BY <1>1 DEF AtEnd
<1> QED
  BY <1>1, <1>2, <1>3 DEF LoadingStage, Stage

Fits(p) == GoodProgram(p) /\ EndsInPage(p)

\* Reading the files keeps the load right.
LEMMA FilesStage ==
  ASSUME NEW p, LoadingStage(p), CannotRead \/ ReadFiles
  PROVE  LoadingStage(p)'
<1>1. CASE CannotRead
  <2>1. PICK got : Fail("IO", got, Files)
    BY <1>1 DEF CannotRead
  <2> QED
    BY <2>1, FailedStage
<1>2. CASE ReadFiles
  <2>1. at = "files" /\ at' = "header" /\ case' = case /\ UNCHANGED <<module, proc, image>>
    BY <1>2 DEF ReadFiles, GoOn
  <2>2. NothingRead(p)
    BY <2>1 DEF LoadingStage, Stage
  <2>3. NothingRead(p)'
    BY <2>1, <2>2 DEF NothingRead
  <2>4. Loading(p)'
    BY <2>1, CaseKept DEF LoadingStage
  <2> QED
    BY <2>1, <2>3, <2>4 DEF LoadingStage, Stage
<1> QED
  BY <1>1, <1>2

\* So do the checks of the header,
LEMMA HeaderStage ==
  ASSUME NEW p, GoodProgram(p), LoadingStage(p), RejectHeader \/ AcceptHeader
  PROVE  LoadingStage(p)'
<1>1. CASE RejectHeader
  <2>1. HeaderError # "none" /\ Fail(HeaderError, {}, OfImage \union Files)
    BY <1>1 DEF RejectHeader, FailLoad
  <2>2. HeaderError # "OK"
    BY DEF HeaderError
  <2>3. case.files # "whole"
    <3>1. SUFFICES ASSUME case.files = "whole" PROVE FALSE
      OBVIOUS
    <3>2. FilesOf(p) /\ case.mme = Mme(p) /\ case.obj = Obj(p)
      BY <3>1 DEF LoadingStage, Loading
    <3>3. HeaderError = "none"
      BY <3>2, WholeHeader
    <3> QED
      BY <2>1, <3>3
  <2> DEFINE e == HeaderError
  <2>4. Fail(e, {}, OfImage \union Files) /\ e # "OK"
    BY <2>1, <2>2
  <2> HIDE DEF e
  <2> QED
    BY <2>3, <2>4, FailedStage
<1>2. CASE AcceptHeader
  <2>1. at = "header" /\ at' = "globals" /\ case' = case /\ UNCHANGED <<module, proc, image>>
        /\ HeaderError = "none"
    BY <1>2 DEF AcceptHeader, GoOn
  <2>2. NothingRead(p)
    BY <2>1 DEF LoadingStage, Stage
  <2>3. NothingRead(p)'
    BY <2>1, <2>2 DEF NothingRead
  <2>4. Loading(p)' /\ HeaderError' = "none"
    BY <2>1, CaseKept DEF LoadingStage
  <2> QED
    BY <2>1, <2>3, <2>4 DEF LoadingStage, Stage
<1> QED
  BY <1>1, <1>2

\* the globals and the table of offsets,
LEMMA GlobalsStage ==
  ASSUME NEW p, GoodProgram(p), LoadingStage(p), ReadGlobals \/ ReadOffsets
  PROVE  LoadingStage(p)'
<1>1. CASE ReadGlobals
  <2> DEFINE globals == [m \in 1 .. Count |-> WordsAt(ModuleGlobalsAt(m), ModuleGlobalCount(m))]
             x == WordsAt(ProgramGlobalsAt, ProgramGlobalCount)
  <2>1. /\ at = "globals" /\ at' = "offsets" /\ case' = case /\ UNCHANGED <<module, proc>>
        /\ image' = [image EXCEPT !.count = Count, !.globals = x, !.moduleGlobals = globals]
    BY <1>1 DEF ReadGlobals, GoOn
  <2>2. NothingRead(p) /\ HeaderError = "none" /\ Loading(p) /\ FilesOf(p)
    BY <2>1 DEF LoadingStage, Stage, Loading
  <2>3. Count = Len(p.modules) /\ x = p.globals
    BY <2>2, TablesRight DEF TablesSay
  <2>4. globals = GlobalsTables(p)
    <3>1. \A m \in 1 .. Len(p.modules) :
            WordsAt(ModuleGlobalsAt(m), ModuleGlobalCount(m)) = p.modules[m].globals
      BY <2>2, GlobalsRight DEF GlobalsSay
    <3> QED
      BY <2>3, <3>1 DEF GlobalsTables
  <2>5. image = NoImage
    BY <2>2 DEF NothingRead
  <2> HIDE DEF globals, x
  <2>6. image' \in [count : {Count}, globals : {x}, moduleGlobals : {globals},
                    modules : {<< >>}, ram : {<< >>}]
    BY <2>1, <2>5 DEF NoImage
  <2>7. ImageOf(p, << >>, << >>)'
    BY <2>3, <2>4, <2>6 DEF ImageOf, Images
  <2>8. Loading(p)' /\ HeaderError' = "none"
    BY <2>1, <2>2, CaseKept
  <2>9. module' = 1 /\ proc' = 1
    BY <2>1, <2>2 DEF NothingRead
  <2> QED
    BY <2>1, <2>7, <2>8, <2>9 DEF LoadingStage, Stage
<1>2. CASE ReadOffsets
  <2>1. at = "offsets" /\ at' = "module" /\ case' = case /\ UNCHANGED <<module, proc, image>>
    BY <1>2 DEF ReadOffsets, GoOn
  <2>2. ImageOf(p, << >>, << >>) /\ module = 1 /\ proc = 1 /\ HeaderError = "none" /\ Loading(p)
    BY <2>1 DEF LoadingStage, Stage
  <2>3. image.modules = << >>
    BY <2>2 DEF ImageOf, Images
  <2>4. ModulesTo(p, << >>, 0) /\ Len(p.modules) \in Nat
    BY EmptySeq, WrittenModulesAre DEF ModulesTo
  <2>5. InModules(p)
    <3>1. module - 1 = 0 /\ module \in 1 .. Len(p.modules) + 1
      BY <2>2, <2>4
    <3> QED
      BY <2>2, <2>3, <2>4, <3>1 DEF InModules
  <2>6. InModules(p)'
    BY <2>1, <2>5 DEF InModules, ImageOf
  <2>7. Loading(p)' /\ HeaderError' = "none"
    BY <2>1, <2>2, CaseKept
  <2> QED
    BY <2>1, <2>6, <2>7 DEF LoadingStage, Stage
<1> QED
  BY <1>1, <1>2

\* An image to which modules are added is that of the program with more modules.
LEMMA ImageGrows ==
  ASSUME NEW p, NEW x, NEW s, NEW r, NEW t, x \in Images(p, s, r)
  PROVE  /\ [x EXCEPT !.modules = t] \in Images(p, t, r) /\ [x EXCEPT !.modules = t].modules = t
         /\ [x EXCEPT !.ram = t] \in Images(p, s, t) /\ [x EXCEPT !.ram = t].ram = t
         /\ x.modules = s /\ x.ram = r
<1>1. x \in [count : {Len(p.modules)}, globals : {p.globals},
             moduleGlobals : {GlobalsTables(p)}, modules : {s}, ram : {r}]
  BY DEF Images
<1> DEFINE y == [x EXCEPT !.modules = t]
           z == [x EXCEPT !.ram = t]
<1>2. y \in [count : {Len(p.modules)}, globals : {p.globals},
             moduleGlobals : {GlobalsTables(p)}, modules : {t}, ram : {r}]
  BY <1>1
<1>3. z \in [count : {Len(p.modules)}, globals : {p.globals},
             moduleGlobals : {GlobalsTables(p)}, modules : {s}, ram : {t}]
  BY <1>1
<1> HIDE DEF y, z
<1>4. y.modules = t /\ z.ram = t /\ x.modules = s /\ x.ram = r
  BY <1>1, <1>2, <1>3
<1> QED
  BY <1>2, <1>3, <1>4 DEF Images, y, z

\* An image with other modules is still an image.
LEMMA ImageWith ==
  ASSUME NEW p, NEW x, NEW s, NEW r, NEW t, x \in Images(p, s, r),
         NEW y, y = [x EXCEPT !.modules = t]
  PROVE  y \in Images(p, t, r) /\ y.modules = t
BY ImageGrows, ZenonT(60)

\* What the loader meets in a module of an accepted file
ModuleFits(p, m) ==
  /\ Count = Len(p.modules) /\ Len(p.modules) \in Nat
  /\ ModuleAt(m) = ModuleStart(p, m)
  /\ ModuleLength(m) = ModuleStop(p, m) - ModuleStart(p, m)
  /\ ModuleAt(m) <= ModuleEnd(m) /\ ModuleEnd(m) <= ObjSize
  /\ Exports(m) = Len(p.modules[m].exports) /\ Exports(m) \in Nat

\* The module's bytes and exports are in an accepted file, so none of its errors occurs.
LEMMA ModuleFound ==
  ASSUME NEW p, GoodProgram(p), FilesOf(p), HeaderError = "none", NEW m \in 1 .. Len(p.modules)
  PROVE  ModuleFits(p, m)
<1>1. /\ Count = Len(p.modules) /\ ModuleAt(m) = ModuleStart(p, m)
      /\ ModuleEnd(m) = ModuleStop(p, m)
  BY TablesRight DEF TablesSay
<1>2. ModuleAt(m) <= ModuleEnd(m) /\ ModuleEnd(m) <= ObjSize
  BY CodeOfModule
<1>3. Exports(m) = Len(p.modules[m].exports)
  BY ExportsRight DEF ExportsSay
<1>4. Len(p.modules[m].exports) \in Nat
  <2>1. GoodModule(p.modules[m])
    BY DEF GoodProgram
  <2> QED
    BY <2>1, ExportTableIs
<1>5. Len(p.modules) \in Nat
  BY WrittenModulesAre
<1> QED
  BY <1>1, <1>2, <1>3, <1>4, <1>5 DEF ModuleFits, ModuleLength

\* the start of a module,
LEMMA ModuleStage ==
  ASSUME NEW p, GoodProgram(p), LoadingStage(p), SpanInvalid \/ BeginModule \/ CannotReadModule
  PROVE  LoadingStage(p)'
<1>1. at = "module" /\ module <= Count
  BY DEF SpanInvalid, BeginModule, CannotReadModule
<1>2. InModules(p) /\ HeaderError = "none" /\ Loading(p) /\ FilesOf(p)
  BY <1>1 DEF LoadingStage, Stage, Loading
<1>3. /\ module \in 1 .. Len(p.modules) + 1 /\ proc = 1
      /\ ModulesTo(p, image.modules, module - 1) /\ image \in Images(p, image.modules, << >>)
  BY <1>2 DEF InModules, ImageOf
<1>4. Count = Len(p.modules) /\ Len(p.modules) \in Nat
  BY <1>2, TablesRight, WrittenModulesAre DEF TablesSay
<1>5. module \in 1 .. Len(p.modules)
  BY <1>1, <1>3, <1>4
<1>6. ModuleFits(p, module)
  BY <1>2, <1>5, ModuleFound
<1>7. SpanOk
  BY <1>6 DEF ModuleFits, SpanOk
<1>8. ~ SpanInvalid
  BY <1>7 DEF SpanInvalid
<1>9. CASE BeginModule
  <2> DEFINE s == image.modules
             x == [at |-> ModuleAt(module), length |-> ModuleLength(module), procs |-> << >>]
             t == Append(s, x)
  <2>1. /\ image' = [image EXCEPT !.modules = t] /\ proc' = proc /\ case' = case
        /\ IF Exports(module) = 0 THEN at' = "module" /\ module' = module + 1
                                  ELSE at' = "procedure" /\ module' = module
    <3>1. image' = [image EXCEPT !.modules = Append(@, x)] /\ proc' = proc
      BY <1>9 DEF BeginModule
    <3>2. [image EXCEPT !.modules = Append(@, x)] = [image EXCEPT !.modules = t]
      OBVIOUS
    <3>3. /\ case' = case
          /\ IF Exports(module) = 0 THEN at' = "module" /\ module' = module + 1
                                    ELSE at' = "procedure" /\ module' = module
      BY <1>9 DEF BeginModule, GoOn
    <3> HIDE DEF x, t
    <3> QED
      BY <3>1, <3>2, <3>3
  <2>2. /\ ModuleTo(p, t, module, 0)
        /\ Len(p.modules[module].exports) = 0 => ModulesTo(p, t, module)
    <3>1. x = [at |-> ModuleStart(p, module),
               length |-> ModuleStop(p, module) - ModuleStart(p, module), procs |-> << >>]
      BY <1>6 DEF ModuleFits
    <3> HIDE DEF s, x
    <3> QED
      BY <1>3, <1>5, <3>1, ModuleBegun DEF s
  <2> HIDE DEF t
  <2>3. image' \in Images(p, t, << >>) /\ image'.modules = t
    BY <1>3, <2>1, ImageGrows, ZenonT(60)
  <2>4. ImageOf(p, image.modules, << >>)' /\ image.modules' = t
    BY <2>3 DEF ImageOf
  <2>5. Loading(p)' /\ HeaderError' = "none"
    BY <1>2, <2>1, CaseKept
  <2>6. CASE Exports(module) = 0
    <3>1. at' = "module" /\ module' = module + 1 /\ proc' = 1
      BY <1>3, <2>1, <2>6
    <3>2. module' - 1 = module /\ module' \in 1 .. Len(p.modules) + 1
      BY <1>4, <1>5, <3>1
    <3>3. ModulesTo(p, t, module)
      BY <1>6, <2>2, <2>6 DEF ModuleFits
    <3>4. InModules(p)'
      BY <2>4, <3>1, <3>2, <3>3 DEF InModules
    <3> QED
      BY <2>5, <3>1, <3>4 DEF LoadingStage, Stage
  <2>7. CASE Exports(module) # 0
    <3>1. at' = "procedure" /\ module' = module /\ proc' = 1 /\ proc' - 1 = 0
      BY <1>3, <2>1, <2>7
    <3>2. proc' \in 1 .. Len(p.modules[module].exports) + 1
      BY <1>6, <3>1 DEF ModuleFits
    <3>3. InProcedures(p)'
      BY <1>5, <2>2, <2>4, <3>1, <3>2 DEF InProcedures
    <3> QED
      BY <2>5, <3>1, <3>3 DEF LoadingStage, Stage
  <2> QED
    BY <2>6, <2>7
<1>10. CASE CannotReadModule
  <2>1. \E got, freed : Fail("IO", got, freed)
    BY <1>10 DEF CannotReadModule, FailModules
  <2> QED
    BY <2>1, FailedStage
<1> QED
  BY <1>8, <1>9, <1>10

\* The export the loader is at
LEMMA ProcedureMet ==
  ASSUME NEW p, GoodProgram(p), LoadingStage(p), at = "procedure"
  PROVE  /\ InProcedures(p) /\ HeaderError = "none" /\ Loading(p) /\ FilesOf(p)
         /\ ModuleFits(p, module)
         /\ proc <= Exports(module) =>
              /\ proc \in 1 .. Len(p.modules[module].exports)
              /\ ProcRead(module, proc, WrittenProc(p.modules[module], p.modules[module].exports[proc]))
              /\ ~ OutOfRange /\ Parsed.ok
<1>1. InProcedures(p) /\ HeaderError = "none" /\ Loading(p) /\ FilesOf(p)
  BY DEF LoadingStage, Stage, Loading
<1>2. module \in 1 .. Len(p.modules) /\ proc \in 1 .. Len(p.modules[module].exports) + 1
  BY <1>1 DEF InProcedures
<1>3. ModuleFits(p, module)
  BY <1>1, <1>2, ModuleFound
<1>4. ASSUME proc <= Exports(module)
      PROVE  /\ proc \in 1 .. Len(p.modules[module].exports)
             /\ ProcRead(module, proc, WrittenProc(p.modules[module], p.modules[module].exports[proc]))
             /\ ~ OutOfRange /\ Parsed.ok
  <2> DEFINE n == Len(p.modules[module].exports)
  <2>1. Exports(module) = n /\ n \in Nat /\ proc \in 1 .. n + 1
    BY <1>2, <1>3 DEF ModuleFits
  <2> HIDE DEF n
  <2>2. proc \in 1 .. n
    BY <1>4, <2>1
  <2>3. ProcRead(module, proc, WrittenProc(p.modules[module], p.modules[module].exports[proc]))
    BY <1>1, <1>2, <2>2, ProceduresRight DEF n
  <2>4. ExportOffset(module, proc) < ModuleLength(module) /\ HeaderOf(module, proc).ok
        /\ ExportOffset(module, proc)
             = WrittenProc(p.modules[module], p.modules[module].exports[proc]).start
    BY <2>3 DEF ProcRead
  <2>5. ExportOffset(module, proc) \in Nat /\ ModuleLength(module) \in Nat
    <3> DEFINE k == p.modules[module]
    <3>1. GoodModule(k)
      BY <1>2 DEF GoodProgram
    <3>2. LaidOut(k).starts[k.exports[proc]] \in Nat
      BY <2>2, <3>1, ExportTableIs DEF n
    <3>3. ExportOffset(module, proc) \in Nat
      BY <2>4, <3>2 DEF WrittenProc
    <3> QED
      BY <1>1, <1>2, <3>3, CodeOfModule
  <2>6. ~ OutOfRange
    BY <2>4, <2>5 DEF OutOfRange
  <2>7. Parsed.ok
    BY <2>4 DEF Parsed, HeaderOf
  <2> QED
    BY <2>2, <2>3, <2>6, <2>7 DEF n
<1> QED
  BY <1>1, <1>3, <1>4

\* each of its procedures,
LEMMA ProcedureStage ==
  ASSUME NEW p, GoodProgram(p), LoadingStage(p),
         ProcedureOutOfRange \/ HeaderTruncated \/ ReadProcedure
  PROVE  LoadingStage(p)'
<1>1. at = "procedure" /\ proc <= Exports(module)
  BY DEF ProcedureOutOfRange, HeaderTruncated, ReadProcedure
<1> DEFINE k == p.modules[module]
           w == WrittenProc(k, k.exports[proc])
<1>2. /\ InProcedures(p) /\ HeaderError = "none" /\ Loading(p)
      /\ proc \in 1 .. Len(k.exports) /\ ProcRead(module, proc, w)
      /\ ~ OutOfRange /\ Parsed.ok
  BY <1>1, ProcedureMet
<1>3. ReadProcedure
  BY <1>2 DEF ProcedureOutOfRange, HeaderTruncated
<1>4. /\ module \in 1 .. Len(p.modules) /\ ModuleTo(p, image.modules, module, proc - 1)
      /\ image \in Images(p, image.modules, << >>)
  BY <1>2 DEF InProcedures, ImageOf
<1> DEFINE x == [start  |-> ExportOffset(module, proc),
                 code   |-> (ExportOffset(module, proc) + Parsed.size) % 65536,
                 locals |-> Parsed.locals, inits |-> Parsed.inits]
           s == image.modules
           t == [s EXCEPT ![module].procs = Append(@, x)]
<1>5. x = w
  <2>1. /\ ExportOffset(module, proc) = w.start
        /\ (ExportOffset(module, proc) + Parsed.size) % 65536 = w.code
        /\ Parsed.locals = w.locals /\ Parsed.inits = w.inits
    BY <1>2 DEF ProcRead, HeaderOf, Parsed
  <2>2. w = [start |-> w.start, code |-> w.code, locals |-> w.locals, inits |-> w.inits]
    BY DEF WrittenProc
  <2> HIDE DEF w
  <2> QED
    BY <2>1, <2>2
<1>6. /\ at' = "procedure" /\ case' = case /\ proc' = proc + 1 /\ module' = module
      /\ image' = [image EXCEPT !.modules[module].procs = Append(@, x)]
  BY <1>3 DEF ReadProcedure, GoOn
<1> HIDE DEF x
<1>7. [image EXCEPT !.modules[module].procs = Append(@, x)] = [image EXCEPT !.modules = t]
  OBVIOUS
<1>8. ModuleTo(p, t, module, proc)
  <2>1. proc \in Nat \ {0} /\ proc <= Len(k.exports)
    <3> DEFINE n == Len(k.exports)
    <3>1. proc \in 1 .. n /\ n \in Nat
      <4>1. GoodModule(k)
        BY <1>4 DEF GoodProgram
      <4> QED
        BY <1>2, <4>1, ExportTableIs
    <3> HIDE DEF n
    <3>2. proc \in Nat \ {0} /\ proc <= n
      BY <3>1
    <3> QED
      BY <3>2 DEF n
  <2> HIDE DEF s
  <2> QED
    BY <1>4, <1>5, <2>1, ProcedureAdded DEF s
<1> HIDE DEF t
<1>9. image' \in Images(p, t, << >>) /\ image'.modules = t
  <2> DEFINE y == [image EXCEPT !.modules = t]
             z == << >>
  <2>1. image \in Images(p, s, z)
    BY <1>4
  <2>2. y \in Images(p, t, z) /\ y.modules = t
    <3>1. y = [image EXCEPT !.modules = t]
      OBVIOUS
    <3> HIDE DEF y
    <3> QED
      BY <2>1, <3>1, ImageWith
  <2>3. image' = y
    BY <1>6, <1>7
  <2> HIDE DEF y
  <2> QED
    BY <2>2, <2>3 DEF z
<1>10. ImageOf(p, image.modules, << >>)' /\ image.modules' = t
  BY <1>9 DEF ImageOf
<1>11. proc' - 1 = proc /\ proc' \in 1 .. Len(k.exports) + 1
  <2> DEFINE n == Len(k.exports)
  <2>1. proc \in 1 .. n /\ n \in Nat
    <3>1. GoodModule(k)
      BY <1>4 DEF GoodProgram
    <3> QED
      BY <1>2, <3>1, ExportTableIs
  <2> HIDE DEF n
  <2>2. proc' - 1 = proc /\ proc' \in 1 .. n + 1
    BY <1>6, <2>1
  <2> QED
    BY <2>2 DEF n
<1>12. InProcedures(p)'
  BY <1>4, <1>6, <1>8, <1>10, <1>11 DEF InProcedures
<1>13. Loading(p)' /\ HeaderError' = "none"
  BY <1>2, <1>6, CaseKept
<1> QED
  BY <1>6, <1>12, <1>13 DEF LoadingStage, Stage

\* its end, and the end of the modules,
LEMMA EndStage ==
  ASSUME NEW p, GoodProgram(p), LoadingStage(p), EndModule \/ EndModules
  PROVE  LoadingStage(p)'
<1>1. CASE EndModule
  <2>1. /\ at = "procedure" /\ proc > Exports(module) /\ at' = "module" /\ case' = case
        /\ module' = module + 1 /\ proc' = 1 /\ image' = image
    BY <1>1 DEF EndModule
  <2>2. InProcedures(p) /\ HeaderError = "none" /\ Loading(p) /\ ModuleFits(p, module)
    BY <2>1, ProcedureMet
  <2> DEFINE n == Len(p.modules[module].exports)
  <2>3. /\ module \in 1 .. Len(p.modules) /\ proc \in 1 .. n + 1
        /\ ModuleTo(p, image.modules, module, proc - 1)
        /\ ImageOf(p, image.modules, << >>)
    BY <2>2 DEF InProcedures
  <2>4. Exports(module) = n /\ n \in Nat /\ Len(p.modules) \in Nat
    BY <2>2 DEF ModuleFits
  <2> HIDE DEF n
  <2>5. proc - 1 = n
    BY <2>1, <2>3, <2>4
  <2>6. ModulesTo(p, image.modules, module)
    BY <2>3, <2>5, ModuleEnded DEF n
  <2>7. module' - 1 = module /\ module' \in 1 .. Len(p.modules) + 1
    BY <2>1, <2>3, <2>4
  <2>8. ImageOf(p, image.modules, << >>)'
    BY <2>1, <2>3 DEF ImageOf
  <2>9. InModules(p)'
    BY <2>1, <2>6, <2>7, <2>8 DEF InModules
  <2>10. Loading(p)' /\ HeaderError' = "none"
    BY <2>1, <2>2, CaseKept
  <2> QED
    BY <2>1, <2>9, <2>10 DEF LoadingStage, Stage
<1>2. CASE EndModules
  <2>1. /\ at = "module" /\ module > Count /\ at' = "ram" /\ case' = case /\ image' = image
    BY <1>2 DEF EndModules
  <2>2. InModules(p) /\ HeaderError = "none" /\ Loading(p) /\ FilesOf(p)
    BY <2>1 DEF LoadingStage, Stage, Loading
  <2>3. /\ module \in 1 .. Len(p.modules) + 1
        /\ ModulesTo(p, image.modules, module - 1) /\ ImageOf(p, image.modules, << >>)
    BY <2>2 DEF InModules
  <2>4. Count = Len(p.modules) /\ Len(p.modules) \in Nat
    BY <2>2, TablesRight, WrittenModulesAre DEF TablesSay
  <2>5. module - 1 = Len(p.modules)
    BY <2>1, <2>3, <2>4
  <2>6. image.modules = WrittenModules(p)
    BY <2>3, <2>5, AllModules
  <2>7. ImageOf(p, WrittenModules(p), << >>)'
    BY <2>1, <2>3, <2>6 DEF ImageOf
  <2>8. Loading(p)' /\ HeaderError' = "none"
    BY <2>1, <2>2, CaseKept
  <2> QED
    BY <2>1, <2>7, <2>8 DEF LoadingStage, Stage
<1> QED
  BY <1>1, <1>2

\* the RAM,
LEMMA RamStage ==
  ASSUME NEW p, Fits(p), LoadingStage(p), RejectRam \/ CopyRam
  PROVE  LoadingStage(p)'
<1>1. at = "ram"
  BY DEF RejectRam, CopyRam
<1>2. ImageOf(p, WrittenModules(p), << >>) /\ HeaderError = "none" /\ Loading(p) /\ FilesOf(p)
  BY <1>1 DEF LoadingStage, Stage, Loading
<1> DEFINE r == WordsAt(RamStart, RamBytes \div 2)
<1>3. /\ ~ RamTruncated => r \in {p.ram, HalfOf(p.ram)}
      /\ case.mme = Mme(p) => ~ RamTruncated /\ r = p.ram
  BY <1>2, RamRight DEF RamIs, Fits
<1>4. CASE RejectRam
  <2>1. RamTruncated /\ \E got, freed : Fail("INITIAL_RAM_TRUNCATED", got, freed)
    BY <1>4 DEF RejectRam, FailLoad
  <2>2. case.files # "whole"
    BY <1>2, <1>3, <2>1 DEF Loading
  <2> QED
    BY <2>1, <2>2, FailedStage
<1>5. CASE CopyRam
  <2>1. /\ ~ RamTruncated /\ at' = "entry" /\ case' = case
        /\ image' = [image EXCEPT !.ram = r]
    BY <1>5 DEF CopyRam, GoOn
  <2> HIDE DEF r
  <2>2. image' \in Images(p, WrittenModules(p), r) /\ image'.ram = r
    <3> DEFINE y == [image EXCEPT !.ram = r]
               z == << >>
               w == WrittenModules(p)
    <3>1. image \in Images(p, w, z)
      BY <1>2 DEF ImageOf
    <3> HIDE DEF w, z
    <3>2. y \in Images(p, w, r) /\ y.ram = r
      BY <3>1, ImageGrows, ZenonT(60)
    <3> HIDE DEF y
    <3> QED
      BY <2>1, <3>2 DEF y, w
  <2>3. r \in {p.ram, HalfOf(p.ram)} /\ (case.files = "whole" => r = p.ram)
    BY <1>2, <1>3, <2>1 DEF Loading
  <2>4. Loaded(p)'
    BY <2>1, <2>2, <2>3 DEF Loaded, ImageOf
  <2>5. Loading(p)' /\ HeaderError' = "none"
    BY <1>2, <2>1, CaseKept
  <2> QED
    BY <2>1, <2>4, <2>5 DEF LoadingStage, Stage
<1> QED
  BY <1>4, <1>5

\* the entry,
LEMMA EntryStage ==
  ASSUME NEW p, GoodProgram(p), LoadingStage(p), RejectEntry \/ Accept
  PROVE  LoadingStage(p)'
<1>1. at = "entry"
  BY DEF RejectEntry, Accept
<1>2. Loaded(p) /\ HeaderError = "none" /\ Loading(p) /\ FilesOf(p)
  BY <1>1 DEF LoadingStage, Stage, Loading
<1>3. EntryInRange
  <2> DEFINE m == p.entry[1]
             e == p.entry[2]
             k == p.modules[m]
  <2>1. EntryModule = m /\ EntryProcedure = e
    BY <1>2, HeaderRight DEF HeaderSays
  <2>2. m \in 1 .. Len(p.modules) /\ e < Len(k.exports)
    BY DEF GoodProgram
  <2>3. Count = Len(p.modules)
    BY <1>2, TablesRight DEF TablesSay
  <2>4. image.modules = WrittenModules(p)
    <3> DEFINE w == WrittenModules(p)
               r == image.ram
    <3>1. image \in Images(p, w, r)
      BY <1>2 DEF Loaded, ImageOf
    <3> HIDE DEF w, r
    <3>2. image.modules = w
      BY <3>1, ImageGrows, ZenonT(60)
    <3> QED
      BY <3>2 DEF w
  <2>5. image.modules[m] = WrittenModule(p, m)
    BY <2>2, <2>4, WrittenModulesAre
  <2>6. image.modules[m].procs = WrittenProcs(k)
    BY <2>5 DEF WrittenModule
  <2>7. Len(WrittenProcs(k)) = Len(k.exports)
    <3>1. GoodModule(k)
      BY <2>2 DEF GoodProgram
    <3> QED
      BY <3>1, WrittenProcsAre
  <2> QED
    BY <2>1, <2>2, <2>3, <2>6, <2>7 DEF EntryInRange
<1>4. Accept
  BY <1>3 DEF RejectEntry
<1>5. at' = "done" /\ result' = "OK" /\ case' = case /\ image' = image
  BY <1>4 DEF Accept
<1>6. Loaded(p)'
  BY <1>2, <1>5 DEF Loaded, ImageOf
<1>7. AtEnd(p)'
  BY <1>5, <1>6 DEF AtEnd
<1>8. Loading(p)'
  BY <1>2, <1>5, CaseKept
<1> QED
  BY <1>5, <1>7, <1>8 DEF LoadingStage, Stage

\* an allocation that fails at any of these,
LEMMA AllocStage ==
  ASSUME NEW p, LoadingStage(p), AllocFails
  PROVE  LoadingStage(p)'
<1>1. \E got, freed : Fail("ALLOC", got, freed)
  BY DEF AllocFails, FailLoad, FailModules, FailProcedure
<1> QED
  BY <1>1, FailedStage

\* and a step of something else.
LEMMA StandingStage ==
  ASSUME NEW p, LoadingStage(p), UNCHANGED vars
  PROVE  LoadingStage(p)'
<1>1. /\ case' = case /\ at' = at /\ module' = module /\ proc' = proc /\ image' = image
      /\ result' = result
  BY DEF vars
<1>2. (Loading(p)' <=> Loading(p)) /\ HeaderError' = HeaderError
  BY <1>1, CaseKept
<1>3. /\ NothingRead(p)' <=> NothingRead(p)
      /\ InModules(p)' <=> InModules(p)
      /\ InProcedures(p)' <=> InProcedures(p)
      /\ Loaded(p)' <=> Loaded(p)
      /\ AtEnd(p)' <=> AtEnd(p)
      /\ ImageOf(p, << >>, << >>)' <=> ImageOf(p, << >>, << >>)
      /\ ImageOf(p, WrittenModules(p), << >>)' <=> ImageOf(p, WrittenModules(p), << >>)
  BY <1>1 DEF NothingRead, InModules, InProcedures, Loaded, AtEnd, ImageOf
<1> QED
  BY <1>1, <1>2, <1>3 DEF LoadingStage, Stage

\* No program's export tables end where a page does, but for which a page of
\* zeros is loaded instead of the RAM.
TablesEndInPages == \A p \in Programs : EndsInPage(p)

\* What the loader does of a case: it is damaged, or at some stage of a program
LoadsRight == case.files = "damaged" \/ \E p \in Programs : LoadingStage(p)

\* Files that are not damaged are those of a program.
LEMMA LoadingFound ==
  ASSUME case \in Cases, case.files # "damaged"
  PROVE  \E p \in Programs : Loading(p)
<1>1. /\ case.mme \in Seq(Words16) /\ case.obj \in Seq(0 .. 255)
      /\ \E p \in Programs :
           /\ case.written = Written(p)
           /\ \/ case.files = "whole" /\ case.mme = Mme(p) /\ case.obj = Obj(p)
              \/ case.files = "cut" /\ IsPrefix(case.mme, Mme(p)) /\ IsPrefix(case.obj, Obj(p))
  BY CasesAssumption
<1>2. PICK p \in Programs :
        /\ case.written = Written(p)
        /\ \/ case.files = "whole" /\ case.mme = Mme(p) /\ case.obj = Obj(p)
           \/ case.files = "cut" /\ IsPrefix(case.mme, Mme(p)) /\ IsPrefix(case.obj, Obj(p))
  BY <1>1
<1>3. case.mme \in Seq(Nat) /\ case.obj \in Seq(Nat)
  <2> DEFINE B == 0 .. 255
  <2>1. B \subseteq Nat
    OBVIOUS
  <2> HIDE DEF B
  <2>2. Seq(B) \subseteq Seq(Nat)
    BY <2>1, SequencesOfMore
  <2>3. case.mme \in Seq(Words16) /\ case.obj \in Seq(B)
    BY <1>1 DEF B
  <2> QED
    BY <2>2, <2>3, WordsAreNat
<1>4. IsPrefix(case.mme, Mme(p)) /\ IsPrefix(case.obj, Obj(p))
  <2>1. \A x : x \in Seq(Nat) => IsPrefix(x, x)
    <3>1. ASSUME NEW x \in Seq(Nat) PROVE IsPrefix(x, x)
      <4> DEFINE n == Len(x)
      <4>1. n \in Nat
        BY LenProperties
      <4> HIDE DEF n
      <4>2. n <= n
        BY <4>1
      <4> QED
        BY <4>2 DEF IsPrefix, n
    <3> QED
      BY <3>1
  <2> QED
    BY <1>2, <1>3, <2>1
<1>5. Loading(p)
  BY <1>2, <1>3, <1>4 DEF Loading, FilesOf
<1> QED
  BY <1>2, <1>5

\* A load begins right,
LEMMA LoadsRightFirst ==
  ASSUME Init
  PROVE  LoadsRight
<1>1. case \in Cases /\ at = "files" /\ module = 1 /\ proc = 1 /\ image = NoImage
  BY DEF Init
<1>2. CASE case.files = "damaged"
  BY <1>2 DEF LoadsRight
<1>3. CASE case.files # "damaged"
  <2>1. PICK p \in Programs : Loading(p)
    BY <1>1, <1>3, LoadingFound
  <2>2. Stage(p)
    BY <1>1 DEF Stage, NothingRead
  <2> QED
    BY <2>1, <2>2 DEF LoadsRight, LoadingStage
<1> QED
  BY <1>2, <1>3

\* goes on right with every step,
LEMMA LoadsRightNext ==
  ASSUME TablesEndInPages, LoadsRight, [Next]_vars
  PROVE  LoadsRight'
<1>1. case' = case
  BY DEF Next, CannotRead, ReadFiles, RejectHeader, AcceptHeader, ReadGlobals, ReadOffsets,
         SpanInvalid, BeginModule, CannotReadModule, ProcedureOutOfRange, HeaderTruncated,
         ReadProcedure, EndModule, EndModules, RejectRam, CopyRam, RejectEntry, Accept,
         AllocFails, Done, vars, FailLoad, FailModules, FailProcedure, Fail, GoOn
<1>2. CASE case.files = "damaged"
  BY <1>1, <1>2 DEF LoadsRight
<1>3. CASE case.files # "damaged"
  <2>1. PICK p \in Programs : LoadingStage(p)
    BY <1>3 DEF LoadsRight
  <2>2. GoodProgram(p) /\ Fits(p)
    BY ProgramsAreGood DEF TablesEndInPages, Fits
  <2>3. LoadingStage(p)'
    <3>1. CASE CannotRead \/ ReadFiles
      BY <2>1, <3>1, FilesStage
    <3>2. CASE RejectHeader \/ AcceptHeader
      BY <2>1, <2>2, <3>2, HeaderStage
    <3>3. CASE ReadGlobals \/ ReadOffsets
      BY <2>1, <2>2, <3>3, GlobalsStage
    <3>4. CASE SpanInvalid \/ BeginModule \/ CannotReadModule
      BY <2>1, <2>2, <3>4, ModuleStage
    <3>5. CASE ProcedureOutOfRange \/ HeaderTruncated \/ ReadProcedure
      BY <2>1, <2>2, <3>5, ProcedureStage
    <3>6. CASE EndModule \/ EndModules
      BY <2>1, <2>2, <3>6, EndStage
    <3>7. CASE RejectRam \/ CopyRam
      BY <2>1, <2>2, <3>7, RamStage
    <3>8. CASE RejectEntry \/ Accept
      BY <2>1, <2>2, <3>8, EntryStage
    <3>9. CASE AllocFails
      BY <2>1, <3>9, AllocStage
    <3>10. CASE Done \/ UNCHANGED vars
      BY <2>1, <3>10, StandingStage DEF Done
    <3> QED
      BY <3>1, <3>2, <3>3, <3>4, <3>5, <3>6, <3>7, <3>8, <3>9, <3>10 DEF Next
  <2> QED
    BY <2>3 DEF LoadsRight
<1> QED
  BY <1>2, <1>3

\* and so is right always.
LEMMA LoadsRightAlways ==
  ASSUME TablesEndInPages
  PROVE  Spec => []LoadsRight
<1>1. Init => LoadsRight
  BY LoadsRightFirst
<1>2. LoadsRight /\ [Next]_vars => LoadsRight'
  BY LoadsRightNext
<1> QED
  BY <1>1, <1>2, PTL DEF Spec

----------------------------------------------------------------------------

\* A load that is right at its end is what the two properties say.
LEMMA RightAtEnd ==
  ASSUME LoadsRight
  PROVE  WholeFilesLoad /\ CutFilesLoseOnlyRam
<1>1. SUFFICES ASSUME at = "done", case.files \in {"whole", "cut"}
               PROVE  WholeFilesLoad /\ CutFilesLoseOnlyRam
  BY DEF WholeFilesLoad, CutFilesLoseOnlyRam
<1>2. PICK p \in Programs : LoadingStage(p)
  BY <1>1 DEF LoadsRight
<1>3. GoodProgram(p)
  BY ProgramsAreGood
<1> DEFINE w == [count |-> Len(p.modules), globals |-> p.globals,
                 moduleGlobals |-> GlobalsTables(p), modules |-> WrittenModules(p),
                 ram |-> p.ram]
<1>4. Loading(p) /\ AtEnd(p) /\ case.written = w
  BY <1>1, <1>2, <1>3, WrittenIs DEF LoadingStage, Stage, Loading
<1>5. w.ram = p.ram
  OBVIOUS
<1>6. w \in Images(p, WrittenModules(p), p.ram)
  BY DEF Images
<1>7. ASSUME result = "OK"
      PROVE  /\ image.ram \in {p.ram, HalfOf(p.ram)} /\ (case.files = "whole" => image.ram = p.ram)
             /\ image = [w EXCEPT !.ram = image.ram]
  <2>1. /\ image.ram \in {p.ram, HalfOf(p.ram)} /\ (case.files = "whole" => image.ram = p.ram)
        /\ image \in Images(p, WrittenModules(p), image.ram)
    BY <1>4, <1>7 DEF AtEnd, Loaded, ImageOf
  <2> DEFINE r == image.ram
             v == [w EXCEPT !.ram = r]
  <2> HIDE DEF w, r
  <2>2. v \in Images(p, WrittenModules(p), r)
    BY <1>6, ImageGrows
  <2> HIDE DEF v
  <2>3. image = v
    BY <2>1, <2>2 DEF Images, r
  <2> QED
    BY <2>1, <2>3 DEF v, r
<1>8. WholeFilesLoad
  <2>1. ASSUME case.files = "whole", result = "OK" PROVE image = w
    <3>1. image \in Images(p, WrittenModules(p), p.ram)
      BY <1>4, <2>1 DEF AtEnd, Loaded, ImageOf
    <3> HIDE DEF w
    <3> QED
      BY <1>6, <3>1 DEF Images
  <2> HIDE DEF w
  <2> QED
    BY <1>4, <2>1 DEF WholeFilesLoad, AtEnd
<1>9. CutFilesLoseOnlyRam
  <2> HIDE DEF w
  <2> QED
    BY <1>4, <1>5, <1>7 DEF CutFilesLoseOnlyRam, HalfOf
<1> QED
  BY <1>8, <1>9

\* Whatever program Chisel assembles: lpst_image_load accepts its files, unless an
\* allocation fails or they cannot be read, and then the image holds the program's
\* globals, modules, procedures and RAM.
THEOREM WholeFilesAreLoaded ==
  ASSUME TablesEndInPages
  PROVE  Spec => []WholeFilesLoad
<1>1. LoadsRight => WholeFilesLoad
  BY RightAtEnd
<1> QED
  BY <1>1, LoadsRightAlways, PTL

\* Whatever program Chisel assembles, and wherever its files were cut: lpst_image_load
\* rejects them, or the image differs from the program's in nothing but the RAM, of which
\* it then holds the first half.
THEOREM CutFilesAreLoaded ==
  ASSUME TablesEndInPages
  PROVE  Spec => []CutFilesLoseOnlyRam
<1>1. LoadsRight => CutFilesLoseOnlyRam
  BY RightAtEnd
<1> QED
  BY <1>1, LoadsRightAlways, PTL

----------------------------------------------------------------------------
(* What lies inside the files *)

\* Where the records read from a cursor end, if they do
EndsInside(limit, h, c) ==
  \/ h = Truncated
  \/ h \in [ok : {TRUE}, inits : {h.inits}, end : c + 1 .. limit]

\* One record more ends no later than the module.
LEMMA ReadOnEnds ==
  ASSUME NEW code, NEW limit \in Nat, NEW c \in 0 .. limit, NEW read,
         \A d \in c + 1 .. limit : EndsInside(limit, read[d], d)
  PROVE  EndsInside(limit, ReadOn(code, limit, read, c), c)
<1> DEFINE next   == c + RecordSize(code, c)
           record == InitializerAt(code, c)
           first  == <<[local |-> record.local, value |-> record.value]>>
           h      == read[next]
<1>1. RecordSize(code, c) \in {2, 3}
  BY DEF RecordSize
<1>2. CASE c >= limit \/ next > limit
  <2>1. ReadOn(code, limit, read, c) = Truncated
    BY <1>2 DEF ReadOn
  <2> QED
    BY <2>1 DEF EndsInside
<1>3. CASE ~ (c >= limit \/ next > limit)
  <2>1. next \in c + 1 .. limit
    BY <1>1, <1>3
  <2>2. EndsInside(limit, h, next)
    BY <2>1
  <2>3. ReadOn(code, limit, read, c)
          = IF record.last THEN [ok |-> TRUE, inits |-> first, end |-> next]
            ELSE IF ~ h.ok THEN Truncated
            ELSE [h EXCEPT !.inits = first \o @]
    BY <1>3 DEF ReadOn
  <2> HIDE DEF next, record, first, h
  <2>4. CASE record.last
    BY <2>1, <2>3, <2>4 DEF EndsInside
  <2>5. CASE ~ record.last /\ ~ h.ok
    BY <2>3, <2>5 DEF EndsInside
  <2>6. CASE ~ record.last /\ h.ok
    <3> DEFINE g == [h EXCEPT !.inits = first \o @]
               a == h.inits
               i == first \o a
    <3>1. h \in [ok : {TRUE}, inits : {a}, end : next + 1 .. limit]
      <4>1. h # Truncated
        BY <2>6 DEF Truncated
      <4> QED
        BY <2>2, <4>1 DEF EndsInside
    <3>2. g = [h EXCEPT !.inits = i]
      OBVIOUS
    <3>3. next + 1 .. limit \subseteq c + 1 .. limit
      BY <2>1
    <3> HIDE DEF g, i, a
    <3>4. g \in [ok : {TRUE}, inits : {i}, end : c + 1 .. limit]
      BY <3>1, <3>2, <3>3
    <3>5. g.inits = i
      BY <3>4
    <3>6. EndsInside(limit, g, c)
      BY <3>4, <3>5 DEF EndsInside
    <3> QED
      BY <2>3, <2>6, <3>6 DEF g
  <2> QED
    BY <2>4, <2>5, <2>6
<1> QED
  BY <1>2, <1>3

\* The records that parse_procedure_header reads end in the module.
LEMMA RecordsEnd ==
  ASSUME NEW code, NEW limit \in Nat, NEW from \in 0 .. limit
  PROVE  EndsInside(limit, InitializersFrom(code, limit, from), from)
<1>1. PICK read : ReadsAll(code, limit, read) /\ InitializersFrom(code, limit, from) = read[from]
  BY ReadingIs
<1> DEFINE Ends(c) == EndsInside(limit, read[c], c)
           T == {n \in Nat : \A c \in 0 .. limit : limit - n <= c => Ends(c)}
<1>2. \A c \in 0 .. limit : read[c] = ReadOn(code, limit, read, c)
  BY <1>1 DEF ReadsAll
<1>3. ASSUME NEW c \in 0 .. limit, \A d \in c + 1 .. limit : Ends(d) PROVE Ends(c)
  BY <1>2, <1>3, ReadOnEnds
<1> HIDE DEF Ends
<1>4. 0 \in T
  <2>1. ASSUME NEW c \in 0 .. limit, limit - 0 <= c PROVE Ends(c)
    <3>1. \A d \in c + 1 .. limit : Ends(d)
      BY <2>1
    <3> QED
      BY <1>3, <3>1
  <2> QED
    BY <2>1
<1>5. ASSUME NEW n \in 0 .. limit - 1, n \in T PROVE n + 1 \in T
  <2>1. ASSUME NEW c \in 0 .. limit, limit - (n + 1) <= c PROVE Ends(c)
    <3>1. \A d \in c + 1 .. limit : d \in 0 .. limit /\ limit - n <= d
      BY <2>1
    <3>2. \A d \in c + 1 .. limit : Ends(d)
      BY <1>5, <3>1
    <3> QED
      BY <1>3, <3>2
  <2> QED
    BY <2>1
<1> HIDE DEF T
<1>6. \A n \in 0 .. limit - 1 : n \in T => n + 1 \in T
  BY <1>5
<1>7. limit \in T
  <2>1. \A n \in 0 .. limit : n \in T
    BY <1>4, <1>6, UpTo
  <2> QED
    BY <2>1
<1>8. Ends(from)
  BY <1>7 DEF T
<1> QED
  BY <1>1, <1>8 DEF Ends

\* A header that is read ends in the module, behind its first byte or its records.
LEMMA HeaderEnds ==
  ASSUME NEW code, NEW limit \in Nat, NEW start \in Nat, HeaderAt(code, limit, start).ok
  PROVE  LET read == InitializersFrom(code, limit, start + 1)
         IN  \E end \in start + 1 .. limit :
               /\ HeaderAt(code, limit, start).size = (end - start) % 256
               /\ end = start + 1 \/ (read.ok /\ end = read.end)
<1> DEFINE read == InitializersFrom(code, limit, start + 1)
           intro == ByteAt(code, start)
           tail == IF intro >= 128 THEN read
                   ELSE [ok |-> TRUE, inits |-> << >>, end |-> start + 1]
           inits == SubSeq(tail.inits, 1, Min({Len(tail.inits), MaxInitializers}))
<1>1. HeaderAt(code, limit, start)
        = IF start >= limit THEN Truncated
          ELSE IF ~ tail.ok THEN Truncated
          ELSE [ok |-> TRUE, locals |-> intro % 128, inits |-> inits,
                size |-> (tail.end - start) % 256]
  BY DEF HeaderAt
<1> HIDE DEF tail, inits, intro
<1>2. start < limit /\ tail.ok /\ HeaderAt(code, limit, start).size = (tail.end - start) % 256
  <2>1. ~ (start >= limit) /\ ~ ~ tail.ok
    BY <1>1 DEF Truncated
  <2> QED
    BY <1>1, <2>1
<1>3. EndsInside(limit, read, start + 1)
  BY <1>2, RecordsEnd
<1> HIDE DEF read
<1>4. CASE tail = read
  <2>1. read # Truncated
    BY <1>2, <1>4 DEF Truncated
  <2>2. read.end \in start + 1 + 1 .. limit
    BY <1>3, <2>1 DEF EndsInside
  <2>3. read.end \in start + 1 .. limit
    BY <2>2
  <2> QED
    BY <1>2, <1>4, <2>3 DEF read
<1>5. CASE tail = [ok |-> TRUE, inits |-> << >>, end |-> start + 1]
  <2>1. start + 1 \in start + 1 .. limit /\ tail.end = start + 1
    BY <1>2, <1>5
  <2> QED
    BY <1>2, <2>1
<1> QED
  BY <1>4, <1>5 DEF tail

\* Of the files that pass the checks of the header, lpst_image_load takes for granted
\* that the tables of the modules are in them, that a procedure's code begins below
\* 65536, and that its header has fewer than 256 bytes: it keeps the one in 16 bits
\* and the other in 8.
HeaderKept(m, e) ==
  LET start == ExportOffset(m, e)
      read  == InitializersFrom(CodeOf(m), ModuleLength(m), start + 1)
  IN  read.ok => read.end < 65536 /\ read.end - start < 256

Legible ==
  HeaderError = "none" =>
    /\ Count \in Nat
    /\ \A m \in 1 .. Count :
         /\ ModuleAt(m) \in Nat /\ Exports(m) \in Nat
         /\ \A e \in 1 .. Exports(m) :
              /\ ExportOffset(m, e) \in Nat /\ ExportOffset(m, e) < 65535
              /\ ModuleEnd(m) <= ObjSize /\ ExportOffset(m, e) < ModuleLength(m)
                   => HeaderKept(m, e)

\* A whole or a cut file needs no such promise: it is proved of them.
Promised == case \in Cases /\ (case.files = "damaged" => Legible)

\* The header of an accepted file has its words.
LEMMA HeaderIsThere ==
  ASSUME case \in Cases, HeaderError = "none", NEW i \in 0 .. 15
  PROVE  HeaderWord(i) \in Nat
<1> DEFINE n == Len(case.mme)
<1>1. case.mme \in Seq(Nat) /\ n \in Nat
  <2>1. case.mme \in Seq(Words16)
    BY CasesAssumption
  <2>2. case.mme \in Seq(Nat)
    BY <2>1, WordsAreNat
  <2> QED
    BY <2>2, LenProperties
<1>2. ~ (MmeSize < 2 * HeaderWords)
  BY DEF HeaderError
<1> HIDE DEF n
<1>3. ~ (2 * n < 2 * HeaderWords) /\ HeaderWords \in 16 .. 48
  BY <1>2, FilesAssumption DEF MmeSize, n
<1>4. i + 1 \in 1 .. n
  BY <1>1, <1>3
<1>5. (2 * i) \div 2 + 1 = i + 1
  OBVIOUS
<1>6. case.mme[i + 1] \in Nat
  BY <1>1, <1>4, ElementOfSeq DEF n
<1>7. HeaderWord(i) = case.mme[(2 * i) \div 2 + 1]
  BY DEF HeaderWord, WordAt
<1> QED
  BY <1>5, <1>6, <1>7

\* What the loader reads of a module
ModuleRead(m) ==
  ModuleAt(m) \in Nat /\ ModuleEnd(m) \in Nat /\ Exports(m) \in Nat

\* The code of a procedure begins behind its header, in the module.
ProcedureIn(m, e) ==
  LET start == ExportOffset(m, e)
  IN  /\ start \in Nat
      /\ ModuleEnd(m) <= ObjSize /\ start < ModuleLength(m) /\ HeaderOf(m, e).ok
           => (start + HeaderOf(m, e).size) % 65536 \in start + 1 .. ModuleLength(m)

AllIn ==
  /\ Count \in Nat
  /\ \A m \in 1 .. Count : ModuleRead(m) /\ \A e \in 1 .. Exports(m) : ProcedureIn(m, e)

\* A damaged file of which the loader's promises hold
LEMMA LegibleIn ==
  ASSUME case \in Cases, Legible, HeaderError = "none"
  PROVE  AllIn
<1>1. Count \in Nat
  BY DEF Legible
<1>2. CodeEnd \in Nat
  <2> DEFINE w == HeaderWord(7)
  <2>1. w \in Nat
    BY HeaderIsThere
  <2> HIDE DEF w
  <2>2. w + 1 \in Nat /\ UnitBytes \in Nat
    BY <2>1, UnitsAre
  <2>3. (w + 1) * UnitBytes \in Nat
    BY <2>2
  <2> QED
    BY <2>3 DEF CodeEnd, w
<1>3. ASSUME NEW m \in 1 .. Count PROVE ModuleRead(m)
  <2>1. ModuleAt(m) \in Nat /\ Exports(m) \in Nat
    BY <1>3 DEF Legible
  <2>2. ModuleEnd(m) \in Nat
    <3>1. CASE m = Count
      BY <1>2, <3>1 DEF ModuleEnd
    <3>2. CASE m # Count
      <4> DEFINE n == m + 1
      <4>1. n \in 1 .. Count
        BY <1>1, <3>2
      <4> HIDE DEF n
      <4>2. ModuleAt(n) \in Nat
        BY <4>1 DEF Legible
      <4> QED
        BY <3>2, <4>2 DEF ModuleEnd, n
    <3> QED
      BY <3>1, <3>2
  <2> QED
    BY <2>1, <2>2 DEF ModuleRead
<1>4. ASSUME NEW m \in 1 .. Count, NEW e \in 1 .. Exports(m) PROVE ProcedureIn(m, e)
  <2> DEFINE start == ExportOffset(m, e)
             limit == ModuleLength(m)
             code  == CodeOf(m)
             h     == HeaderOf(m, e)
             read  == InitializersFrom(code, limit, start + 1)
  <2>1. start \in Nat /\ start < 65535
    BY DEF Legible
  <2>2. ASSUME ModuleEnd(m) <= ObjSize, start < limit, h.ok
        PROVE  (start + h.size) % 65536 \in start + 1 .. limit
    <3>1. read.ok => read.end < 65536 /\ read.end - start < 256
      <4>1. HeaderKept(m, e)
        BY <2>2 DEF Legible
      <4> QED
        BY <4>1 DEF HeaderKept
    <3>2. limit \in Nat
      <4>1. limit \in Int
        BY <1>3 DEF ModuleRead, ModuleLength
      <4> HIDE DEF limit
      <4>2. start < limit /\ start \in Nat
        BY <2>1, <2>2
      <4> QED
        BY <4>1, <4>2
    <3>3. h = HeaderAt(code, limit, start)
      BY DEF HeaderOf
    <3> HIDE DEF start, limit, code, h
    <3>4. PICK end \in start + 1 .. limit :
            h.size = (end - start) % 256 /\ (end = start + 1 \/ (read.ok /\ end = read.end))
      BY <2>1, <2>2, <3>2, <3>3, HeaderEnds
    <3>5. end \in Nat /\ end - start \in Nat /\ end - start < 256 /\ end < 65536
      BY <2>1, <3>1, <3>2, <3>4
    <3>6. h.size = end - start
      BY <3>4, <3>5
    <3>7. start + h.size = end
      BY <2>1, <3>5, <3>6
    <3>8. end % 65536 = end
      BY <3>5, SmallStays
    <3> QED
      BY <3>4, <3>7, <3>8
  <2>3. start \in Nat
    BY <2>1
  <2> QED
    BY <2>2, <2>3 DEF ProcedureIn
<1> QED
  BY <1>1, <1>3, <1>4 DEF AllIn

\* and a file of a program
LEMMA WrittenIn ==
  ASSUME NEW p, GoodProgram(p), FilesOf(p), HeaderError = "none"
  PROVE  AllIn
<1>1. Count = Len(p.modules) /\ Len(p.modules) \in Nat
  BY TablesRight, WrittenModulesAre DEF TablesSay
<1>2. ASSUME NEW m \in 1 .. Len(p.modules)
      PROVE  ModuleRead(m) /\ \A e \in 1 .. Exports(m) : ProcedureIn(m, e)
  <2>1. ModuleFits(p, m)
    BY ModuleFound
  <2>2. ModuleRead(m)
    BY <2>1, CodeOfModule DEF ModuleRead, ModuleFits
  <2>3. ASSUME NEW e \in 1 .. Exports(m) PROVE ProcedureIn(m, e)
    <3> DEFINE w == WrittenProc(p.modules[m], p.modules[m].exports[e])
    <3>1. e \in 1 .. Len(p.modules[m].exports)
      BY <2>1, <2>3 DEF ModuleFits
    <3>2. ProcRead(m, e, w) /\ w.start \in Nat /\ w.code \in w.start + 1 .. ModuleLength(m)
      BY <3>1, ProceduresRight
    <3> HIDE DEF w
    <3> QED
      BY <3>2 DEF ProcRead, ProcedureIn
  <2> QED
    BY <2>2, <2>3
<1> QED
  BY <1>1, <1>2 DEF AllIn

\* All the procedures that the loader reads lie in their modules.
LEMMA PromisedIn ==
  ASSUME Promised, HeaderError = "none"
  PROVE  AllIn
<1>1. CASE case.files = "damaged"
  BY <1>1, LegibleIn DEF Promised
<1>2. CASE case.files # "damaged"
  <2>1. PICK p \in Programs : Loading(p)
    BY <1>2, LoadingFound DEF Promised
  <2> QED
    BY <2>1, ProgramsAreGood, WrittenIn DEF Loading
<1> QED
  BY <1>1, <1>2

\* What is read of the files stays as they do.
LEMMA FilesStay ==
  ASSUME case' = case
  PROVE  /\ Count' = Count /\ ObjSize' = ObjSize /\ HeaderError' = HeaderError
         /\ EntryModule' = EntryModule /\ EntryProcedure' = EntryProcedure
         /\ \A m : ModuleEnd(m)' = ModuleEnd(m) /\ ModuleLength(m)' = ModuleLength(m)
         /\ Legible' <=> Legible
<1>1. /\ MmeSize' = MmeSize /\ ObjSize' = ObjSize
      /\ \A o : WordAt(o)' = WordAt(o)
  BY DEF MmeSize, ObjSize, WordAt
<1>2. \A i : HeaderWord(i)' = HeaderWord(i)
  BY <1>1 DEF HeaderWord
<1>3. /\ CodeEnd' = CodeEnd /\ ExportsAt' = ExportsAt /\ ExportsEnd' = ExportsEnd
      /\ EntryModule' = EntryModule /\ EntryProcedure' = EntryProcedure
  BY <1>2 DEF CodeEnd, ExportsAt, ExportsEnd, EntryModule, EntryProcedure
<1>4. Count' = Count /\ HeaderError' = HeaderError
  BY <1>1, <1>3 DEF Count, HeaderError
<1>5. \A m : ModuleAt(m)' = ModuleAt(m)
  BY <1>1, <1>4 DEF ModuleAt, PagesAt
<1>6. \A m : ModuleEnd(m)' = ModuleEnd(m)
  BY <1>3, <1>4, <1>5 DEF ModuleEnd
<1>7. \A m : ModuleLength(m)' = ModuleLength(m) /\ CodeOf(m)' = CodeOf(m)
  BY <1>5, <1>6 DEF ModuleLength, CodeOf
<1>8. \A m : ExportTableAt(m)' = ExportTableAt(m)
  BY <1>1, <1>3 DEF ExportTableAt
<1>9. \A m, e : Exports(m)' = Exports(m) /\ ExportOffset(m, e)' = ExportOffset(m, e)
  BY <1>1, <1>8 DEF Exports, ExportOffset
<1>10. \A m, e : HeaderKept(m, e)' <=> HeaderKept(m, e)
  BY <1>7, <1>9 DEF HeaderKept
<1>11. Legible' <=> Legible
  BY <1>1, <1>4, <1>5, <1>6, <1>7, <1>9, <1>10 DEF Legible
<1> QED
  BY <1>1, <1>3, <1>4, <1>6, <1>7, <1>11

\* Procedures that begin and have their code within a length
ProcsInside(procs, length) ==
  \E S : procs \in Seq(S) /\ \A x \in S : x.start \in Nat /\ x.code \in x.start + 1 .. length

\* Modules that lie in the code file, with their procedures in them
ModuleInside(x, size) ==
  /\ x \in [at : {x.at}, length : {x.length}, procs : {x.procs}]
  /\ x.at \in Nat /\ x.length \in Nat /\ x.at + x.length <= size
  /\ ProcsInside(x.procs, x.length)

ModulesInside(s, n, size) ==
  \E S : s \in Seq(S) /\ Len(s) = n /\ \A x \in S : ModuleInside(x, size)

ShapedAs(x, s, r) ==
  x \in [count : {x.count}, globals : {x.globals}, moduleGlobals : {x.moduleGlobals},
         modules : {s}, ram : {r}]

ModulesIn(n) == ShapedAs(image, image.modules, image.ram) /\ ModulesInside(image.modules, n, ObjSize)

\* One procedure more
LEMMA ProcsInsideMore ==
  ASSUME NEW s, NEW length, ProcsInside(s, length),
         NEW x, x.start \in Nat, x.code \in x.start + 1 .. length
  PROVE  ProcsInside(Append(s, x), length)
<1>1. PICK S : s \in Seq(S) /\ \A y \in S : y.start \in Nat /\ y.code \in y.start + 1 .. length
  BY DEF ProcsInside
<1> DEFINE T == S \union {x}
<1>2. s \in Seq(T)
  <2>1. S \subseteq T
    OBVIOUS
  <2> HIDE DEF T
  <2> QED
    BY <1>1, <2>1, SequencesOfMore
<1>3. Append(s, x) \in Seq(T)
  <2>1. x \in T
    OBVIOUS
  <2> HIDE DEF T
  <2> QED
    BY <1>2, <2>1, AppendProperties
<1>4. \A y \in T : y.start \in Nat /\ y.code \in y.start + 1 .. length
  BY <1>1
<1> HIDE DEF T
<1> QED
  BY <1>3, <1>4 DEF ProcsInside

\* The table of modules with one more, as parse_modules leaves it
With(s, x) == Append(s, x)

\* One module more
LEMMA ModulesInsideMore ==
  ASSUME NEW size, NEW s, NEW n \in Nat, ModulesInside(s, n, size), NEW x, ModuleInside(x, size),
         NEW k, k = n + 1
  PROVE  ModulesInside(With(s, x), k, size) /\ With(s, x)[k] = x
<1>1. PICK S : s \in Seq(S) /\ Len(s) = n /\ \A y \in S : ModuleInside(y, size)
  BY DEF ModulesInside
<1> DEFINE T == S \union {x}
<1>2. s \in Seq(T)
  <2>1. S \subseteq T
    OBVIOUS
  <2> HIDE DEF T
  <2> QED
    BY <1>1, <2>1, SequencesOfMore
<1>3. With(s, x) \in Seq(T) /\ Len(With(s, x)) = k /\ With(s, x)[k] = x
  <2>1. x \in T
    OBVIOUS
  <2> HIDE DEF T
  <2> QED
    BY <1>1, <1>2, <2>1, AppendProperties DEF With
<1>4. \A y \in T : ModuleInside(y, size)
  BY <1>1
<1> HIDE DEF T
<1> QED
  BY <1>3, <1>4 DEF ModulesInside

\* A module replaced by another that lies inside
LEMMA ModulesInsideWith ==
  ASSUME NEW size, NEW s, NEW n \in Nat, ModulesInside(s, n, size), NEW m \in 1 .. n, NEW x, ModuleInside(x, size)
  PROVE  ModulesInside([s EXCEPT ![m] = x], n, size) /\ [s EXCEPT ![m] = x][m] = x
<1>1. PICK S : s \in Seq(S) /\ Len(s) = n /\ \A y \in S : ModuleInside(y, size)
  BY DEF ModulesInside
<1> DEFINE T == S \union {x}
           t == [s EXCEPT ![m] = x]
<1>2. s \in Seq(T)
  <2>1. S \subseteq T
    OBVIOUS
  <2> HIDE DEF T
  <2> QED
    BY <1>1, <2>1, SequencesOfMore
<1>3. t \in Seq(T) /\ Len(t) = n /\ t[m] = x
  <2>1. x \in T
    OBVIOUS
  <2> HIDE DEF T
  <2> QED
    BY <1>1, <1>2, <2>1, ExceptSeq
<1>4. \A y \in T : ModuleInside(y, size)
  BY <1>1
<1> HIDE DEF T, t
<1>5. ModulesInside(t, n, size)
  BY <1>3, <1>4 DEF ModulesInside
<1> QED
  BY <1>3, <1>5 DEF t

\* Any of the modules
LEMMA ModulesInsideAt ==
  ASSUME NEW size, NEW s, NEW n \in Nat, ModulesInside(s, n, size), NEW m \in 1 .. n
  PROVE  ModuleInside(s[m], size) /\ DOMAIN s = 1 .. n /\ Len(s) = n
<1>1. PICK S : s \in Seq(S) /\ Len(s) = n /\ \A y \in S : ModuleInside(y, size)
  BY DEF ModulesInside
<1>2. s[m] \in S /\ DOMAIN s = 1 .. n
  BY <1>1, ElementOfSeq, LenProperties
<1> QED
  BY <1>1, <1>2

\* Any of the procedures
LEMMA ProcsInsideAt ==
  ASSUME NEW s, NEW length, ProcsInside(s, length), NEW k \in DOMAIN s
  PROVE  /\ s[k].start \in Nat /\ s[k].code \in s[k].start + 1 .. length
         /\ DOMAIN s = 1 .. Len(s)
<1>1. PICK S : s \in Seq(S) /\ \A y \in S : y.start \in Nat /\ y.code \in y.start + 1 .. length
  BY DEF ProcsInside
<1>2. s[k] \in S /\ DOMAIN s = 1 .. Len(s)
  BY <1>1, ElementOfSeq, LenProperties
<1> QED
  BY <1>1, <1>2

\* A module with one procedure more
LEMMA ModuleInsideMore ==
  ASSUME NEW size, NEW x, ModuleInside(x, size),
         NEW p, p.start \in Nat, p.code \in p.start + 1 .. x.length,
         NEW y, y = [x EXCEPT !.procs = Append(@, p)]
  PROVE  ModuleInside(y, size) /\ y.length = x.length
<1> DEFINE a == x.at
           l == x.length
           s == x.procs
           t == Append(s, p)
<1>1. /\ x \in [at : {a}, length : {l}, procs : {s}]
      /\ a \in Nat /\ l \in Nat /\ a + l <= size /\ ProcsInside(s, l)
  BY DEF ModuleInside
<1>2. ProcsInside(t, l)
  BY <1>1, ProcsInsideMore
<1>3. y = [x EXCEPT !.procs = t]
  OBVIOUS
<1> HIDE DEF a, l, s, t
<1>4. y \in [at : {a}, length : {l}, procs : {t}]
  BY <1>1, <1>3
<1>5. y.at = a /\ y.length = l /\ y.procs = t
  BY <1>4
<1> QED
  BY <1>1, <1>2, <1>4, <1>5 DEF ModuleInside, l

\* An image with other modules or another RAM
LEMMA ShapeWith ==
  ASSUME NEW x, NEW s, NEW r, NEW t, ShapedAs(x, s, r), NEW y
  PROVE  /\ x.modules = s /\ x.ram = r
         /\ y = [x EXCEPT !.modules = t] => ShapedAs(y, t, r) /\ y.modules = t /\ y.ram = r
         /\ y = [x EXCEPT !.ram = t] => ShapedAs(y, s, t) /\ y.modules = s /\ y.ram = t
<1> DEFINE c == x.count
           g == x.globals
           h == x.moduleGlobals
           u == [x EXCEPT !.modules = t]
           v == [x EXCEPT !.ram = t]
<1>1. x \in [count : {c}, globals : {g}, moduleGlobals : {h}, modules : {s}, ram : {r}]
  BY DEF ShapedAs
<1> HIDE DEF c, g, h
<1>2. u \in [count : {c}, globals : {g}, moduleGlobals : {h}, modules : {t}, ram : {r}]
  BY <1>1
<1>3. v \in [count : {c}, globals : {g}, moduleGlobals : {h}, modules : {s}, ram : {t}]
  BY <1>1
<1> HIDE DEF u, v
<1>4. /\ u.count = c /\ u.globals = g /\ u.moduleGlobals = h /\ u.modules = t /\ u.ram = r
      /\ v.count = c /\ v.globals = g /\ v.moduleGlobals = h /\ v.modules = s /\ v.ram = t
      /\ x.modules = s /\ x.ram = r
  BY <1>1, <1>2, <1>3
<1>5. ShapedAs(u, t, r) /\ ShapedAs(v, s, t)
  BY <1>2, <1>3, <1>4 DEF ShapedAs
<1> QED
  BY <1>4, <1>5 DEF u, v

\* The initial RAM that is copied is not empty: raw counts words, or else bytes, and
\* of one byte there is never just one, behind a page.
LEMMA RamThere ==
  ASSUME case \in Cases, HeaderError = "none", ~ RamTruncated
  PROVE  WordsAt(RamStart, RamBytes \div 2) # << >>
<1> DEFINE x == case.mme
           n == Len(x)
           raw == HeaderWord(11)
           R == RamStart
           b == RamBytes
<1>1. x \in Seq(Nat) /\ n \in Nat
  <2>1. x \in Seq(Words16)
    BY CasesAssumption
  <2>2. x \in Seq(Nat)
    BY <2>1, WordsAreNat
  <2> QED
    BY <2>2, LenProperties
<1>2. raw \in Nat
  BY HeaderIsThere
<1>3. PICK r \in Nat : R = 2 * r
  <2> DEFINE w13 == HeaderWord(13)
             w15 == HeaderWord(15)
             e == ExportsEnd
  <2>1. w13 \in Nat /\ w15 \in Nat
    BY HeaderIsThere
  <2>2. e = w13 * PageBytes + 2 * w15
    BY DEF ExportsEnd, ExportsAt
  <2> HIDE DEF w13, w15, e
  <2>3. PICK h \in Nat \ {0} : PageBytes = 2 * h
    BY UnitsAre
  <2>4. PageBytes \in Nat \ {0} /\ w13 * PageBytes \in Nat
    BY <2>1, UnitsAre
  <2>5. e + PageBytes - 1 \in Nat
    BY <2>1, <2>2, <2>4
  <2> DEFINE q == (e + PageBytes - 1) \div PageBytes
  <2>6. q \in Nat
    BY <2>4, <2>5
  <2>7. R = PageBytes * q
    BY DEF RamStart, AlignToPage, e
  <2> HIDE DEF q, R
  <2>8. R = 2 * (h * q) /\ h * q \in Nat
    BY <2>3, <2>6, <2>7
  <2> QED
    BY <2>8
<1>4. /\ b # 0 /\ ~ (R + b > 2 * n)
      /\ b = IF R > 2 * n \/ 2 * raw <= 2 * n - R THEN 2 * raw
             ELSE IF R > 2 * n \/ raw <= 2 * n - R THEN raw ELSE 0
  BY DEF RamTruncated, RamBytes, MmeSize
<1> HIDE DEF n, raw, R, b
<1>5. b \in Nat /\ b >= 2 /\ r + b \div 2 <= n
  <2>1. b \in Nat /\ b # 0
    BY <1>2, <1>4
  <2>2. 2 * r + b <= 2 * n
    BY <1>1, <1>3, <1>4, <2>1
  <2>3. b # 1
    BY <1>1, <1>2, <1>3, <1>4, <2>2
  <2>4. 2 * (b \div 2) <= b
    BY <2>1
  <2> QED
    BY <1>1, <1>3, <2>1, <2>2, <2>3, <2>4
<1> DEFINE k == b \div 2
<1>6. k \in Nat /\ k >= 1
  BY <1>5
<1>7. r + k <= n
  BY <1>5
<1>8. R \div 2 = r
  BY <1>3
<1> HIDE DEF k
<1>9. WordsAt(R, k) = SubSeq(x, r + 1, r + k)
  BY <1>8 DEF WordsAt
<1>10. Len(SubSeq(x, r + 1, r + k)) = k
  <2> DEFINE a == r + 1
             z == r + k
  <2>1. a \in 1 .. n + 1 /\ z \in a - 1 .. n /\ z - a + 1 = k
    BY <1>1, <1>3, <1>6, <1>7
  <2> HIDE DEF a, z
  <2>2. Len(SubSeq(x, a, z)) = z - a + 1
    BY <1>1, <2>1, SubSeqProperties DEF n
  <2> QED
    BY <2>1, <2>2 DEF a, z
<1>11. SubSeq(x, r + 1, r + k) # << >>
  <2> DEFINE y == SubSeq(x, r + 1, r + k)
  <2>1. Len(y) = k
    BY <1>10
  <2> HIDE DEF y
  <2>2. y # << >>
    BY <1>6, <2>1, EmptySeq
  <2> QED
    BY <2>2 DEF y
<1> QED
  BY <1>9, <1>11 DEF R, k, b

\* What the image holds lies inside the files, at each step of the load.
Inside ==
  /\ proc \in Nat \ {0}
  /\ at \notin {"files", "header", "done"} => HeaderError = "none"
  /\ at \in {"files", "header", "globals"} => image = NoImage
  /\ at = "offsets" => ShapedAs(image, << >>, << >>)
  /\ at \in {"files", "header", "globals", "offsets"} => module = 1
  /\ at = "module" => module \in 1 .. Count + 1 /\ ModulesIn(module - 1)
  /\ at = "procedure" => /\ module \in 1 .. Count /\ ModulesIn(module)
                         /\ image.modules[module].length = ModuleLength(module)
                         /\ ModuleEnd(module) <= ObjSize
  /\ at \in {"ram", "entry"} => ModulesIn(Count)
  /\ at = "entry" => image.ram # << >>
  /\ at = "done" /\ result = "OK" =>
       HeaderError = "none" /\ ModulesIn(Count) /\ image.ram # << >> /\ EntryInRange

InsideInv == Promised /\ Inside

\* The promise is about the files, and stays.
LEMMA PromiseStays ==
  ASSUME Promised, case' = case
  PROVE  Promised'
BY FilesStay DEF Promised

\* A load that fails has no image to answer for.
LEMMA FailedInside ==
  ASSUME InsideInv, NEW error, NEW got, NEW freed, Fail(error, got, freed), error # "OK"
  PROVE  InsideInv'
<1>1. at' = "done" /\ result' = error /\ case' = case /\ proc' = proc
  BY DEF Fail
<1> QED
  BY <1>1, PromiseStays DEF InsideInv, Inside

\* Up to the header nothing is loaded, and the header is checked for good.
LEMMA StartInside ==
  ASSUME InsideInv, CannotRead \/ ReadFiles \/ RejectHeader \/ AcceptHeader
  PROVE  InsideInv'
<1>1. CASE CannotRead
  <2>1. \E got : Fail("IO", got, Files)
    BY <1>1 DEF CannotRead
  <2> QED
    BY <2>1, FailedInside
<1>2. CASE ReadFiles
  BY <1>2, PromiseStays DEF ReadFiles, GoOn, InsideInv, Inside
<1>3. CASE RejectHeader
  <2> DEFINE e == HeaderError
  <2>1. e # "OK" /\ Fail(e, {}, OfImage \union Files)
    BY <1>3 DEF RejectHeader, FailLoad, HeaderError
  <2> HIDE DEF e
  <2> QED
    BY <2>1, FailedInside
<1>4. CASE AcceptHeader
  <2>1. /\ at = "header" /\ at' = "globals" /\ case' = case /\ UNCHANGED <<module, proc, image>>
        /\ HeaderError = "none"
    BY <1>4 DEF AcceptHeader, GoOn
  <2>2. HeaderError' = "none"
    BY <2>1, FilesStay
  <2> QED
    BY <2>1, <2>2, PromiseStays DEF InsideInv, Inside
<1> QED
  BY <1>1, <1>2, <1>3, <1>4

\* The globals leave the tables of modules and RAM empty.
LEMMA GlobalsInside ==
  ASSUME InsideInv, ReadGlobals \/ ReadOffsets
  PROVE  InsideInv'
<1>1. CASE ReadGlobals
  <2> DEFINE h == [m \in 1 .. Count |-> WordsAt(ModuleGlobalsAt(m), ModuleGlobalCount(m))]
             g == WordsAt(ProgramGlobalsAt, ProgramGlobalCount)
             y == [image EXCEPT !.count = Count, !.globals = g, !.moduleGlobals = h]
  <2>1. /\ at = "globals" /\ at' = "offsets" /\ case' = case /\ UNCHANGED <<module, proc>>
        /\ image' = y
    BY <1>1 DEF ReadGlobals, GoOn
  <2>2. image = NoImage /\ module = 1 /\ HeaderError' = "none"
    BY <2>1, FilesStay DEF InsideInv, Inside
  <2> HIDE DEF h, g
  <2>3. y \in [count : {Count}, globals : {g}, moduleGlobals : {h}, modules : {<< >>},
               ram : {<< >>}]
    BY <2>2 DEF NoImage
  <2> HIDE DEF y
  <2>4. y.count = Count /\ y.globals = g /\ y.moduleGlobals = h
    BY <2>3
  <2>5. ShapedAs(y, << >>, << >>)
    BY <2>3, <2>4 DEF ShapedAs
  <2>6. ShapedAs(image', << >>, << >>)
    BY <2>1, <2>5
  <2>7. ShapedAs(image, << >>, << >>)'
    BY <2>6 DEF ShapedAs
  <2> QED
    BY <2>1, <2>2, <2>7, PromiseStays DEF InsideInv, Inside
<1>2. CASE ReadOffsets
  <2>1. at = "offsets" /\ at' = "module" /\ case' = case /\ UNCHANGED <<module, proc, image>>
    BY <1>2 DEF ReadOffsets, GoOn
  <2>2. ShapedAs(image, << >>, << >>) /\ module = 1 /\ HeaderError = "none" /\ Promised
    BY <2>1 DEF InsideInv, Inside
  <2>3. Count \in Nat
    BY <2>2, PromisedIn DEF AllIn
  <2>4. ModulesInside(<< >>, 0, ObjSize)
    <3> DEFINE S == {}
    <3>1. \A x \in S : ModuleInside(x, ObjSize)
      OBVIOUS
    <3> HIDE DEF S
    <3>2. << >> \in Seq(S) /\ Len(<< >>) = 0
      BY EmptySeq
    <3> QED
      BY <3>1, <3>2 DEF ModulesInside
  <2>5. ModulesIn(0)
    <3>1. image.modules = << >> /\ image.ram = << >>
      BY <2>2, ShapeWith
    <3> QED
      BY <2>2, <2>4, <3>1 DEF ModulesIn
  <2>6. ModulesIn(0)' /\ Count' = Count /\ HeaderError' = "none"
    BY <2>1, <2>2, <2>5, FilesStay DEF ModulesIn, ShapedAs
  <2>7. module' = 1 /\ 1 - 1 = 0 /\ 1 \in 1 .. Count' + 1
    BY <2>1, <2>2, <2>3, <2>6
  <2>8. module' - 1 = 0
    BY <2>7
  <2>9. ModulesIn(module - 1)'
    BY <2>6, <2>8 DEF ModulesIn
  <2> QED
    BY <2>1, <2>6, <2>7, <2>9, PromiseStays DEF InsideInv, Inside
<1> QED
  BY <1>1, <1>2

\* A module begun lies between its page and the next.
LEMMA ModuleInsideFirst ==
  ASSUME NEW m, ModuleRead(m), ModuleAt(m) <= ModuleEnd(m), ModuleEnd(m) <= ObjSize,
         NEW x, x = [at |-> ModuleAt(m), length |-> ModuleLength(m), procs |-> << >>]
  PROVE  ModuleInside(x, ObjSize) /\ x.length = ModuleLength(m)
<1> DEFINE a == ModuleAt(m)
           l == ModuleLength(m)
           z == ModuleEnd(m)
           e == << >>
<1>1. a \in Nat /\ z \in Nat /\ a <= z /\ z <= ObjSize /\ l = z - a
  BY DEF ModuleRead, ModuleLength
<1>2. x = [at |-> a, length |-> l, procs |-> e]
  OBVIOUS
<1>3. ProcsInside(e, l)
  <2> DEFINE S == {}
  <2>1. \A y \in S : y.start \in Nat /\ y.code \in y.start + 1 .. l
    OBVIOUS
  <2> HIDE DEF S
  <2>2. e \in Seq(S)
    BY EmptySeq
  <2> QED
    BY <2>1, <2>2 DEF ProcsInside
<1> HIDE DEF a, l, z, e
<1>4. l \in Nat /\ a + l <= ObjSize
  BY <1>1
<1>5. x \in [at : {a}, length : {l}, procs : {e}]
  BY <1>2
<1>6. x.at = a /\ x.length = l /\ x.procs = e
  BY <1>2
<1> QED
  BY <1>1, <1>3, <1>4, <1>5, <1>6 DEF ModuleInside, l

\* A module whose span is accepted lies inside the code file.
LEMMA ModuleStepInside ==
  ASSUME InsideInv, SpanInvalid \/ BeginModule \/ CannotReadModule
  PROVE  InsideInv'
<1>1. CASE SpanInvalid \/ CannotReadModule
  <2>1. \E error \in {"IO", "MODULE_SPAN_INVALID"} : \E got, freed : Fail(error, got, freed)
    BY <1>1 DEF SpanInvalid, CannotReadModule, FailModules
  <2> QED
    BY <2>1, FailedInside
<1>2. CASE BeginModule
  <2> DEFINE m == module
             x == [at |-> ModuleAt(m), length |-> ModuleLength(m), procs |-> << >>]
             s == image.modules
             t == Append(s, x)
             r == image.ram
  <2>1. /\ at = "module" /\ m <= Count /\ ModuleAt(m) <= ModuleEnd(m) /\ ModuleEnd(m) <= ObjSize
        /\ case' = case /\ proc' = proc
        /\ image' = [image EXCEPT !.modules = Append(@, x)]
        /\ \/ at' = "module" /\ module' = m + 1
           \/ at' = "procedure" /\ module' = m
    BY <1>2 DEF BeginModule, SpanOk, GoOn
  <2>2. Promised /\ HeaderError = "none" /\ m \in 1 .. Count + 1 /\ ModulesIn(m - 1)
    BY <2>1 DEF InsideInv, Inside
  <2>3. AllIn
    BY <2>2, PromisedIn
  <2>4. m \in 1 .. Count /\ Count \in Nat /\ ModuleRead(m)
    <3>1. Count \in Nat
      BY <2>3 DEF AllIn
    <3>2. m \in 1 .. Count
      BY <2>1, <2>2, <3>1
    <3> QED
      BY <2>3, <3>1, <3>2 DEF AllIn
  <2>5. ModuleInside(x, ObjSize) /\ x.length = ModuleLength(m)
    BY <2>1, <2>4, ModuleInsideFirst
  <2>6. image' = [image EXCEPT !.modules = t]
    BY <2>1
  <2> HIDE DEF x
  <2>7. ModulesInside(t, m, ObjSize) /\ t[m] = x
    <3> DEFINE n == m - 1
               z == ObjSize
    <3>1. n \in Nat /\ n + 1 = m
      BY <2>4
    <3>2. ModulesInside(s, n, z)
      BY <2>2 DEF ModulesIn
    <3>3. ModuleInside(x, z)
      BY <2>5
    <3> HIDE DEF n, s, z
    <3>4. n \in Nat
      BY <3>1
    <3>5. ModulesInside(With(s, x), m, z) /\ With(s, x)[m] = x
      BY <3>1, <3>2, <3>3, <3>4, ModulesInsideMore
    <3>6. t = With(s, x)
      BY DEF s, With
    <3> QED
      BY <3>5, <3>6 DEF z
  <2> HIDE DEF t
  <2>8. ShapedAs(image', t, r) /\ image'.modules = t /\ image'.ram = r
    <3>1. ShapedAs(image, s, r)
      BY <2>2 DEF ModulesIn
    <3> QED
      BY <2>6, <3>1, ShapeWith
  <2>9. /\ ShapedAs(image, image.modules, image.ram)'
        /\ Count' = Count /\ ObjSize' = ObjSize /\ HeaderError' = "none"
        /\ ModuleLength(m)' = ModuleLength(m') /\ ModuleEnd(m)' = ModuleEnd(m')
    BY <2>1, <2>2, <2>8, FilesStay DEF ShapedAs
  <2>10. ModulesInside(image'.modules, m, ObjSize')
    BY <2>7, <2>8, <2>9
  <2>11. CASE at' = "module" /\ module' = m + 1
    <3>1. module' - 1 = m /\ module' \in 1 .. Count' + 1
      BY <2>4, <2>9, <2>11
    <3>2. ModulesIn(module - 1)'
      BY <2>9, <2>10, <3>1 DEF ModulesIn
    <3> QED
      BY <2>1, <2>2, <2>9, <2>11, <3>1, <3>2, PromiseStays DEF InsideInv, Inside
  <2>12. CASE at' = "procedure" /\ module' = m
    <3>1. ModulesIn(module)'
      BY <2>9, <2>10, <2>12 DEF ModulesIn
    <3>2. image'.modules[m].length = ModuleLength(m)
      BY <2>5, <2>7, <2>8
    <3> QED
      BY <2>1, <2>2, <2>4, <2>9, <2>12, <3>1, <3>2, PromiseStays DEF InsideInv, Inside
  <2> QED
    BY <2>1, <2>11, <2>12
<1> QED
  BY <1>1, <1>2

\* A procedure that is read lies in its module.
LEMMA ProcedureInside ==
  ASSUME InsideInv, ProcedureOutOfRange \/ HeaderTruncated \/ ReadProcedure
  PROVE  InsideInv'
<1>1. CASE ProcedureOutOfRange \/ HeaderTruncated
  <2>1. \E error \in {"PROCEDURE_OUT_OF_RANGE", "HEADER_PARSE"} : \E got, freed :
          Fail(error, got, freed)
    BY <1>1 DEF ProcedureOutOfRange, HeaderTruncated, FailModules, FailProcedure
  <2> QED
    BY <2>1, FailedInside
<1>2. CASE ReadProcedure
  <2> DEFINE m == module
             s == image.modules
             r == image.ram
             l == ModuleLength(m)
             x == [start  |-> ExportOffset(m, proc),
                   code   |-> (ExportOffset(m, proc) + Parsed.size) % 65536,
                   locals |-> Parsed.locals, inits |-> Parsed.inits]
             y == [s[m] EXCEPT !.procs = Append(@, x)]
             t == [s EXCEPT ![m] = y]
  <2>1. /\ at = "procedure" /\ proc <= Exports(m) /\ ~ OutOfRange /\ Parsed.ok
        /\ at' = "procedure" /\ case' = case /\ proc' = proc + 1 /\ module' = m
        /\ image' = [image EXCEPT !.modules[m].procs = Append(@, x)]
    BY <1>2 DEF ReadProcedure, GoOn
  <2>2. /\ Promised /\ HeaderError = "none" /\ m \in 1 .. Count /\ ModulesIn(m)
        /\ s[m].length = l /\ ModuleEnd(m) <= ObjSize /\ proc \in Nat \ {0}
    BY <2>1 DEF InsideInv, Inside
  <2>3. Count \in Nat /\ ModuleRead(m) /\ \A e \in 1 .. Exports(m) : ProcedureIn(m, e)
    BY <2>2, PromisedIn DEF AllIn
  <2>4. m \in Nat \ {0} /\ m \in 1 .. m
    BY <2>2, <2>3
  <2>5. x.start \in Nat /\ x.code \in x.start + 1 .. l
    <3>1. proc \in 1 .. Exports(m)
      BY <2>1, <2>2, <2>3 DEF ModuleRead
    <3>2. ProcedureIn(m, proc)
      BY <2>3, <3>1
    <3>3. HeaderOf(m, proc) = Parsed
      BY DEF HeaderOf, Parsed
    <3>4. ExportOffset(m, proc) \in Nat /\ ExportOffset(m, proc) < l
      <4> DEFINE o == ExportOffset(m, proc)
      <4>1. o \in Nat
        BY <3>2 DEF ProcedureIn
      <4>2. l \in Int
        BY <2>3 DEF ModuleRead, ModuleLength
      <4>3. ~ (o >= l)
        BY <2>1 DEF OutOfRange
      <4> HIDE DEF o, l
      <4>4. o < l
        BY <4>1, <4>2, <4>3
      <4> QED
        BY <4>1, <4>4 DEF o
    <3>5. (ExportOffset(m, proc) + Parsed.size) % 65536 \in ExportOffset(m, proc) + 1 .. l
      BY <2>1, <2>2, <3>2, <3>3, <3>4 DEF ProcedureIn
    <3> QED
      BY <3>4, <3>5
  <2> HIDE DEF x, l
  <2>6. ModuleInside(s[m], ObjSize)
    BY <2>2, <2>4, ModulesInsideAt DEF ModulesIn
  <2>7. ModuleInside(y, ObjSize) /\ y.length = l
    BY <2>2, <2>5, <2>6, ModuleInsideMore, SMTT(30)
  <2> HIDE DEF y
  <2>8. ModulesInside(t, m, ObjSize) /\ t[m] = y
    BY <2>2, <2>4, <2>7, ModulesInsideWith DEF ModulesIn
  <2>9. image' = [image EXCEPT !.modules = t]
    BY <2>1 DEF y
  <2> HIDE DEF t
  <2>10. ShapedAs(image', t, r) /\ image'.modules = t /\ image'.ram = r
    <3>1. ShapedAs(image, s, r)
      BY <2>2 DEF ModulesIn
    <3> QED
      BY <2>9, <3>1, ShapeWith
  <2>11. /\ ShapedAs(image, image.modules, image.ram)'
         /\ Count' = Count /\ ObjSize' = ObjSize /\ HeaderError' = "none"
         /\ ModuleLength(m)' = ModuleLength(m') /\ ModuleEnd(m)' = ModuleEnd(m')
         /\ \A k : ModuleLength(k)' = ModuleLength(k) /\ ModuleEnd(k)' = ModuleEnd(k)
    BY <2>1, <2>2, <2>10, FilesStay DEF ShapedAs
  <2>12. ModulesIn(module)'
    BY <2>1, <2>8, <2>10, <2>11 DEF ModulesIn
  <2>13. image'.modules[m].length = ModuleLength(m)
    BY <2>7, <2>8, <2>10 DEF l
  <2>14. proc' \in Nat \ {0}
    BY <2>1, <2>2
  <2> QED
    BY <2>1, <2>2, <2>11, <2>12, <2>13, <2>14, PromiseStays DEF InsideInv, Inside
<1> QED
  BY <1>1, <1>2

\* The modules are at an end when the table is.
LEMMA EndInside ==
  ASSUME InsideInv, EndModule \/ EndModules
  PROVE  InsideInv'
<1>1. CASE EndModule
  <2>1. /\ at = "procedure" /\ at' = "module" /\ case' = case /\ UNCHANGED image
        /\ module' = module + 1 /\ proc' = 1
    BY <1>1 DEF EndModule
  <2>2. /\ Promised /\ HeaderError = "none" /\ module \in 1 .. Count /\ ModulesIn(module)
    BY <2>1 DEF InsideInv, Inside
  <2>3. Count \in Nat
    BY <2>2, PromisedIn DEF AllIn
  <2>4. Count' = Count /\ ObjSize' = ObjSize /\ HeaderError' = "none"
    BY <2>1, <2>2, FilesStay
  <2>5. module' - 1 = module /\ module' \in 1 .. Count' + 1
    BY <2>1, <2>2, <2>3, <2>4
  <2>6. ModulesIn(module - 1)'
    BY <2>1, <2>2, <2>4, <2>5 DEF ModulesIn, ShapedAs
  <2>7. proc' \in Nat \ {0}
    BY <2>1
  <2> QED
    BY <2>1, <2>2, <2>4, <2>5, <2>6, <2>7, PromiseStays DEF InsideInv, Inside
<1>2. CASE EndModules
  <2>1. /\ at = "module" /\ at' = "ram" /\ case' = case /\ UNCHANGED <<image, proc>>
        /\ module > Count
    BY <1>2 DEF EndModules
  <2>2. /\ Promised /\ HeaderError = "none" /\ module \in 1 .. Count + 1
        /\ ModulesIn(module - 1) /\ proc \in Nat \ {0}
    BY <2>1 DEF InsideInv, Inside
  <2>3. Count \in Nat
    BY <2>2, PromisedIn DEF AllIn
  <2>4. Count' = Count /\ ObjSize' = ObjSize /\ HeaderError' = "none"
    BY <2>1, <2>2, FilesStay
  <2>5. module - 1 = Count
    BY <2>1, <2>2, <2>3
  <2>6. ModulesIn(Count)'
    BY <2>1, <2>2, <2>4, <2>5 DEF ModulesIn, ShapedAs
  <2> QED
    BY <2>1, <2>2, <2>4, <2>6, PromiseStays DEF InsideInv, Inside
<1> QED
  BY <1>1, <1>2

\* RAM that is copied is not empty.
LEMMA RamInside ==
  ASSUME InsideInv, RejectRam \/ CopyRam
  PROVE  InsideInv'
<1>1. CASE RejectRam
  <2>1. Fail("INITIAL_RAM_TRUNCATED", {}, OfImage \union Files)
    BY <1>1 DEF RejectRam, FailLoad
  <2> QED
    BY <2>1, FailedInside
<1>2. CASE CopyRam
  <2> DEFINE w == WordsAt(RamStart, RamBytes \div 2)
             s == image.modules
  <2>1. /\ at = "ram" /\ ~ RamTruncated /\ at' = "entry" /\ case' = case
        /\ UNCHANGED <<module, proc>> /\ image' = [image EXCEPT !.ram = w]
    BY <1>2 DEF CopyRam, GoOn
  <2>2. /\ Promised /\ HeaderError = "none" /\ proc \in Nat \ {0}
        /\ ShapedAs(image, s, image.ram) /\ ModulesInside(s, Count, ObjSize)
    BY <2>1 DEF InsideInv, Inside, ModulesIn
  <2>3. w # << >>
    BY <2>1, <2>2, RamThere DEF Promised
  <2> HIDE DEF w, s
  <2>4. ShapedAs(image', s, w) /\ image'.modules = s /\ image'.ram = w
    BY <2>1, <2>2, ShapeWith
  <2>5. Count' = Count /\ ObjSize' = ObjSize /\ HeaderError' = "none"
    BY <2>1, <2>2, FilesStay
  <2>6. ModulesIn(Count)'
    BY <2>2, <2>4, <2>5 DEF ModulesIn, ShapedAs
  <2>7. image'.ram # << >>
    BY <2>3, <2>4
  <2> QED
    BY <2>1, <2>2, <2>5, <2>6, <2>7, PromiseStays DEF InsideInv, Inside
<1> QED
  BY <1>1, <1>2

\* The entry that is accepted stays one of the tables.
LEMMA EntryInside ==
  ASSUME InsideInv, RejectEntry \/ Accept
  PROVE  InsideInv'
<1>1. CASE RejectEntry
  <2>1. Fail("ENTRY_OUT_OF_RANGE", {}, OfImage \union Files)
    BY <1>1 DEF RejectEntry, FailLoad
  <2> QED
    BY <2>1, FailedInside
<1>2. CASE Accept
  <2>1. /\ at = "entry" /\ at' = "done" /\ case' = case /\ UNCHANGED <<module, proc, image>>
        /\ EntryInRange
    BY <1>2 DEF Accept
  <2>2. /\ Promised /\ HeaderError = "none" /\ proc \in Nat \ {0} /\ ModulesIn(Count)
        /\ image.ram # << >>
    BY <2>1 DEF InsideInv, Inside
  <2>3. /\ Count' = Count /\ ObjSize' = ObjSize /\ HeaderError' = "none"
        /\ EntryModule' = EntryModule /\ EntryProcedure' = EntryProcedure
    BY <2>1, <2>2, FilesStay
  <2>4. ModulesIn(Count)'
    BY <2>1, <2>2, <2>3 DEF ModulesIn, ShapedAs
  <2>5. EntryInRange'
    BY <2>1, <2>3 DEF EntryInRange
  <2> QED
    BY <2>1, <2>2, <2>3, <2>4, <2>5, PromiseStays DEF InsideInv, Inside
<1> QED
  BY <1>1, <1>2

\* Neither a failing allocation nor a stutter changes what is loaded.
LEMMA AllocInside ==
  ASSUME InsideInv, AllocFails \/ UNCHANGED vars
  PROVE  InsideInv'
<1>1. CASE AllocFails
  <2>1. \E got, freed : Fail("ALLOC", got, freed)
    BY <1>1 DEF AllocFails, FailLoad, FailModules, FailProcedure
  <2> QED
    BY <2>1, FailedInside
<1>2. CASE UNCHANGED vars
  <2>1. UNCHANGED <<case, at, module, proc, image, result>>
    BY <1>2 DEF vars
  <2>2. /\ Count' = Count /\ ObjSize' = ObjSize /\ HeaderError' = HeaderError
        /\ EntryModule' = EntryModule /\ EntryProcedure' = EntryProcedure
        /\ \A m : ModuleEnd(m)' = ModuleEnd(m) /\ ModuleLength(m)' = ModuleLength(m)
    BY <2>1, FilesStay
  <2>3. \A n : ModulesIn(n)' <=> ModulesIn(n)
    BY <2>1, <2>2 DEF ModulesIn, ShapedAs
  <2>4. ShapedAs(image, << >>, << >>)' <=> ShapedAs(image, << >>, << >>)
    BY <2>1 DEF ShapedAs
  <2>5. EntryInRange' <=> EntryInRange
    BY <2>1, <2>2 DEF EntryInRange
  <2>6. Promised'
    BY <2>1, PromiseStays DEF InsideInv
  <2>7. ModuleEnd(module)' = ModuleEnd(module) /\ ModuleLength(module)' = ModuleLength(module)
    BY <2>1, <2>2 DEF ModuleEnd, ModuleLength
  <2>8. /\ ModulesIn(module)' <=> ModulesIn(module)
        /\ ModulesIn(module - 1)' <=> ModulesIn(module - 1)
        /\ ModulesIn(Count)' <=> ModulesIn(Count)
    BY <2>1, <2>2 DEF ModulesIn, ShapedAs
  <2> QED
    BY <2>1, <2>2, <2>4, <2>5, <2>6, <2>7, <2>8 DEF InsideInv, Inside
<1> QED
  BY <1>1, <1>2

\* Every step of the loader preserves the invariant,
LEMMA InsideNext ==
  ASSUME InsideInv, [Next]_vars
  PROVE  InsideInv'
BY StartInside, GlobalsInside, ModuleStepInside, ProcedureInside, EndInside, RamInside,
   EntryInside, AllocInside DEF Next, Done

\* which holds before the load,
LEMMA InsideFirst ==
  ASSUME Init, case.files = "damaged" => Legible
  PROVE  InsideInv
<1>1. at = "files" /\ module = 1 /\ proc = 1 /\ image = NoImage /\ case \in Cases
  BY DEF Init
<1> QED
  BY <1>1 DEF InsideInv, Inside, Promised

\* and says of a finished load what the property does.
LEMMA InsideInvInside ==
  ASSUME InsideInv
  PROVE  ImageInsideFiles
<1> SUFFICES ASSUME at = "done", result = "OK"
             PROVE  /\ \A m \in DOMAIN image.modules :
                         LET mod == image.modules[m]
                         IN  /\ mod.at + mod.length <= ObjSize
                             /\ \A p \in DOMAIN mod.procs :
                                  /\ mod.procs[p].start < mod.procs[p].code
                                  /\ mod.procs[p].code <= mod.length
                    /\ EntryModule \in DOMAIN image.modules
                    /\ EntryProcedure + 1 \in DOMAIN image.modules[EntryModule].procs
                    /\ image.ram # << >>
  BY DEF ImageInsideFiles
<1> DEFINE s == image.modules
           z == ObjSize
           k == EntryModule
           e == EntryProcedure
           c == Count
<1>1. /\ Promised /\ HeaderError = "none" /\ ModulesInside(s, c, z) /\ image.ram # << >>
      /\ k \in 1 .. c /\ e < Len(s[k].procs)
  BY DEF InsideInv, Inside, ModulesIn, EntryInRange
<1>2. c \in Nat
  BY <1>1, PromisedIn DEF AllIn
<1>3. e \in Nat
  <2> DEFINE w == HeaderWord(8)
  <2>1. w \in Nat
    BY <1>1, HeaderIsThere DEF Promised
  <2> HIDE DEF w
  <2>2. w % 256 \in Nat
    BY <2>1
  <2> QED
    BY <2>2 DEF EntryProcedure, w
<1> HIDE DEF s, z, k, e, c
<1>4. DOMAIN s = 1 .. c
  BY <1>1, <1>2, ModulesInsideAt
<1>5. ASSUME NEW m \in DOMAIN s
      PROVE  /\ s[m].at + s[m].length <= z
             /\ \A p \in DOMAIN s[m].procs :
                  /\ s[m].procs[p].start < s[m].procs[p].code
                  /\ s[m].procs[p].code <= s[m].length
  <2>1. ModuleInside(s[m], z)
    BY <1>1, <1>2, <1>4, ModulesInsideAt
  <2> DEFINE x == s[m]
             y == x.procs
             l == x.length
  <2>2. x.at + l <= z /\ ProcsInside(y, l) /\ l \in Nat
    BY <2>1 DEF ModuleInside
  <2> HIDE DEF x, y, l
  <2>3. ASSUME NEW p \in DOMAIN y
        PROVE  y[p].start < y[p].code /\ y[p].code <= l
    <3>1. y[p].start \in Nat /\ y[p].code \in y[p].start + 1 .. l
      BY <2>2, ProcsInsideAt
    <3> QED
      BY <2>2, <3>1
  <2> QED
    BY <2>2, <2>3 DEF x, y, l
<1>6. e + 1 \in DOMAIN s[k].procs
  <2>1. ModuleInside(s[k], z)
    BY <1>1, <1>2, ModulesInsideAt
  <2> DEFINE y == s[k].procs
  <2>2. ProcsInside(y, s[k].length)
    BY <2>1 DEF ModuleInside
  <2>3. e < Len(y)
    BY <1>1
  <2> HIDE DEF y
  <2>4. DOMAIN y = 1 .. Len(y) /\ Len(y) \in Nat
    <3>1. PICK S : y \in Seq(S)
      BY <2>2 DEF ProcsInside
    <3> QED
      BY <3>1, LenProperties
  <2>5. e + 1 \in DOMAIN y
    BY <1>3, <2>3, <2>4
  <2> QED
    BY <2>5 DEF y
<1> QED
  BY <1>1, <1>4, <1>5, <1>6 DEF s, z, k, e, c

\* ImageInsideFiles of every file: what lpst_image_load accepts, of a whole, a cut or a
\* damaged file, lies inside the files: the modules in the code, the procedures in
\* their modules, the entry in the tables, and there is a RAM.  A damaged file must
\* be Legible: the loader would read behind its buffer where the tables of the modules
\* are not in the file, and cut down an offset of code or a length of a header that is
\* too large for 16 and 8 bits.
THEOREM ImagesLieInside ==
  Spec /\ (case.files = "damaged" => Legible) => []ImageInsideFiles
<1>1. Init /\ (case.files = "damaged" => Legible) => InsideInv
  BY InsideFirst
<1>2. InsideInv /\ [Next]_vars => InsideInv'
  BY InsideNext
<1>3. InsideInv => ImageInsideFiles
  BY InsideInvInside
<1> QED
  BY <1>1, <1>2, <1>3, PTL DEF Spec

----------------------------------------------------------------------------
(* EXTRACT *)

\* A byte before other bytes
LEMMA ByteBefore ==
  ASSUME NEW a \in Nat, NEW x \in Bytes
  PROVE  /\ <<a>> \o x \in Bytes /\ Len(<<a>> \o x) = 1 + Len(x)
         /\ (<<a>> \o x)[1] = a /\ Holds(<<a>> \o x, 1, x)
<1>1. <<a>> \in Seq(Nat) /\ Len(<<a>>) = 1 /\ <<a>>[1] = a
  OBVIOUS
<1>2. /\ <<a>> \o x \in Seq(Nat) /\ Len(<<a>> \o x) = Len(<<a>>) + Len(x)
      /\ Holds(<<a>> \o x, 0, <<a>>) /\ Holds(<<a>> \o x, Len(<<a>>), x)
  BY <1>1, HoldsParts DEF Bytes
<1>3. (<<a>> \o x)[0 + 1] = <<a>>[1] /\ 0 + 1 = 1
  BY <1>1, <1>2 DEF Holds
<1> QED
  BY <1>1, <1>2, <1>3 DEF Bytes

\* Two bytes before other bytes
LEMMA BytesBeforeOthers ==
  ASSUME NEW a \in Nat, NEW b \in Nat, NEW x \in Bytes
  PROVE  /\ <<a, b>> \o x \in Bytes /\ Len(<<a, b>> \o x) = 2 + Len(x)
         /\ (<<a, b>> \o x)[1] = a /\ (<<a, b>> \o x)[2] = b
<1> DEFINE h == <<a, b>>
           y == h \o x
<1>1. h \in Seq(Nat) /\ Len(h) = 2 /\ h[1] = a /\ h[2] = b
  OBVIOUS
<1> HIDE DEF h
<1>2. y \in Seq(Nat) /\ Len(y) = 2 + Len(x) /\ Holds(y, 0, h)
  BY <1>1, HoldsParts DEF Bytes
<1> HIDE DEF y
<1>3. y[0 + 1] = h[1] /\ y[0 + 2] = h[2]
  BY <1>1, <1>2 DEF Holds
<1>4. 0 + 1 = 1 /\ 0 + 2 = 2
  OBVIOUS
<1>5. y \in Bytes /\ Len(y) = 2 + Len(x) /\ y[1] = a /\ y[2] = b
  BY <1>1, <1>2, <1>3, <1>4 DEF Bytes
<1> QED
  BY <1>5 DEF y, h

\* The halves that a number and the padding of an odd one make up
LEMMA Padding ==
  ASSUME NEW n \in Nat
  PROVE  /\ (n + 1) \div 2 \in Nat /\ (n + 2) \div 2 \in Nat
         /\ n + (IF n % 2 = 1 THEN 1 ELSE 0) = 2 * ((n + 1) \div 2)
         /\ 1 + n + (IF n % 2 = 0 THEN 1 ELSE 0) = 2 * ((n + 2) \div 2)
<1>1. n = 2 * (n \div 2) + (n % 2) /\ n % 2 \in 0 .. 1 /\ n \div 2 \in Int
  OBVIOUS
<1> DEFINE q == n \div 2
           r == n % 2
<1> HIDE DEF q, r
<1>2. n = 2 * q + r /\ r \in 0 .. 1 /\ q \in Int
  BY <1>1 DEF q, r
<1> QED
  BY <1>2 DEF r

\* The bytes of a field: its length, itself, and a byte where they are odd
LEMMA FieldBytesAre ==
  ASSUME NEW text \in Bytes
  PROVE  /\ FieldBytes(text) \in Bytes /\ Len(FieldBytes(text)) = 2 * ((Len(text) + 2) \div 2)
         /\ FieldBytes(text)[1] = Len(text) /\ Holds(FieldBytes(text), 1, text)
<1> DEFINE n == Len(text)
           pad == IF n % 2 = 0 THEN <<0>> ELSE << >>
           x == <<n>> \o text
<1>1. n \in Nat
  BY LenProperties DEF Bytes
<1>2. pad \in Seq(Nat) /\ Len(pad) = IF n % 2 = 0 THEN 1 ELSE 0
  OBVIOUS
<1>3. x \in Seq(Nat) /\ Len(x) = 1 + n /\ x[1] = n /\ Holds(x, 1, text)
  BY <1>1, ByteBefore DEF Bytes
<1>4. FieldBytes(text) = x \o pad
  BY DEF FieldBytes
<1>5. 1 + n + Len(pad) = 2 * ((n + 2) \div 2)
  BY <1>1, <1>2, Padding
<1> HIDE DEF n, pad, x
<1>6. /\ x \o pad \in Seq(Nat) /\ Len(x \o pad) = Len(x) + Len(pad) /\ Holds(x \o pad, 1, text)
  BY <1>2, <1>3, HoldsLonger DEF Bytes
<1>7. (x \o pad)[1] = x[1]
  <2>1. Holds(x \o pad, 0, x) /\ 1 \in 1 .. Len(x)
    BY <1>1, <1>2, <1>3, HoldsParts
  <2>2. (x \o pad)[0 + 1] = x[1] /\ 0 + 1 = 1
    BY <2>1 DEF Holds
  <2> QED
    BY <2>2
<1> QED
  BY <1>3, <1>4, <1>5, <1>6, <1>7 DEF Bytes, n

\* Sequences that are all of one length join to so many times that.
LEMMA AlikeJoined ==
  ASSUME NEW s \in Seq(Bytes), NEW e \in Nat, \A i \in 1 .. Len(s) : Len(s[i]) = e
  PROVE  FlattenSeq(s) \in Bytes /\ Len(FlattenSeq(s)) = Len(s) * e
<1> DEFINE n == Len(s)
<1>1. n \in Nat
  BY LenProperties
<1>2. PICK f : Joins(f, s, Nat)
  BY JoinsExist DEF Bytes
<1>3. FlattenSeq(s) = f[n] /\ FlattenSeq(s) \in Bytes
  BY <1>2, FlattenJoins, FlattenType DEF Bytes
<1> DEFINE T == {i \in Nat : Len(f[i]) = i * e}
<1>4. 0 \in T
  BY <1>2 DEF Joins
<1>5. ASSUME NEW i \in 0 .. n - 1, i \in T PROVE i + 1 \in T
  <2>1. i + 1 \in 1 .. n /\ (i + 1) - 1 = i /\ i + 1 \in Nat
    BY <1>1
  <2>2. Lies(f, s, i + 1)
    BY <1>2, <2>1, JoinedAt DEF Bytes
  <2>3. Len(f[i + 1]) = Len(f[i]) + Len(s[i + 1])
    BY <2>1, <2>2 DEF Lies
  <2>4. Len(f[i]) = i * e /\ Len(s[i + 1]) = e
    BY <1>5, <2>1
  <2>5. i * e + e = (i + 1) * e
    BY <2>1
  <2> QED
    BY <2>1, <2>3, <2>4, <2>5
<1> HIDE DEF T, n
<1>6. \A i \in 0 .. n - 1 : i \in T => i + 1 \in T
  BY <1>5
<1>7. n \in T
  <2>1. \A i \in 0 .. n : i \in T
    BY <1>1, <1>4, <1>6, UpTo
  <2> QED
    BY <1>1, <2>1
<1> QED
  BY <1>3, <1>7 DEF T, n

\* The words that a typed field takes
TypedWords(c) == 1 + Len(c) * ((Len(c[1]) + 1) \div 2)

LEMMA TypedBytesAre ==
  ASSUME NEW c \in Components
  PROVE  /\ TypedBytes(c) \in Bytes /\ Len(TypedBytes(c)) = 2 * TypedWords(c)
         /\ TypedBytes(c)[1] = Len(c[1]) /\ TypedBytes(c)[2] = Len(c) /\ TypedWords(c) \in Nat
<1> DEFINE n == Len(c)
           size == Len(c[1])
           pad == IF size % 2 = 1 THEN <<0>> ELSE << >>
           e == 2 * ((size + 1) \div 2)
           s == [i \in DOMAIN c |-> c[i] \o pad]
<1>1. /\ c \in Seq(Bytes) /\ n \in 1 .. 255 /\ size \in 1 .. 255 /\ DOMAIN c = 1 .. n
      /\ \A i \in 1 .. n : c[i] \in Bytes /\ Len(c[i]) = size
  BY LenProperties, ElementOfSeq DEF Components
<1>2. pad \in Seq(Nat) /\ Len(pad) = IF size % 2 = 1 THEN 1 ELSE 0
  OBVIOUS
<1>3. size + Len(pad) = e /\ e \in Nat /\ size \in Nat /\ n \in Nat /\ (size + 1) \div 2 \in Nat
  <2> HIDE DEF n, size, pad
  <2>1. size \in Nat /\ n \in Nat
    BY <1>1
  <2>2. /\ size + (IF size % 2 = 1 THEN 1 ELSE 0) = 2 * ((size + 1) \div 2)
        /\ (size + 1) \div 2 \in Nat
    BY <2>1, Padding
  <2> QED
    BY <1>2, <2>1, <2>2
<1>4. TypedBytes(c) = <<size, n>> \o FlattenSeq(s)
  BY DEF TypedBytes
<1> HIDE DEF n, size, pad, e
<1>5. ASSUME NEW i \in 1 .. n PROVE c[i] \o pad \in Bytes /\ Len(c[i] \o pad) = e
  BY <1>1, <1>2, <1>3, HoldsParts DEF Bytes
<1>6. s \in Seq(Bytes) /\ Len(s) = n /\ \A i \in 1 .. n : s[i] = c[i] \o pad
  BY <1>1, <1>3, <1>5
<1> HIDE DEF s
<1>7. FlattenSeq(s) \in Bytes /\ Len(FlattenSeq(s)) = n * e
  BY <1>3, <1>5, <1>6, AlikeJoined
<1>8. 2 + n * e = 2 * (1 + n * ((size + 1) \div 2)) /\ 1 + n * ((size + 1) \div 2) \in Nat
  <2> DEFINE h == (size + 1) \div 2
  <2>1. h \in Nat /\ e = 2 * h
    BY <1>3 DEF e
  <2> HIDE DEF h
  <2>2. 2 + n * (2 * h) = 2 * (1 + n * h) /\ 1 + n * h \in Nat
    BY <1>3, <2>1
  <2> QED
    BY <2>1, <2>2 DEF h
<1>9. TypedWords(c) = 1 + n * ((size + 1) \div 2)
  BY DEF TypedWords, n, size
<1> DEFINE x == FlattenSeq(s)
           all == <<size, n>> \o x
<1>10. x \in Bytes /\ 2 + Len(x) = 2 * TypedWords(c)
  BY <1>7, <1>8, <1>9
<1> HIDE DEF x
<1>11. all \in Bytes /\ Len(all) = 2 + Len(x) /\ all[1] = size /\ all[2] = n
  BY <1>3, <1>10, BytesBeforeOthers
<1>12. TypedBytes(c) = all /\ TypedWords(c) \in Nat
  BY <1>4, <1>8, <1>9 DEF x
<1> HIDE DEF all
<1> QED
  BY <1>10, <1>11, <1>12 DEF n, size

WrittenFields(q) == [i \in DOMAIN q |-> FieldBytes(q[i])]

LEMMA WrittenIsSeq ==
  ASSUME NEW q \in FieldLists
  PROVE  /\ Len(q) \in 1 .. 255 /\ WrittenFields(q) \in Seq(Bytes) /\ Len(WrittenFields(q)) = Len(q)
         /\ \A i \in 1 .. Len(q) : /\ q[i] \in Bytes /\ Len(q[i]) \in 0 .. 127
                                   /\ WrittenFields(q)[i] = FieldBytes(q[i])
                                   /\ FieldBytes(q[i]) \in Bytes
<1>1. /\ q \in Seq(Bytes) /\ Len(q) \in 1 .. 255 /\ DOMAIN q = 1 .. Len(q)
      /\ \A i \in 1 .. Len(q) : Len(q[i]) <= 127 /\ q[i] \in Bytes
  BY LenProperties, ElementOfSeq DEF FieldLists
<1>2. ASSUME NEW i \in 1 .. Len(q)
      PROVE  q[i] \in Bytes /\ Len(q[i]) \in 0 .. 127 /\ FieldBytes(q[i]) \in Bytes
  <2>1. q[i] \in Bytes /\ Len(q[i]) <= 127
    BY <1>1
  <2>2. Len(q[i]) \in Nat
    BY <2>1, LenProperties DEF Bytes
  <2>3. FieldBytes(q[i]) \in Bytes
    BY <2>1, FieldBytesAre
  <2> DEFINE m == Len(q[i])
  <2> HIDE DEF m
  <2>4. m \in Nat /\ m <= 127
    BY <2>1, <2>2 DEF m
  <2>5. m \in 0 .. 127
    BY <2>4
  <2> QED
    BY <2>1, <2>3, <2>5 DEF m
<1>3. Len(q) \in Nat
  BY <1>1
<1> DEFINE n == Len(q)
<1> HIDE DEF n
<1>4. WrittenFields(q) = [i \in 1 .. n |-> FieldBytes(q[i])]
  BY <1>1 DEF WrittenFields, n
<1>5. \A i \in 1 .. n : FieldBytes(q[i]) \in Bytes
  BY <1>2 DEF n
<1>6. WrittenFields(q) \in Seq(Bytes) /\ Len(WrittenFields(q)) = n /\ n \in Nat
  BY <1>3, <1>4, <1>5 DEF n
<1>7. n = Len(q)
  BY DEF n
<1>8. \A i \in 1 .. Len(q) : WrittenFields(q)[i] = FieldBytes(q[i])
  BY <1>4, <1>7
<1>9. /\ Len(q) \in 1 .. 255
      /\ WrittenFields(q) \in Seq(Bytes) /\ Len(WrittenFields(q)) = Len(q)
  BY <1>1, <1>6, <1>7
<1>10. ASSUME NEW i \in 1 .. Len(q)
       PROVE  /\ q[i] \in Bytes /\ Len(q[i]) \in 0 .. 127
              /\ WrittenFields(q)[i] = FieldBytes(q[i])
              /\ FieldBytes(q[i]) \in Bytes
  <2>1. WrittenFields(q)[i] = FieldBytes(q[i])
    BY <1>8
  <2>2. q[i] \in Bytes /\ Len(q[i]) \in 0 .. 127 /\ FieldBytes(q[i]) \in Bytes
    BY <1>2
  <2> QED
    BY <2>1, <2>2
<1> QED
  BY <1>9, <1>10, ZenonT(40)

\* An even number of bytes, and the words of one more field
LEMMA WordsAdd ==
  ASSUME NEW u \in Nat, NEW k \in Nat, u % 2 = 0
  PROVE  /\ (u + 2 * k) % 2 = 0 /\ u \div 2 \in Nat
         /\ (u + 2 * k) \div 2 = (u \div 2) + k
         /\ \A left \in Nat : u + 2 * k <= 2 * left => (u \div 2) + k <= left
<1>1. u = 2 * (u \div 2) /\ u \div 2 \in Nat
  OBVIOUS
<1> DEFINE h == u \div 2
<1> HIDE DEF h
<1>2. u = 2 * h /\ h \in Nat
  BY <1>1 DEF h
<1> QED
  BY <1>2 DEF h

LEMMA WordsOfField ==
  ASSUME NEW n \in Nat
  PROVE  (n + 2) \div 2 \in Nat \ {0} /\ (n + 2) \div 2 = (n + 1 + 1) \div 2
OBVIOUS

\* What is measured of the i-th field of a payload
Measured(q, f, start, left, i) ==
  [ok |-> TRUE, at |-> start + Len(f[i - 1]), first |-> Len(q[i]),
   bytes |-> Len(q[i]) + 1, words |-> (Len(q[i]) + 2) \div 2,
   left |-> left - (Len(f[i]) \div 2)]

\* A payload of these fields, its words not fewer than they take
Payload(memory, start, left, q, f) ==
  /\ start \in Nat /\ left \in Nat /\ q \in FieldLists /\ Joins(f, WrittenFields(q), Nat)
  /\ Holds(memory, start + 2, FlattenSeq(WrittenFields(q)))
  /\ Len(FlattenSeq(WrittenFields(q))) <= 2 * left

\* Fields that take whole words, no more than there are
WholeWords(q, f, left) ==
  /\ Len(f[0]) = 0
  /\ \A i \in 1 .. Len(q) :
       /\ Len(f[i - 1]) \in Nat /\ Len(f[i]) \in Nat
       /\ Len(f[i]) = Len(f[i - 1]) + 2 * ((Len(q[i]) + 2) \div 2)
       /\ Len(f[i]) <= 2 * left
  /\ \A i \in 0 .. Len(q) : Len(f[i]) % 2 = 0

LEMMA FieldsTakeWords ==
  ASSUME NEW memory, NEW start, NEW left, NEW q, NEW f, Payload(memory, start, left, q, f)
  PROVE  WholeWords(q, f, left)
<1> DEFINE s == WrittenFields(q)
           n == Len(q)
<1>1. /\ n \in Nat /\ s \in Seq(Bytes) /\ Len(s) = n /\ Joins(f, s, Nat) /\ left \in Nat
      /\ Len(FlattenSeq(s)) <= 2 * left
  BY WrittenIsSeq DEF Payload
<1>2. \A i \in 1 .. n : s[i] = FieldBytes(q[i]) /\ q[i] \in Bytes /\ Len(q[i]) \in Nat
  BY WrittenIsSeq DEF Payload
<1>3. Len(FlattenSeq(s)) \in Nat
  <2>1. FlattenSeq(s) \in Seq(Nat)
    BY <1>1, FlattenType DEF Bytes
  <2> QED
    BY <2>1, LenProperties
<1> HIDE DEF s, n
<1>4. ASSUME NEW i \in 1 .. n
      PROVE  /\ Len(f[i - 1]) \in Nat /\ Len(f[i]) \in Nat
             /\ Len(f[i]) = Len(f[i - 1]) + 2 * ((Len(q[i]) + 2) \div 2)
             /\ Len(f[i]) <= 2 * left
  <2>1. /\ Len(f[i - 1]) \in Nat /\ Len(f[i]) = Len(f[i - 1]) + Len(s[i])
        /\ Len(f[i]) <= Len(FlattenSeq(s))
    BY <1>1, FlattenHolds DEF Bytes
  <2>2. Len(s[i]) = 2 * ((Len(q[i]) + 2) \div 2)
    BY <1>2, FieldBytesAre
  <2> DEFINE k == (Len(q[i]) + 2) \div 2
  <2>3. k \in Nat
    BY <1>2, WordsOfField
  <2> HIDE DEF k
  <2>4. Len(f[i]) = Len(f[i - 1]) + 2 * k
    BY <2>1, <2>2 DEF k
  <2>5. Len(f[i]) \in Nat /\ Len(f[i]) <= 2 * left
    BY <1>1, <1>3, <2>1, <2>3, <2>4
  <2> QED
    BY <2>1, <2>4, <2>5 DEF k
<1>5. f[0] = << >> /\ Len(f[0]) = 0
  BY <1>1 DEF Joins
<1> DEFINE T == {i \in Nat : Len(f[i]) % 2 = 0}
<1>6. 0 \in T
  <2>1. 0 % 2 = 0 /\ 0 \in Nat
    OBVIOUS
  <2> QED
    BY <1>5, <2>1, Zenon
<1>7. ASSUME NEW i \in 0 .. n - 1, i \in T PROVE i + 1 \in T
  <2>1. i + 1 \in 1 .. n /\ (i + 1) - 1 = i /\ i + 1 \in Nat
    BY <1>1
  <2> DEFINE k == (Len(q[i + 1]) + 2) \div 2
  <2>2. k \in Nat
    BY <1>2, <2>1, WordsOfField
  <2> HIDE DEF k
  <2>3. Len(f[i]) \in Nat /\ Len(f[i + 1]) = Len(f[i]) + 2 * k
    BY <1>4, <2>1 DEF k
  <2>4. Len(f[i]) % 2 = 0
    BY <1>7
  <2> DEFINE u == Len(f[i])
  <2> HIDE DEF u
  <2>5. u \in Nat /\ u % 2 = 0
    BY <2>3, <2>4 DEF u
  <2>6. (u + 2 * k) % 2 = 0
    BY <2>2, <2>5, WordsAdd
  <2>7. Len(f[i + 1]) % 2 = 0
    BY <2>3, <2>6 DEF u
  <2> QED
    BY <2>1, <2>7
<1> HIDE DEF T
<1>8. \A i \in 0 .. n - 1 : i \in T => i + 1 \in T
  BY <1>7
<1>9. \A i \in 0 .. n : i \in T
  BY <1>1, <1>6, <1>8, UpTo
<1>10. \A i \in 0 .. n : Len(f[i]) % 2 = 0
  BY <1>9 DEF T
<1> QED
  BY <1>4, <1>5, <1>10 DEF n, WholeWords

\* What is measured of each field is what was written, and the next follows it.
IsMeasured(memory, q, f, start, left, i) ==
  /\ PackedField(memory, start + Len(f[i - 1]), left - (Len(f[i - 1]) \div 2))
       = Measured(q, f, start, left, i)
  /\ Measured(q, f, start, left, i).at + 2 * Measured(q, f, start, left, i).words
       = start + Len(f[i])
  /\ Measured(q, f, start, left, i).left = left - (Len(f[i]) \div 2)

LEMMA FieldMeasured ==
  ASSUME NEW memory, NEW start, NEW left, NEW q, NEW f, Payload(memory, start, left, q, f),
         NEW i \in 1 .. Len(q)
  PROVE  IsMeasured(memory, q, f, start, left, i)
<1> DEFINE s == WrittenFields(q)
           flat == FlattenSeq(s)
           u == Len(f[i - 1])
           v == Len(f[i])
           n == Len(q[i])
           k == (n + 2) \div 2
<1>1. u \in Nat /\ v \in Nat /\ v = u + 2 * k /\ v <= 2 * left /\ u % 2 = 0 /\ v % 2 = 0
  <2>1. i - 1 \in 0 .. Len(q) /\ i \in 0 .. Len(q)
    BY WrittenIsSeq DEF Payload
  <2>2. WholeWords(q, f, left)
    BY FieldsTakeWords
  <2> QED
    BY <2>1, <2>2, Zenon DEF WholeWords
<1>2. n \in 0 .. 127 /\ q[i] \in Bytes /\ s[i] = FieldBytes(q[i]) /\ s \in Seq(Bytes) /\ i \in 1 .. Len(s)
  BY WrittenIsSeq DEF Payload
<1>3. start \in Nat /\ left \in Nat /\ Joins(f, s, Nat) /\ Holds(memory, start + 2, flat)
  BY DEF Payload
<1>4. k \in Nat \ {0} /\ k = (n + 1 + 1) \div 2
  <2>1. n \in Nat
    BY <1>2
  <2> HIDE DEF n
  <2> QED
    BY <2>1, WordsOfField
<1>5. PayloadOf(memory, start + u) = n
  <2>1. Holds(flat, u, s[i]) /\ v <= Len(flat)
    BY <1>2, <1>3, FlattenHolds DEF Bytes
  <2>2. s[i][1] = n /\ 1 \in 1 .. Len(s[i])
    <3>1. Len(s[i]) = 2 * k /\ s[i][1] = n
      BY <1>2, FieldBytesAre
    <3> HIDE DEF k, n
    <3> QED
      BY <1>4, <3>1
  <2> HIDE DEF flat, s, u, v, n, k
  <2>3. flat[u + 1] = n
    BY <2>1, <2>2 DEF Holds
  <2>4. u + 1 \in 1 .. Len(flat)
    <3>1. flat \in Seq(Nat)
      BY <1>2, FlattenType DEF flat, Bytes
    <3>2. Len(flat) \in Nat
      BY <3>1, LenProperties
    <3> QED
      BY <1>1, <1>4, <2>1, <3>2
  <2>5. memory[(start + 2) + (u + 1)] = n
    BY <1>3, <2>3, <2>4 DEF Holds
  <2>6. (start + 2) + (u + 1) = (start + u) + 3
    BY <1>1, <1>3
  <2> QED
    BY <2>5, <2>6 DEF PayloadOf
<1> HIDE DEF s, flat, u, v, n, k
<1>6. /\ v \div 2 = (u \div 2) + k /\ u \div 2 \in Nat /\ v \div 2 <= left /\ v \div 2 \in Nat
  <2>1. u \in Nat /\ v = u + 2 * k /\ k \in Nat /\ u % 2 = 0 /\ left \in Nat /\ v <= 2 * left
    BY <1>1, <1>3, <1>4
  <2>2. /\ u \div 2 \in Nat /\ (u + 2 * k) \div 2 = (u \div 2) + k
        /\ (u + 2 * k <= 2 * left => (u \div 2) + k <= left)
    BY <2>1, WordsAdd
  <2>3. (u \div 2) + k \in Nat
    BY <2>1, <2>2
  <2> QED
    BY <2>1, <2>2, <2>3
<1>7. PackedField(memory, start + u, left - (u \div 2))
        = [ok |-> TRUE, at |-> start + u, first |-> n, bytes |-> n + 1, words |-> k,
           left |-> (left - (u \div 2)) - k]
  <2>1. ~(n >= 128) /\ ~(left - (u \div 2) <= 0) /\ ~(k > left - (u \div 2))
    BY <1>2, <1>3, <1>4, <1>6
  <2> QED
    BY <1>4, <1>5, <2>1 DEF PackedField
<1>8. (left - (u \div 2)) - k = left - (v \div 2)
  BY <1>3, <1>4, <1>6
<1>9. Measured(q, f, start, left, i)
        = [ok |-> TRUE, at |-> start + u, first |-> n, bytes |-> n + 1, words |-> k,
           left |-> left - (v \div 2)]
  BY DEF Measured, u, v, n, k
<1>10. (start + u) + 2 * k = start + v
  <2>1. start \in Nat /\ u \in Nat /\ k \in Nat /\ v = u + 2 * k
    BY <1>1, <1>3, <1>4
  <2> QED
    BY <2>1
<1>11. Measured(q, f, start, left, i).at = start + u /\ Measured(q, f, start, left, i).words = k
      /\ Measured(q, f, start, left, i).left = left - (v \div 2)
  BY <1>9
<1> QED
  BY <1>7, <1>8, <1>9, <1>10, <1>11 DEF u, v, IsMeasured

\* h lists what is measured from one field to the next.
Measures(h, memory, start, left, n) ==
  h = [i \in 1 .. n |->
         IF i = 1 THEN PackedField(memory, start, left)
         ELSE IF ~h[i - 1].ok THEN Failed
         ELSE PackedField(memory, h[i - 1].at + 2 * h[i - 1].words, h[i - 1].left)]

MeasuredAll(q, f, start, left, n) == [i \in 1 .. n |-> Measured(q, f, start, left, i)]

LEMMA PackedFieldsAre ==
  ASSUME NEW memory, NEW start, NEW left, NEW q, NEW f, Payload(memory, start, left, q, f),
         NEW n \in 1 .. Len(q)
  PROVE  PackedFields(memory, start, left, n) = MeasuredAll(q, f, start, left, n)
<1> DEFINE M(i) == Measured(q, f, start, left, i)
           g == [i \in 1 .. n |-> M(i)]
           h == CHOOSE x : Measures(x, memory, start, left, n)
<1>1. n \in Nat /\ n <= Len(q) /\ Len(q) \in Nat /\ start \in Nat /\ left \in Nat /\ Len(f[0]) = 0
  <2>1. WholeWords(q, f, left)
    BY FieldsTakeWords
  <2> QED
    BY <2>1, WrittenIsSeq DEF Payload, WholeWords
<1>2. ASSUME NEW i \in 1 .. n
      PROVE  /\ M(i) = PackedField(memory, start + Len(f[i - 1]), left - (Len(f[i - 1]) \div 2))
             /\ M(i).at + 2 * M(i).words = start + Len(f[i])
             /\ M(i).ok /\ M(i).left = left - (Len(f[i]) \div 2)
  <2>1. i \in 1 .. Len(q)
    BY <1>1
  <2>2. M(i).ok
    BY DEF Measured
  <2>3. IsMeasured(memory, q, f, start, left, i)
    BY <2>1, FieldMeasured
  <2> QED
    BY <2>2, <2>3 DEF IsMeasured
<1> HIDE DEF M
<1>3. n >= 1 => M(1) = PackedField(memory, start, left)
  <2>1. ASSUME n >= 1
        PROVE  M(1) = PackedField(memory, start + Len(f[1 - 1]), left - (Len(f[1 - 1]) \div 2))
    <3>1. 1 \in 1 .. n
      BY <1>1, <2>1
    <3> QED
      BY <1>2, <3>1
  <2>2. 1 - 1 = 0 /\ 0 \div 2 = 0 /\ start + 0 = start /\ left - 0 = left
    BY <1>1
  <2>3. start + Len(f[1 - 1]) = start /\ left - (Len(f[1 - 1]) \div 2) = left
    BY <1>1, <2>2
  <2> QED
    BY <2>1, <2>3
<1>4. ASSUME NEW i \in 1 .. n, i # 1
      PROVE  /\ i - 1 \in 1 .. n /\ M(i - 1).ok
             /\ M(i) = PackedField(memory, M(i - 1).at + 2 * M(i - 1).words, M(i - 1).left)
  <2>1. i - 1 \in 1 .. n
    BY <1>1, <1>4
  <2>2. /\ M(i - 1).at + 2 * M(i - 1).words = start + Len(f[i - 1])
        /\ M(i - 1).ok /\ M(i - 1).left = left - (Len(f[i - 1]) \div 2)
    BY <1>2, <2>1
  <2> QED
    BY <1>2, <2>1, <2>2
<1>5. Measures(g, memory, start, left, n)
  <2>1. ASSUME NEW i \in 1 .. n
        PROVE  g[i] = IF i = 1 THEN PackedField(memory, start, left)
                      ELSE IF ~g[i - 1].ok THEN Failed
                      ELSE PackedField(memory, g[i - 1].at + 2 * g[i - 1].words, g[i - 1].left)
    <3>1. CASE i = 1
      <4>1. n >= 1
        BY <1>1, <3>1
      <4> QED
        BY <1>3, <3>1, <4>1
    <3>2. CASE i # 1
      <4>1. g[i - 1] = M(i - 1) /\ g[i] = M(i)
        BY <1>4, <3>2
      <4> HIDE DEF g
      <4> QED
        BY <1>4, <3>2, <4>1
    <3> QED
      BY <3>1, <3>2
  <2>2. g = [i \in 1 .. n |-> g[i]]
    OBVIOUS
  <2> HIDE DEF g
  <2>3. g = [i \in 1 .. n |->
               IF i = 1 THEN PackedField(memory, start, left)
               ELSE IF ~g[i - 1].ok THEN Failed
               ELSE PackedField(memory, g[i - 1].at + 2 * g[i - 1].words, g[i - 1].left)]
    BY <2>1, <2>2
  <2> QED
    BY <2>3 DEF Measures
<1> HIDE DEF g
<1>6. Measures(h, memory, start, left, n)
  BY <1>5
<1>7. PackedFields(memory, start, left, n) = h
  BY Zenon DEF PackedFields, Measures
<1> HIDE DEF h
<1>8. /\ h = [i \in 1 .. n |-> h[i]]
      /\ \A i \in 1 .. n : h[i] = IF i = 1 THEN PackedField(memory, start, left)
                                  ELSE IF ~h[i - 1].ok THEN Failed
                                  ELSE PackedField(memory, h[i - 1].at + 2 * h[i - 1].words, h[i - 1].left)
  <2>1. h = [i \in 1 .. n |->
               IF i = 1 THEN PackedField(memory, start, left)
               ELSE IF ~h[i - 1].ok THEN Failed
               ELSE PackedField(memory, h[i - 1].at + 2 * h[i - 1].words, h[i - 1].left)]
    BY <1>6 DEF Measures
  <2> QED
    BY <2>1
<1> DEFINE T == {i \in Nat : i = 0 \/ h[i] = M(i)}
<1>9. 0 \in T
  OBVIOUS
<1>10. ASSUME NEW j \in 0 .. n - 1, j \in T PROVE j + 1 \in T
  <2> DEFINE i == j + 1
  <2>1. i \in 1 .. n /\ i - 1 = j /\ i \in Nat
    BY <1>1
  <2> HIDE DEF i
  <2>2. CASE i = 1
    <3>1. n >= 1
      BY <1>1, <2>1, <2>2
    <3>2. h[i] = PackedField(memory, start, left) /\ M(i) = PackedField(memory, start, left)
      BY <1>3, <1>8, <2>1, <2>2, <3>1
    <3> QED
      BY <2>1, <3>2 DEF i
  <2>3. CASE i # 1
    <3>1. j # 0
      BY <2>1, <2>3
    <3>2. h[i - 1] = M(i - 1)
      BY <1>10, <2>1, <3>1
    <3>3. /\ M(i - 1).ok
          /\ M(i) = PackedField(memory, M(i - 1).at + 2 * M(i - 1).words, M(i - 1).left)
      BY <1>4, <2>1, <2>3
    <3>4. h[i] = IF i = 1 THEN PackedField(memory, start, left)
                 ELSE IF ~h[i - 1].ok THEN Failed
                 ELSE PackedField(memory, h[i - 1].at + 2 * h[i - 1].words, h[i - 1].left)
      BY <1>8, <2>1
    <3>5. h[i] = M(i)
      BY <2>3, <3>2, <3>3, <3>4, Zenon
    <3> QED
      BY <2>1, <3>5 DEF i
  <2> QED
    BY <2>2, <2>3
<1> HIDE DEF T
<1>11. \A i \in 0 .. n : i \in T
  <2>1. \A i \in 0 .. n - 1 : i \in T => i + 1 \in T
    BY <1>10
  <2> QED
    BY <1>1, <1>9, <2>1, UpTo
<1>12. ASSUME NEW i \in 1 .. n PROVE h[i] = M(i)
  <2>1. i \in 0 .. n /\ i # 0
    BY <1>1
  <2> QED
    BY <1>11, <2>1 DEF T
<1>13. h = [i \in 1 .. n |-> M(i)]
  BY <1>8, <1>12
<1> QED
  BY <1>7, <1>13 DEF MeasuredAll, M

\* The parts of so many together, where the sum of the first is known
LEMMA TotalIs ==
  ASSUME NEW S, NEW fields \in Seq(S), NEW part, NEW g,
         g[0] = 0, \A i \in 1 .. Len(fields) : g[i] = g[i - 1] + fields[i][part]
  PROVE  TotalOf(fields, part) = g[Len(fields)]
<1> DEFINE n == Len(fields)
           Sums(x) == x = [i \in 0 .. n |-> IF i = 0 THEN 0 ELSE x[i - 1] + fields[i][part]]
           k == [i \in 0 .. n |-> g[i]]
           h == CHOOSE x : Sums(x)
<1>1. n \in Nat
  BY LenProperties
<1>2. TotalOf(fields, part) = h[n]
  BY Zenon DEF TotalOf
<1> HIDE DEF n
<1>3. Sums(k)
  <2>1. ASSUME NEW i \in 0 .. n PROVE k[i] = IF i = 0 THEN 0 ELSE k[i - 1] + fields[i][part]
    <3>1. CASE i = 0
      BY <1>1, <3>1
    <3>2. CASE i # 0
      <4>1. i \in 1 .. n /\ i - 1 \in 0 .. n
        BY <1>1, <3>2
      <4>2. k[i] = g[i] /\ k[i - 1] = g[i - 1]
        BY <4>1
      <4> QED
        BY <3>2, <4>1, <4>2 DEF n
    <3> QED
      BY <3>1, <3>2
  <2>2. k = [i \in 0 .. n |-> k[i]]
    OBVIOUS
  <2> HIDE DEF k
  <2> QED
    BY <2>1, <2>2
<1>4. Sums(h)
  <2> HIDE DEF k, Sums
  <2> QED
    BY <1>3
<1> HIDE DEF k, h
<1>5. \A i \in 0 .. n : h[i] = IF i = 0 THEN 0 ELSE h[i - 1] + fields[i][part]
  BY <1>4
<1> HIDE DEF Sums
<1> DEFINE T == {i \in Nat : h[i] = g[i]}
<1>6. 0 \in T
  BY <1>1, <1>5
<1>7. ASSUME NEW j \in 0 .. n - 1, j \in T PROVE j + 1 \in T
  <2>1. j + 1 \in 1 .. n /\ j + 1 \in 0 .. n /\ (j + 1) - 1 = j /\ j + 1 \in Nat /\ j + 1 # 0
    BY <1>1
  <2>2. h[j] = g[j]
    BY <1>7
  <2>3. h[j + 1] = h[j] + fields[j + 1][part] /\ g[j + 1] = g[j] + fields[j + 1][part]
    BY <1>5, <2>1 DEF n
  <2> QED
    BY <2>1, <2>2, <2>3
<1> HIDE DEF T
<1>8. n \in T
  <2>1. \A i \in 0 .. n - 1 : i \in T => i + 1 \in T
    BY <1>7
  <2>2. \A i \in 0 .. n : i \in T
    BY <1>1, <1>6, <2>1, UpTo
  <2> QED
    BY <1>1, <2>2
<1> QED
  BY <1>2, <1>8 DEF T, n

\* A word of two bytes, taken apart
LEMMA BytesOfWord ==
  ASSUME NEW a \in 0 .. 255, NEW b \in Nat
  PROVE  (a + 256 * b) % 256 = a /\ (a + 256 * b) \div 256 = b
<1>1. 256 \in Nat \ {0} /\ a \in 0 .. 256 - 1 /\ b \in Int
  OBVIOUS
<1>2. (256 * b + a) % 256 = a
  BY <1>1, RestOfMultiple
<1>3. (256 * b + a) \div 256 = b
  BY <1>1, QuotientIs
<1>4. 256 * b + a = a + 256 * b
  OBVIOUS
<1> QED
  BY <1>2, <1>3, <1>4

\* A record of these fields at the start of the memory
RecordThere(memory, tag, left, q, f) ==
  /\ memory \in Bytes /\ tag \in 0 .. 255
  /\ memory[1] = tag /\ memory[2] = Len(q) /\ Payload(memory, 2, left, q, f)

\* What is selected of it
Selection(tag, left, q, f) ==
  [ok |-> TRUE, kind |-> "record", at |-> 0, start |-> 2,
   words |-> 1 + (Len(FlattenSeq(WrittenFields(q))) \div 2),
   bytes |-> TotalOf(MeasuredAll(q, f, 2, left, Len(q)), "bytes"), tag |-> tag, count |-> Len(q)]

\* The fields are as many words as they were written in.
LEMMA WordsTotal ==
  ASSUME NEW memory, NEW start, NEW left, NEW q, NEW f, Payload(memory, start, left, q, f)
  PROVE  TotalOf(MeasuredAll(q, f, start, left, Len(q)), "words")
           = Len(FlattenSeq(WrittenFields(q))) \div 2
<1> DEFINE n == Len(q)
           all == MeasuredAll(q, f, start, left, n)
           g == [i \in 0 .. n |-> Len(f[i]) \div 2]
           S == {Measured(q, f, start, left, i) : i \in 1 .. n}
<1>1. n \in Nat /\ \A i \in 1 .. n : Len(q[i]) \in Nat
  BY WrittenIsSeq DEF Payload
<1>2. WholeWords(q, f, left)
  BY FieldsTakeWords
<1>3. Len(FlattenSeq(WrittenFields(q))) = Len(f[n])
  <2>1. WrittenFields(q) \in Seq(Bytes) /\ Len(WrittenFields(q)) = n /\ Joins(f, WrittenFields(q), Nat)
    BY WrittenIsSeq DEF Payload
  <2>2. FlattenSeq(WrittenFields(q)) = f[Len(WrittenFields(q))]
    BY <2>1, FlattenJoins DEF Bytes
  <2> QED
    BY <2>1, <2>2
<1> HIDE DEF n
<1>4. all \in Seq(S) /\ Len(all) = n /\ \A i \in 1 .. n : all[i] = Measured(q, f, start, left, i)
  <2>1. all = [i \in 1 .. n |-> Measured(q, f, start, left, i)]
    BY DEF MeasuredAll
  <2> DEFINE M(i) == Measured(q, f, start, left, i)
  <2>2. all = [i \in 1 .. n |-> M(i)] /\ S = {M(i) : i \in 1 .. n}
    BY <2>1
  <2> HIDE DEF M, all, S
  <2>3. \A i \in 1 .. n : M(i) \in S
    BY <2>2
  <2>4. all \in Seq(S) /\ Len(all) = n /\ \A i \in 1 .. n : all[i] = M(i)
    BY <1>1, <2>2, <2>3
  <2> QED
    BY <2>4 DEF M
<1>5. g[0] = 0
  <2>1. 0 \in 0 .. n /\ 0 \div 2 = 0
    BY <1>1
  <2>2. g[0] = Len(f[0]) \div 2
    BY <2>1
  <2>3. Len(f[0]) = 0
    BY <1>2 DEF WholeWords
  <2> HIDE DEF g
  <2> QED
    BY <2>1, <2>2, <2>3
<1>6. ASSUME NEW i \in 1 .. n PROVE g[i] = g[i - 1] + all[i]["words"]
  <2> DEFINE u == Len(f[i - 1])
             k == (Len(q[i]) + 2) \div 2
             m == Len(q[i])
  <2>1. u \in Nat /\ Len(f[i]) = u + 2 * k
    BY <1>2, Zenon DEF WholeWords, n
  <2>2. i - 1 \in 0 .. Len(q) /\ i - 1 \in 0 .. n /\ i \in 0 .. n
    BY <1>1 DEF n
  <2>3. u % 2 = 0
    BY <1>2, <2>2, Zenon DEF WholeWords
  <2>4. k \in Nat
    <3>1. m \in Nat
      BY <1>1
    <3> HIDE DEF m
    <3> QED
      BY <3>1, WordsOfField DEF m
  <2>5. g[i] = Len(f[i]) \div 2 /\ g[i - 1] = u \div 2
    BY <2>2
  <2>6. all[i]["words"] = k
    <3>1. all[i] = Measured(q, f, start, left, i)
      BY <1>4
    <3> HIDE DEF all
    <3> QED
      BY <3>1 DEF Measured
  <2> HIDE DEF u, k, m, g, all
  <2>7. (u + 2 * k) \div 2 = (u \div 2) + k
    BY <2>1, <2>3, <2>4, WordsAdd
  <2> QED
    BY <2>1, <2>5, <2>6, <2>7
<1>7. n \in 0 .. n
  BY <1>1
<1>8. g[n] = Len(f[n]) \div 2
  BY <1>7
<1> HIDE DEF all, g, S
<1>9. TotalOf(all, "words") = g[Len(all)]
  BY <1>4, <1>5, <1>6, TotalIs
<1> QED
  BY <1>3, <1>4, <1>8, <1>9 DEF all, n

LEMMA RecordMeasured ==
  ASSUME NEW memory, NEW tag, NEW left, NEW q, NEW f, RecordThere(memory, tag, left, q, f)
  PROVE  Record(memory, 0, left + 1) = Selection(tag, left, q, f)
<1> DEFINE n == Len(q)
           all == MeasuredAll(q, f, 2, left, n)
<1>1. /\ n \in 1 .. 255 /\ left \in Nat /\ tag \in 0 .. 255 /\ Payload(memory, 2, left, q, f)
      /\ memory[1] = tag /\ memory[2] = n
  BY WrittenIsSeq DEF RecordThere, Payload
<1>2. PackedFields(memory, 2, left, n) = all
  <2>1. n \in 1 .. n
    <3>1. n \in 1 .. 255
      BY <1>1
    <3> HIDE DEF n
    <3> QED
      BY <3>1
  <2> QED
    BY <1>1, <2>1, PackedFieldsAre
<1>3. TotalOf(all, "words") = Len(FlattenSeq(WrittenFields(q))) \div 2
  BY <1>1, WordsTotal
<1>4. all = [i \in 1 .. n |-> Measured(q, f, 2, left, i)]
  BY DEF MeasuredAll
<1> HIDE DEF n, all
<1>5. ~ \E i \in DOMAIN all : ~all[i].ok
  <2>1. ASSUME NEW i \in 1 .. n PROVE all[i].ok
    <3>1. all[i] = Measured(q, f, 2, left, i)
      BY <1>4
    <3> QED
      BY <3>1 DEF Measured
  <2> QED
    BY <1>4, <2>1
<1>6. WordOf(memory, 0) = tag + 256 * n
  <2>1. 2 * 0 + 1 = 1 /\ 2 * 0 + 2 = 2
    OBVIOUS
  <2> QED
    BY <1>1, <2>1 DEF WordOf
<1>7. (tag + 256 * n) % 256 = tag /\ (tag + 256 * n) \div 256 = n
  <2>1. n \in Nat /\ tag \in 0 .. 255
    BY <1>1
  <2> QED
    BY <2>1, BytesOfWord, ZenonT(40)
<1>8. 2 * 0 + 2 = 2 /\ (left + 1) - 1 = left /\ ~(left + 1 <= 0) /\ n # 0
  BY <1>1
<1> DEFINE header == WordOf(memory, 0)
           count == header \div 256
           fields == PackedFields(memory, 2 * 0 + 2, (left + 1) - 1, IF count = 0 THEN 1 ELSE count)
<1>9. count = n /\ header % 256 = tag
  BY <1>6, <1>7
<1> HIDE DEF header
<1>10. fields = all
  BY <1>2, <1>8, <1>9
<1> HIDE DEF count, fields
<1>11. Record(memory, 0, left + 1)
        = [ok |-> TRUE, kind |-> "record", at |-> 0, start |-> 2 * 0 + 2,
           words |-> 1 + TotalOf(fields, "words"), bytes |-> TotalOf(fields, "bytes"),
           tag |-> header % 256, count |-> count]
  <2>1. ~ \E i \in DOMAIN fields : ~fields[i].ok
    BY <1>5, <1>10
  <2> QED
    BY <1>8, <2>1, Zenon DEF Record, header, count, fields
<1> QED
  BY <1>3, <1>8, <1>9, <1>10, <1>11 DEF Selection, all, n

\* A field of the record that was measured
LEMMA FieldThere ==
  ASSUME NEW memory, NEW tag, NEW left, NEW q, NEW f, RecordThere(memory, tag, left, q, f),
         NEW m \in 1 .. Len(q)
  PROVE  /\ RecordComponent(memory, Selection(tag, left, q, f), m)
              = [ok |-> TRUE, start |-> (2 + Len(f[m - 1])) + 1, bytes |-> Len(q[m])]
         /\ Holds(memory, (2 + Len(f[m - 1])) + 3, q[m])
         /\ Len(f[m - 1]) \in Nat
<1> DEFINE s == WrittenFields(q)
           flat == FlattenSeq(s)
           w == Len(flat) \div 2
           u == Len(f[m - 1])
           sel == Selection(tag, left, q, f)
<1>1. /\ memory \in Bytes /\ Payload(memory, 2, left, q, f) /\ Holds(memory, 2 + 2, flat)
      /\ Len(q) \in 1 .. 255 /\ s \in Seq(Bytes) /\ Len(s) = Len(q) /\ Joins(f, s, Nat)
      /\ s[m] = FieldBytes(q[m]) /\ q[m] \in Bytes /\ FieldBytes(q[m]) \in Bytes /\ q \in FieldLists
  BY WrittenIsSeq DEF RecordThere, Payload
<1>2. flat \in Bytes /\ Len(flat) \in Nat
  <2>1. flat \in Seq(Nat)
    BY <1>1, FlattenType DEF Bytes
  <2> QED
    BY <2>1, LenProperties DEF Bytes
<1>3. Len(flat) % 2 = 0
  <2>1. WholeWords(q, f, left)
    BY <1>1, FieldsTakeWords
  <2>2. Len(q) \in 0 .. Len(q)
    BY <1>1
  <2>3. Len(f[Len(q)]) % 2 = 0
    BY <2>1, <2>2, Zenon DEF WholeWords
  <2>4. flat = f[Len(s)]
    BY <1>1, FlattenJoins DEF Bytes
  <2> HIDE DEF flat, s
  <2> QED
    BY <1>1, <2>3, <2>4
<1>4. w \in Nat /\ Len(flat) <= 2 * w
  <2> DEFINE l == Len(flat)
  <2>1. l \in Nat /\ l % 2 = 0
    BY <1>2, <1>3
  <2> HIDE DEF l
  <2>2. l \div 2 \in Nat /\ l <= 2 * (l \div 2)
    BY <2>1
  <2> QED
    BY <2>2 DEF l
<1> HIDE DEF w
<1>5. Payload(memory, 2, w, q, f)
  BY <1>1, <1>4 DEF Payload
<1>6. PackedFields(memory, 2, w, m) = MeasuredAll(q, f, 2, w, m)
  BY <1>5, PackedFieldsAre
<1>7. MeasuredAll(q, f, 2, w, m)[m] = Measured(q, f, 2, w, m)
  <2>1. m \in 1 .. m
    BY <1>1
  <2> QED
    BY <2>1 DEF MeasuredAll
<1>8. sel.start = 2 /\ sel.words - 1 = w /\ sel.count = Len(q)
  <2>1. sel.start = 2 /\ sel.words = 1 + w /\ sel.count = Len(q)
    BY DEF Selection, w
  <2> HIDE DEF sel
  <2> QED
    BY <1>4, <2>1
<1> HIDE DEF sel
<1>9. RecordComponent(memory, sel, m) = [ok |-> TRUE, start |-> (2 + u) + 1, bytes |-> Len(q[m])]
  <2>1. ~(m > sel.count)
    BY <1>1, <1>8
  <2> DEFINE fields == PackedFields(memory, sel.start, sel.words - 1, m)
  <2>2. fields[m] = Measured(q, f, 2, w, m)
    BY <1>6, <1>7, <1>8
  <2> HIDE DEF fields
  <2>3. fields[m].ok /\ fields[m].at = 2 + u /\ fields[m].first = Len(q[m])
    BY <2>2 DEF Measured
  <2> QED
    BY <2>1, <2>3 DEF RecordComponent, fields
<1>10. Holds(memory, (2 + u) + 3, q[m]) /\ u \in Nat
  <2>1. Holds(flat, u, s[m]) /\ u \in Nat
    BY <1>1, FlattenHolds DEF Bytes
  <2>2. Holds(s[m], 1, q[m])
    BY <1>1, FieldBytesAre
  <2>3. s[m] \in Bytes
    BY <1>1
  <2> HIDE DEF flat, s, u
  <2>4. Holds(flat, u + 1, q[m])
    BY <1>1, <1>2, <2>1, <2>2, <2>3, HoldsDeeper DEF Bytes
  <2>5. Holds(memory, (2 + 2) + (u + 1), q[m])
    <3>1. 2 + 2 \in Nat /\ u + 1 \in Nat
      BY <2>1
    <3> QED
      BY <1>1, <1>2, <2>4, <3>1, HoldsDeeper DEF Bytes
  <2>6. (2 + 2) + (u + 1) = (2 + u) + 3
    BY <2>1
  <2> QED
    BY <2>1, <2>5, <2>6
<1> QED
  BY <1>9, <1>10 DEF sel, u

\* A typed field is measured as it was written.
LEMMA TypedMeasured ==
  ASSUME NEW memory, NEW place \in Nat, NEW left \in Int, NEW c \in Components,
         Holds(memory, 2 * place, TypedBytes(c)), TypedWords(c) <= left
  PROVE  TypedField(memory, place, left).ok /\ TypedField(memory, place, left).words = TypedWords(c)
<1> DEFINE size == Len(c[1])
           n == Len(c)
           e == TypedBytes(c)
           half == (size + 1) \div 2
<1>1. size \in 1 .. 255 /\ n \in 1 .. 255
  BY DEF Components
<1>2. e[1] = size /\ e[2] = n /\ Len(e) = 2 * TypedWords(c) /\ TypedWords(c) \in Nat
  BY TypedBytesAre
<1>3. TypedWords(c) = 1 + n * half
  BY DEF TypedWords
<1> HIDE DEF size, n, e
<1>4. half \in Nat
  <2>1. size \in Nat
    BY <1>1
  <2> QED
    BY <2>1, Padding
<1> HIDE DEF half
<1>5. TypedWords(c) # 0 /\ 1 \in 1 .. Len(e) /\ 2 \in 1 .. Len(e)
  <2>1. n * half \in Nat
    BY <1>1, <1>4
  <2> DEFINE x == n * half
             y == Len(e)
  <2> HIDE DEF x, y
  <2>2. TypedWords(c) = 1 + x /\ x \in Nat /\ y = 2 * TypedWords(c)
    BY <1>2, <1>3, <2>1 DEF x, y
  <2>3. TypedWords(c) # 0 /\ 1 \in 1 .. y /\ 2 \in 1 .. y
    BY <2>2
  <2> QED
    BY <2>3 DEF y
<1> DEFINE header == WordOf(memory, place)
<1>6. header = size + 256 * n
  <2>1. memory[2 * place + 1] = size /\ memory[2 * place + 2] = n
    BY <1>2, <1>5 DEF Holds, e
  <2> QED
    BY <2>1 DEF WordOf
<1>7. header % 256 = size /\ header \div 256 = n /\ header # 0 /\ size # 0
  <2>1. size \in 0 .. 255 /\ n \in Nat /\ size # 0
    BY <1>1
  <2>2. (size + 256 * n) % 256 = size /\ (size + 256 * n) \div 256 = n
    BY <2>1, BytesOfWord, ZenonT(40)
  <2>3. size + 256 * n # 0
    BY <2>1
  <2> HIDE DEF header
  <2> QED
    BY <1>6, <2>1, <2>2, <2>3
<1> DEFINE tag == header % 256
           count == header \div 256
           words == CASE header = 0             -> 1
                      [] header # 0 /\ tag = 0  -> WordOf(memory, place + 1)
                      [] tag # 0                -> 1 + count * ((tag + 1) \div 2)
           bytes == CASE header = 0             -> 0
                      [] header # 0 /\ tag = 0  -> (words - 1) * 2
                      [] tag # 0                -> count * tag
<1>8. tag = size /\ count = n
  BY <1>7
<1> HIDE DEF header, tag, count
<1>9. words = TypedWords(c)
  <2>1. words = 1 + count * ((tag + 1) \div 2)
    <3>1. header # 0 /\ tag # 0
      BY <1>7, <1>8
    <3> QED
      BY <3>1
  <2> QED
    BY <1>3, <1>8, <2>1 DEF half
<1> HIDE DEF words, bytes
<1>10. ~(left <= 0 \/ (header # 0 /\ tag = 0 /\ left < 2)) /\ ~(words = 0 \/ words > left)
  BY <1>2, <1>5, <1>7, <1>8, <1>9
<1>11. TypedField(memory, place, left)
         = [ok |-> TRUE, kind |-> "typed", at |-> place, start |-> 2 * place,
            words |-> words, bytes |-> bytes, tag |-> tag, count |-> count]
  BY <1>10, Zenon DEF TypedField, words, bytes, tag, count, header
<1> QED
  BY <1>9, <1>11

TypedFields(p) == [i \in DOMAIN p |-> TypedBytes(p[i])]

LEMMA TypedFieldsAre ==
  ASSUME NEW p \in Seq(Components)
  PROVE  /\ TypedFields(p) \in Seq(Bytes) /\ Len(TypedFields(p)) = Len(p) /\ Len(p) \in Nat
         /\ \A i \in 1 .. Len(p) : /\ TypedFields(p)[i] = TypedBytes(p[i]) /\ p[i] \in Components
                                   /\ TypedBytes(p[i]) \in Bytes
<1> DEFINE n == Len(p)
           B(i) == TypedBytes(p[i])
<1>1. n \in Nat /\ DOMAIN p = 1 .. n
  BY LenProperties
<1>2. \A i \in 1 .. n : p[i] \in Components
  BY ElementOfSeq
<1>3. \A i \in 1 .. n : B(i) \in Bytes
  BY <1>2, TypedBytesAre
<1>4. TypedFields(p) = [i \in 1 .. n |-> B(i)]
  BY <1>1 DEF TypedFields
<1> HIDE DEF n, B
<1>5. TypedFields(p) \in Seq(Bytes) /\ Len(TypedFields(p)) = n /\ \A i \in 1 .. n : TypedFields(p)[i] = B(i)
  BY <1>1, <1>3, <1>4
<1> QED
  BY <1>1, <1>2, <1>3, <1>5 DEF n, B

\* The words of fewer than 2 * W bytes
LEMMA HalfIsWord ==
  ASSUME NEW n \in Nat, n < 2 * W
  PROVE  n \div 2 \in 0 .. W - 1
<1> DEFINE q == n \div 2
<1>1. n = 2 * q + (n % 2) /\ n % 2 \in 0 .. 1 /\ q \in Nat
  OBVIOUS
<1> HIDE DEF q
<1>2. W \in Nat
  BY DEF W
<1>3. q < W
  BY <1>1, <1>2
<1> QED
  BY <1>1, <1>2, <1>3 DEF q

\* All the typed fields are skipped, as they take whole words.
LEMMA SkippedIs ==
  ASSUME NEW memory \in Bytes, NEW p \in Seq(Components), NEW span \in Nat,
         Holds(memory, 0, FlattenSeq(TypedFields(p))),
         Len(FlattenSeq(TypedFields(p))) <= 2 * span,
         Len(FlattenSeq(TypedFields(p))) < 2 * W
  PROVE  /\ Skipped(memory, span, Len(p), 0) = Len(FlattenSeq(TypedFields(p))) \div 2
         /\ Len(FlattenSeq(TypedFields(p))) \in Nat
         /\ Len(FlattenSeq(TypedFields(p))) % 2 = 0
<1> DEFINE s == TypedFields(p)
           n == Len(p)
           flat == FlattenSeq(s)
           size == Len(flat)
<1>1. /\ n \in Nat /\ s \in Seq(Bytes) /\ Len(s) = n
      /\ \A i \in 1 .. n : s[i] = TypedBytes(p[i]) /\ p[i] \in Components
  BY TypedFieldsAre
<1>2. PICK f : Joins(f, s, Nat)
  BY <1>1, JoinsExist DEF Bytes
<1>3. Holds(memory, 0, flat) /\ size <= 2 * span /\ size < 2 * W
  OBVIOUS
<1>4. flat = f[n] /\ flat \in Bytes /\ size \in Nat /\ f[0] = << >>
  <2>1. flat = f[Len(s)] /\ flat \in Seq(Nat)
    BY <1>1, <1>2, FlattenJoins, FlattenType DEF Bytes
  <2>2. Len(flat) \in Nat
    BY <2>1, LenProperties
  <2> HIDE DEF s, n, flat
  <2> QED
    BY <1>1, <1>2, <2>1, <2>2 DEF Bytes, Joins
<1> HIDE DEF s, n, flat, size
<1> DEFINE u(i) == Len(f[i])
           k(i) == TypedWords(p[i])
<1>5. ASSUME NEW i \in 1 .. n
      PROVE  /\ u(i - 1) \in Nat /\ u(i) = u(i - 1) + 2 * k(i) /\ u(i) <= size
             /\ k(i) \in Nat /\ Holds(memory, u(i - 1), TypedBytes(p[i])) /\ p[i] \in Components
  <2>1. Len(f[i - 1]) \in Nat /\ Len(f[i]) = Len(f[i - 1]) + Len(s[i]) /\ Len(f[i]) <= Len(flat)
        /\ Holds(flat, Len(f[i - 1]), s[i])
    BY <1>1, <1>2, FlattenHolds DEF Bytes, flat
  <2>2. s[i] = TypedBytes(p[i]) /\ p[i] \in Components
    BY <1>1
  <2>3. /\ TypedBytes(p[i]) \in Bytes /\ Len(TypedBytes(p[i])) = 2 * TypedWords(p[i])
        /\ TypedWords(p[i]) \in Nat
    BY <2>2, TypedBytesAre
  <2> DEFINE b == Len(f[i - 1])
             t == TypedBytes(p[i])
  <2> HIDE DEF b, t
  <2>4. Holds(memory, b, t)
    <3>1. Holds(flat, b, t) /\ b \in Nat /\ t \in Bytes
      BY <2>1, <2>2, <2>3 DEF b, t
    <3>2. Holds(memory, 0 + b, t) /\ 0 + b = b
      BY <1>3, <1>4, <3>1, HoldsDeeper DEF Bytes
    <3> QED
      BY <3>2
  <2> QED
    BY <2>1, <2>2, <2>3, <2>4 DEF b, t, size
<1>6. u(0) = 0
  BY <1>4
<1> HIDE DEF u, k
<1> DEFINE E == {i \in Nat : u(i) % 2 = 0}
<1>7. 0 \in E
  <2>1. 0 % 2 = 0 /\ 0 \in Nat
    OBVIOUS
  <2> QED
    BY <1>6, <2>1, Zenon
<1>8. ASSUME NEW j \in 0 .. n - 1, j \in E PROVE j + 1 \in E
  <2>1. j + 1 \in 1 .. n /\ (j + 1) - 1 = j /\ j + 1 \in Nat
    BY <1>1
  <2>2. u(j) \in Nat /\ u(j + 1) = u(j) + 2 * k(j + 1) /\ k(j + 1) \in Nat /\ u(j) % 2 = 0
    BY <1>5, <1>8, <2>1
  <2>3. (u(j) + 2 * k(j + 1)) % 2 = 0
    BY <2>2, WordsAdd
  <2> QED
    BY <2>1, <2>2, <2>3
<1> HIDE DEF E
<1>9. \A i \in 0 .. n : i \in E
  <2>1. \A j \in 0 .. n - 1 : j \in E => j + 1 \in E
    BY <1>8
  <2> QED
    BY <1>1, <1>7, <2>1, UpTo
<1>10. \A i \in 0 .. n : u(i) % 2 = 0
  BY <1>9 DEF E
<1> DEFINE half(i) == u(i) \div 2
           At(i) == [words |-> half(i), more |-> TRUE]
           typed(i) == TypedField(memory, half(i - 1), span - half(i - 1))
<1>11. ASSUME NEW i \in 1 .. n
       PROVE  typed(i).ok /\ half(i) = half(i - 1) + typed(i).words
  <2>1. /\ u(i - 1) \in Nat /\ u(i) = u(i - 1) + 2 * k(i) /\ u(i) <= 2 * span
        /\ k(i) \in Nat /\ u(i - 1) % 2 = 0
    <3>1. i - 1 \in 0 .. n
      BY <1>1
    <3>2. /\ u(i - 1) \in Nat /\ u(i) = u(i - 1) + 2 * k(i) /\ u(i) <= size /\ k(i) \in Nat
      BY <1>5
    <3>3. u(i) <= 2 * span
      BY <1>3, <1>4, <3>2
    <3> QED
      BY <1>10, <3>1, <3>2, <3>3
  <2>2. /\ half(i - 1) \in Nat /\ half(i) = half(i - 1) + k(i) /\ half(i - 1) + k(i) <= span
    <3> DEFINE x == u(i - 1)
               y == k(i)
    <3> HIDE DEF x, y
    <3>1. x \in Nat /\ y \in Nat /\ x % 2 = 0 /\ x + 2 * y <= 2 * span /\ u(i) = x + 2 * y
      BY <2>1 DEF x, y
    <3>2. x \div 2 \in Nat /\ (x + 2 * y) \div 2 = (x \div 2) + y /\ (x \div 2) + y <= span
      BY <3>1, WordsAdd
    <3> QED
      BY <3>1, <3>2 DEF x, y
  <2>3. 2 * half(i - 1) = u(i - 1)
    <3> DEFINE x == u(i - 1)
    <3>1. x \in Nat /\ x % 2 = 0
      BY <2>1
    <3> HIDE DEF x
    <3>2. 2 * (x \div 2) = x
      BY <3>1
    <3> QED
      BY <3>2 DEF x
  <2> HIDE DEF half
  <2>4. p[i] \in Components /\ Holds(memory, 2 * half(i - 1), TypedBytes(p[i]))
    BY <1>5, <2>3
  <2>5. TypedWords(p[i]) <= span - half(i - 1) /\ span - half(i - 1) \in Int
    BY <2>1, <2>2 DEF k
  <2>6. typed(i).ok /\ typed(i).words = TypedWords(p[i])
    BY <2>2, <2>4, <2>5, TypedMeasured
  <2> QED
    BY <2>2, <2>6 DEF k
<1>12. half(0) = 0
  <2>1. 0 \div 2 = 0
    OBVIOUS
  <2> QED
    BY <1>6, <2>1
<1> HIDE DEF half
<1> DEFINE Skips(x) == x = [i \in 0 .. n |->
             IF i = 0 THEN [words |-> 0, more |-> TRUE]
             ELSE LET before == x[i - 1]
                      field  == TypedField(memory, before.words, span - before.words)
                  IN  IF before.more /\ field.ok
                      THEN [words |-> before.words + field.words, more |-> TRUE]
                      ELSE [words |-> before.words, more |-> FALSE]]
           Step(i, before) ==
             LET field == TypedField(memory, before.words, span - before.words)
             IN  IF before.more /\ field.ok
                 THEN [words |-> before.words + field.words, more |-> TRUE]
                 ELSE [words |-> before.words, more |-> FALSE]
           g == [i \in 0 .. n |-> At(i)]
           h == CHOOSE x : Skips(x)
<1>13. ASSUME NEW i \in 1 .. n PROVE Step(i, At(i - 1)) = At(i)
  <2>1. At(i - 1).words = half(i - 1) /\ At(i - 1).more
    OBVIOUS
  <2>2. TypedField(memory, At(i - 1).words, span - At(i - 1).words) = typed(i)
    BY <2>1
  <2> HIDE DEF typed
  <2>3. typed(i).ok /\ half(i) = half(i - 1) + typed(i).words
    BY <1>11 DEF typed
  <2> QED
    BY <2>1, <2>2, <2>3
<1> HIDE DEF typed, At, Step
<1>14. Skips(g)
  <2>1. ASSUME NEW i \in 0 .. n
        PROVE  g[i] = IF i = 0 THEN [words |-> 0, more |-> TRUE] ELSE Step(i, g[i - 1])
    <3>1. CASE i = 0
      BY <1>12, <3>1 DEF At
    <3>2. CASE i # 0
      <4>1. i \in 1 .. n /\ i - 1 \in 0 .. n
        BY <1>1, <3>2
      <4>2. g[i] = At(i) /\ g[i - 1] = At(i - 1)
        BY <4>1
      <4> QED
        BY <1>13, <3>2, <4>1, <4>2
    <3> QED
      BY <3>1, <3>2
  <2>2. g = [i \in 0 .. n |-> g[i]]
    OBVIOUS
  <2> HIDE DEF g
  <2>3. g = [i \in 0 .. n |-> IF i = 0 THEN [words |-> 0, more |-> TRUE] ELSE Step(i, g[i - 1])]
    BY <2>1, <2>2
  <2> QED
    BY <2>3, Zenon DEF Step
<1>15. Skips(h)
  <2> HIDE DEF Skips, g
  <2> QED
    BY <1>14
<1>16. Skipped(memory, span, n, 0) = Span(h[n].words)
  BY Zenon DEF Skipped
<1> HIDE DEF h, g
<1>17. h = [i \in 0 .. n |-> IF i = 0 THEN [words |-> 0, more |-> TRUE] ELSE Step(i, h[i - 1])]
  BY <1>15, Zenon DEF Step
<1> HIDE DEF Skips
<1>18. \A i \in 0 .. n : h[i] = IF i = 0 THEN [words |-> 0, more |-> TRUE] ELSE Step(i, h[i - 1])
  BY <1>17
<1> DEFINE T == {i \in Nat : h[i] = At(i)}
<1>19. 0 \in T
  <2>1. 0 \in 0 .. n /\ 0 \in Nat
    BY <1>1
  <2>2. h[0] = [words |-> 0, more |-> TRUE]
    BY <1>18, <2>1
  <2> QED
    BY <1>12, <2>1, <2>2 DEF At
<1>20. ASSUME NEW j \in 0 .. n - 1, j \in T PROVE j + 1 \in T
  <2>1. j + 1 \in 1 .. n /\ j + 1 \in 0 .. n /\ (j + 1) - 1 = j /\ j + 1 \in Nat /\ j + 1 # 0
    BY <1>1
  <2>2. h[j + 1] = Step(j + 1, h[j])
    BY <1>18, <2>1
  <2>3. h[j] = At(j)
    BY <1>20
  <2>4. Step(j + 1, At(j)) = At(j + 1)
    BY <1>13, <2>1
  <2> QED
    BY <2>1, <2>2, <2>3, <2>4
<1> HIDE DEF T
<1>21. n \in T
  <2>1. \A j \in 0 .. n - 1 : j \in T => j + 1 \in T
    BY <1>20
  <2>2. \A i \in 0 .. n : i \in T
    BY <1>1, <1>19, <2>1, UpTo
  <2> QED
    BY <1>1, <2>2
<1>22. h[n].words = size \div 2 /\ size % 2 = 0
  <2>1. h[n] = At(n)
    BY <1>21 DEF T
  <2>2. u(n) = size /\ n \in 0 .. n
    BY <1>1, <1>4 DEF u, size
  <2> QED
    BY <1>10, <2>1, <2>2 DEF At, half
<1>23. Span(size \div 2) = size \div 2
  BY <1>3, <1>4, HalfIsWord, WordKeeps DEF Span
<1> QED
  BY <1>4, <1>16, <1>22, <1>23 DEF size, flat, s, n

\* It does not matter which two are joined first.
LEMMA JoinedAlike ==
  ASSUME NEW x \in Bytes, NEW y \in Bytes, NEW z \in Bytes
  PROVE  (x \o y) \o z = x \o (y \o z)
<1>1. x \in Seq(Nat) /\ y \in Seq(Nat) /\ z \in Seq(Nat)
  BY DEF Bytes
<1> QED
  BY <1>1, ConcatAssociative

\* What is copied fits in the destination.
LEMMA CopyFits ==
  ASSUME NEW memory, NEW from \in Nat, NEW count \in Nat, NEW room \in Nat
  PROVE  Len(CopyIf(memory, from, count, room)) \in Nat
         /\ Len(CopyIf(memory, from, count, room)) <= room
<1> DEFINE m == from + 1
           n == from + count
           S == {memory[i] : i \in m .. n}
<1>1. CASE ~(room >= count)
  <2>1. CopyIf(memory, from, count, room) = << >>
    BY <1>1 DEF CopyIf, HasRoom
  <2> QED
    BY <2>1, EmptySeq
<1>2. CASE room >= count
  <2>1. CopyIf(memory, from, count, room) = SubSeq(memory, m, n)
    BY <1>2 DEF CopyIf, HasRoom
  <2>2. m \in Int /\ n \in Int /\ (IF m <= n THEN n - m + 1 ELSE 0) = count
    OBVIOUS
  <2>3. \A i \in m .. n : memory[i] \in S
    OBVIOUS
  <2> HIDE DEF m, n, S
  <2>4. Len(SubSeq(memory, m, n)) = IF m <= n THEN n - m + 1 ELSE 0
    BY <2>2, <2>3, SubSeqProperties
  <2> QED
    BY <1>2, <2>1, <2>2, <2>4
<1> QED
  BY <1>1, <1>2

\* A field of the record, if the destination has room for it
Found(q, m, room) == Answer(Len(q[m]), IF Len(q[m]) <= room THEN q[m] ELSE << >>)

LEMMA CountSelected ==
  ASSUME NEW memory, NEW tag, NEW left, NEW q, NEW f, NEW guard, NEW mode, NEW room,
         mode \in {0, 65535}
  PROVE  Selected(memory, Selection(tag, left, q, f), guard, mode, room) = Answer(Len(q), << >>)
<1>1. Selection(tag, left, q, f).count = Len(q)
  BY DEF Selection
<1> HIDE DEF Selection
<1> QED
  BY <1>1 DEF Selected

LEMMA FieldSelected ==
  ASSUME NEW memory, NEW tag, NEW left, NEW q, NEW f, RecordThere(memory, tag, left, q, f),
         NEW guard, NEW room \in Nat, NEW mode \in 1 .. Len(q)
  PROVE  Selected(memory, Selection(tag, left, q, f), guard, mode, room) = Found(q, mode, room)
<1> DEFINE sel == Selection(tag, left, q, f)
           u == Len(f[mode - 1])
           from == ((2 + u) + 1) + 2
           text == q[mode]
<1>1. /\ RecordComponent(memory, sel, mode)
           = [ok |-> TRUE, start |-> (2 + u) + 1, bytes |-> Len(text)]
      /\ Holds(memory, (2 + u) + 3, text) /\ u \in Nat
  BY FieldThere
<1>2. Len(q) \in 1 .. 255 /\ text \in Bytes /\ Len(text) \in 0 .. 127 /\ memory \in Bytes
  BY WrittenIsSeq DEF RecordThere, Payload
<1>3. sel.kind = "record"
  BY DEF Selection
<1> HIDE DEF sel, u, text
<1>4. Component(memory, sel, mode) = [ok |-> TRUE, start |-> (2 + u) + 1, bytes |-> Len(text)]
  BY <1>1, <1>3 DEF Component
<1>5. mode \notin {0, 65535}
  <2> DEFINE n == Len(q)
  <2>1. n \in 1 .. 255 /\ mode \in 1 .. n
    BY <1>2
  <2> HIDE DEF n
  <2> QED
    BY <2>1
<1>6. Selected(memory, sel, guard, mode, room)
        = Answer(Len(text), CopyIf(memory, from, Len(text), room))
  BY <1>3, <1>4, <1>5 DEF Selected
<1>7. from = (2 + u) + 3 /\ from \in Nat
  BY <1>1
<1> HIDE DEF from
<1>8. SubSeq(memory, from + 1, from + Len(text)) = text
  BY <1>1, <1>2, <1>7, HoldsSubSeq DEF Bytes
<1>9. CopyIf(memory, from, Len(text), room) = IF Len(text) <= room THEN text ELSE << >>
  BY <1>2, <1>8 DEF CopyIf, HasRoom
<1> QED
  BY <1>6, <1>9 DEF Found, text, sel

LEMMA NothingSelected ==
  ASSUME NEW memory, NEW tag, NEW left, NEW q, NEW f,
         NEW guard, NEW room, NEW mode \in Nat \ {0, 65535}, mode > Len(q)
  PROVE  Selected(memory, Selection(tag, left, q, f), guard, mode, room) = Nothing
<1> DEFINE sel == Selection(tag, left, q, f)
<1>1. sel.count = Len(q) /\ sel.kind = "record"
  BY DEF Selection
<1> HIDE DEF sel
<1>2. Component(memory, sel, mode) = Failed
  BY <1>1 DEF Component, RecordComponent
<1>3. ~Component(memory, sel, mode).ok
  BY <1>2 DEF Failed
<1> QED
  BY <1>3 DEF Selected, sel

Padding40 == [i \in 1 .. 40 |-> 0]

RecordAlone(r) == (<<r.tag, Len(r.fields), 0, 0>> \o RecordFields(r)) \o Padding40

\* The record is found behind the typed fields.
LEMMA RecordFound ==
  ASSUME NEW r, GoodRecord(r)
  PROVE  \E left, f :
           /\ RecordThere(RecordAlone(r), r.tag, left, r.fields, f)
           /\ \A mode : /\ mode # FalseWord =>
                             ExtractFrom(MemoryOf(r), CallOf(r, mode))
                               = Selected(RecordAlone(r), Selection(r.tag, left, r.fields, f),
                                          r.guard, mode, r.room)
                        /\ mode = FalseWord =>
                             ExtractFrom(MemoryOf(r), CallOf(r, mode))
                               = IF r.guard # FalseWord THEN Guarded(RecordAlone(r), r.guard, r.room)
                                                        ELSE Leading(RecordAlone(r), r.room)
<1> DEFINE q == r.fields
           p == r.prefix
           prefix == PrefixBytes(r)
           fields == RecordFields(r)
           head == <<r.tag, Len(q), 0, 0>>
           rest == (head \o fields) \o Padding40
           memory == MemoryOf(r)
           a == Len(prefix)
           b == Len(fields)
           span == (a + b) \div 2 + 1
<1>1. /\ p \in Seq(Components) /\ q \in FieldLists /\ r.tag \in 0 .. 255
      /\ a + b < 2 * (W - 1)
  BY DEF GoodRecord
<1>2. /\ Len(q) \in 1 .. 255 /\ WrittenFields(q) \in Seq(Bytes) /\ Len(WrittenFields(q)) = Len(q)
  BY <1>1, WrittenIsSeq
<1>3. fields = FlattenSeq(WrittenFields(q)) /\ prefix = FlattenSeq(TypedFields(p))
  BY DEF RecordFields, WrittenFields, PrefixBytes, TypedFields
<1>4. fields \in Bytes /\ prefix \in Bytes /\ head \in Bytes /\ Padding40 \in Bytes
      /\ a \in Nat /\ b \in Nat /\ Len(head) = 4 /\ head[1] = r.tag /\ head[2] = Len(q)
  <2>1. fields \in Seq(Nat)
    BY <1>2, <1>3, FlattenType DEF Bytes
  <2>2. prefix \in Seq(Nat)
    BY <1>1, <1>3, TypedFieldsAre, FlattenType DEF Bytes
  <2>3. a \in Nat /\ b \in Nat
    BY <2>1, <2>2, LenProperties
  <2> DEFINE n == Len(q)
  <2>4. n \in Nat /\ r.tag \in Nat
    <3>1. n \in 1 .. 255 /\ r.tag \in 0 .. 255
      BY <1>1, <1>2
    <3> HIDE DEF n
    <3> QED
      BY <3>1
  <2> HIDE DEF n
  <2>5. head \in Seq(Nat) /\ Len(head) = 4 /\ head[1] = r.tag /\ head[2] = n
    BY <2>4 DEF n
  <2>6. Padding40 \in Seq(Nat)
    BY DEF Padding40
  <2> QED
    BY <2>1, <2>2, <2>3, <2>5, <2>6 DEF Bytes, n
<1>5. PICK f : Joins(f, WrittenFields(q), Nat)
  BY <1>2, JoinsExist DEF Bytes
<1> HIDE DEF q, p, prefix, fields, head, a, b
<1>6. memory = ((prefix \o head) \o fields) \o Padding40
  BY DEF MemoryOf, Padding40, prefix, head, fields, q
<1>7. memory = prefix \o rest /\ rest \in Bytes /\ memory \in Bytes
  <2>1. head \o fields \in Seq(Nat) /\ prefix \o head \in Seq(Nat)
    BY <1>4, HoldsParts DEF Bytes
  <2>2. (prefix \o head) \o fields = prefix \o (head \o fields)
    BY <1>4, JoinedAlike
  <2>3. (prefix \o (head \o fields)) \o Padding40 = prefix \o rest
    <3> DEFINE y == head \o fields
    <3>1. y \in Bytes
      BY <2>1 DEF Bytes
    <3> HIDE DEF y
    <3>2. (prefix \o y) \o Padding40 = prefix \o (y \o Padding40)
      BY <1>4, <3>1, JoinedAlike, ZenonT(40)
    <3> QED
      BY <3>2 DEF y
  <2>4. rest \in Seq(Nat)
    BY <1>4, <2>1, HoldsParts DEF Bytes
  <2>5. prefix \o rest \in Seq(Nat)
    BY <1>4, <2>4, HoldsParts DEF Bytes
  <2> QED
    BY <1>6, <2>2, <2>3, <2>4, <2>5 DEF Bytes
<1>8. Holds(rest, 0, head) /\ Holds(rest, 4, fields)
  <2>1. /\ head \o fields \in Seq(Nat) /\ Holds(head \o fields, 0, head)
        /\ Holds(head \o fields, 4, fields)
    BY <1>4, HoldsParts DEF Bytes
  <2> QED
    BY <1>4, <2>1, HoldsLonger DEF Bytes
<1>9. Holds(memory, 0, prefix) /\ Holds(memory, a, rest) /\ Len(memory) = a + Len(rest)
      /\ Len(rest) \in Nat
  <2>1. prefix \in Seq(Nat) /\ rest \in Seq(Nat)
    BY <1>4, <1>7 DEF Bytes
  <2> HIDE DEF rest, memory
  <2>2. /\ Holds(prefix \o rest, 0, prefix) /\ Holds(prefix \o rest, Len(prefix), rest)
        /\ Len(prefix \o rest) = Len(prefix) + Len(rest)
    BY <2>1, HoldsParts, Zenon
  <2>3. Len(rest) \in Nat
    BY <2>1, LenProperties
  <2> QED
    BY <1>7, <2>2, <2>3 DEF a
<1> HIDE DEF memory, rest
<1> DEFINE left == b \div 2
<1>10. b % 2 = 0
  <2>1. q \in FieldLists /\ WrittenFields(q) \in Seq(Bytes) /\ Len(WrittenFields(q)) = Len(q)
    BY <1>1, <1>2
  <2>2. Payload(rest, 2, b, q, f)
    <3>1. 2 \in Nat /\ b <= 2 * b /\ 2 + 2 = 4
      BY <1>4
    <3> QED
      BY <1>1, <1>3, <1>4, <1>5, <1>8, <3>1 DEF Payload, b
  <2>3. WholeWords(q, f, b) /\ Len(q) \in 0 .. Len(q)
    BY <1>2, <2>2, FieldsTakeWords
  <2>4. Len(f[Len(q)]) % 2 = 0
    BY <2>3, Zenon DEF WholeWords
  <2>5. fields = f[Len(q)]
    BY <1>2, <1>3, <1>5, FlattenJoins DEF Bytes
  <2> QED
    BY <2>4, <2>5 DEF b
<1>11. left \in Nat /\ b = 2 * left
  BY <1>4, <1>10
<1> HIDE DEF left
<1>12. RecordThere(rest, r.tag, left, q, f)
  <2>1. rest[1] = r.tag /\ rest[2] = Len(q)
    <3>1. rest[0 + 1] = head[1] /\ rest[0 + 2] = head[2]
      BY <1>4, <1>8 DEF Holds
    <3>2. 0 + 1 = 1 /\ 0 + 2 = 2
      OBVIOUS
    <3> QED
      BY <1>4, <3>1, <3>2
  <2>2. Payload(rest, 2, left, q, f)
    <3>1. 2 \in Nat /\ b <= 2 * left /\ 2 + 2 = 4
      BY <1>11
    <3> QED
      BY <1>1, <1>3, <1>5, <1>8, <1>11, <3>1 DEF Payload, b
  <2> QED
    BY <1>1, <1>7, <2>1, <2>2 DEF RecordThere
<1>13. a % 2 = 0 /\ Skipped(memory, span, Len(p), 0) = a \div 2
  <2>1. W \in Nat
    BY DEF W
  <2>2. span \in Nat /\ a <= 2 * span /\ a < 2 * W
    <3> DEFINE h == (a + b) \div 2
    <3>1. h \in Nat /\ a + b <= 2 * h + 1
      BY <1>4
    <3> HIDE DEF h
    <3>2. h + 1 \in Nat /\ a <= 2 * (h + 1) /\ a < 2 * W
      BY <1>1, <1>4, <2>1, <3>1
    <3> QED
      BY <3>2 DEF h
  <2> HIDE DEF span
  <2>3. Holds(memory, 0, FlattenSeq(TypedFields(p))) /\ Len(FlattenSeq(TypedFields(p))) = a
    BY <1>3, <1>9 DEF a
  <2> QED
    BY <1>1, <1>7, <2>2, <2>3, SkippedIs
<1>14. 2 * (a \div 2) = a /\ a \div 2 \in Nat
  BY <1>4, <1>13
<1>15. From(memory, a \div 2) = rest
  <2>1. SubSeq(memory, a + 1, a + Len(rest)) = rest
    BY <1>4, <1>7, <1>9, HoldsSubSeq DEF Bytes
  <2> QED
    BY <1>9, <1>14, <2>1 DEF From
<1>16. Span(span - (a \div 2)) = left + 1
  <2> DEFINE h == a \div 2
  <2>1. a = 2 * h /\ h \in Nat
    BY <1>14
  <2> HIDE DEF h
  <2>2. (a + b) \div 2 = h + left
    BY <1>11, <2>1
  <2>3. span - h = left + 1
    BY <1>11, <2>1, <2>2
  <2>4. left + 1 \in 0 .. W - 1
    <3>1. W \in Nat
      BY DEF W
    <3> QED
      BY <1>1, <1>4, <1>11, <3>1
  <2>5. Word(left + 1) = left + 1
    BY <2>4, WordKeeps
  <2> QED
    BY <2>3, <2>5 DEF Span, h
<1> DEFINE sel == Selection(r.tag, left, q, f)
<1>17. SelectRecord(rest, FalseWord, left + 1) = sel /\ sel.ok
  <2>1. Record(rest, 0, left + 1) = sel
    BY <1>12, RecordMeasured
  <2>2. sel.ok
    BY DEF Selection
  <2> QED
    BY <2>1, <2>2 DEF SelectRecord
<1> HIDE DEF sel, span
<1>18. ASSUME NEW mode
       PROVE  /\ mode # FalseWord => ExtractFrom(memory, CallOf(r, mode))
                                       = Selected(rest, sel, r.guard, mode, r.room)
              /\ mode = FalseWord => ExtractFrom(memory, CallOf(r, mode))
                                       = IF r.guard # FalseWord THEN Guarded(rest, r.guard, r.room)
                                                                ELSE Leading(rest, r.room)
  <2> DEFINE call == CallOf(r, mode)
             skip == IF call.skip # FalseWord
                     THEN Skipped(memory, call.span, call.tag, call.skip) ELSE call.tag
             base == From(memory, skip)
             left2 == Span(call.span - skip)
             record == SelectRecord(base, call.offset, left2)
             taken == IF record.ok \/ call.offset # FalseWord THEN record
                                                              ELSE TypedField(base, 0, left2)
  <2>1. /\ call.span = span /\ call.tag = Len(p) /\ call.skip = 0 /\ call.offset = FalseWord
        /\ call.guard = r.guard /\ call.mode = mode /\ call.room = r.room
    BY DEF CallOf, span, p, a, b, prefix, fields
  <2> HIDE DEF call
  <2>2. 0 # FalseWord
    BY DEF FalseWord
  <2>3. skip = a \div 2
    BY <1>13, <2>1, <2>2
  <2> HIDE DEF skip
  <2>4. base = rest /\ left2 = left + 1
    BY <1>15, <1>16, <2>1, <2>3
  <2> HIDE DEF base, left2
  <2>5. record = sel /\ taken = sel
    BY <1>17, <2>1, <2>4
  <2> HIDE DEF record, taken
  <2>6. CASE mode # FalseWord
    <3>1. ExtractFrom(memory, call) = Selected(base, taken, call.guard, call.mode, call.room)
      <4>1. call.offset # FalseWord \/ call.mode # FalseWord
        BY <2>1, <2>6
      <4>2. taken.ok /\ call.mode # FalseWord
        BY <1>17, <2>1, <2>5, <2>6
      <4>3. /\ ~(call.offset = FalseWord /\ call.mode = FalseWord /\ call.guard # FalseWord)
            /\ ~(call.offset = FalseWord /\ call.mode = FalseWord /\ call.guard = FalseWord)
        BY <2>1, <2>6
      <4> QED
        BY <4>1, <4>2, <4>3 DEF ExtractFrom, skip, base, left2, record, taken
    <3> QED
      BY <2>1, <2>4, <2>5, <2>6, <3>1 DEF call
  <2>7. CASE mode = FalseWord
    <3>1. ExtractFrom(memory, call)
            = IF call.guard # FalseWord THEN Guarded(base, call.guard, call.room)
                                        ELSE Leading(base, call.room)
      <4>1. call.offset = FalseWord /\ call.mode = FalseWord
        BY <2>1, <2>7
      <4>2. CASE call.guard # FalseWord
        BY <4>1, <4>2 DEF ExtractFrom, skip, base, left2, record, taken
      <4>3. CASE call.guard = FalseWord
        BY <4>1, <4>3 DEF ExtractFrom, skip, base, left2, record, taken
      <4> QED
        BY <4>2, <4>3
    <3> QED
      BY <2>1, <2>4, <2>7, <3>1 DEF call
  <2> QED
    BY <2>6, <2>7
<1>19. rest = RecordAlone(r)
  BY DEF rest, RecordAlone, head, fields, q
<1> QED
  BY <1>12, <1>18, <1>19 DEF sel, q, memory

\* The leading field, or as many bytes as the guard says, is copied if it fits.
LEMMA LeadingFits ==
  ASSUME NEW memory, NEW tag, NEW left, NEW q, NEW f, RecordThere(memory, tag, left, q, f),
         NEW guard \in Nat, NEW room \in Nat
  PROVE  Len(Guarded(memory, guard, room).copied) <= room
         /\ Len(Leading(memory, room).copied) <= room
<1>1. Nothing.copied = << >> /\ Len(<< >>) <= room
  BY EmptySeq DEF Nothing, Answer
<1>2. Len(Guarded(memory, guard, room).copied) <= room
  <2>1. CASE AllZero(memory, 0, guard)
    BY <1>1, <2>1 DEF Guarded
  <2>2. CASE ~AllZero(memory, 0, guard)
    <3>1. Guarded(memory, guard, room).copied = CopyIf(memory, 0, guard, room)
      BY <2>2 DEF Guarded, Answer
    <3> QED
      BY <3>1, CopyFits
  <2> QED
    BY <2>1, <2>2
<1>3. Len(Leading(memory, room).copied) <= room
  <2> DEFINE length == WordOf(memory, 0) % 256
  <2>1. length \in Nat
    <3>1. memory[1] \in Nat /\ memory[2] \in Nat
      <4> DEFINE n == Len(q)
      <4>1. n \in 1 .. 255 /\ tag \in 0 .. 255 /\ memory[1] = tag /\ memory[2] = n
        BY WrittenIsSeq DEF RecordThere, Payload
      <4> HIDE DEF n
      <4> QED
        BY <4>1
    <3>2. WordOf(memory, 0) = memory[1] + 256 * memory[2]
      <4>1. 2 * 0 + 1 = 1 /\ 2 * 0 + 2 = 2
        OBVIOUS
      <4> QED
        BY <4>1 DEF WordOf
    <3> QED
      BY <3>1, <3>2
  <2> HIDE DEF length
  <2>2. CASE length = 0
    BY <1>1, <2>2 DEF Leading, length
  <2>3. CASE length # 0
    <3>1. Leading(memory, room).copied = CopyIf(memory, 2, length, room)
      BY <2>3 DEF Leading, length, Answer
    <3> QED
      BY <2>1, <3>1, CopyFits
  <2> QED
    BY <2>2, <2>3
<1> QED
  BY <1>2, <1>3

\* What the property says of one record and mode
LEMMA RecordExtracts ==
  ASSUME NEW r, GoodRecord(r), NEW mode \in {0, 1, 2, 3, 65535, FalseWord}, NEW answer,
         answer = ExtractFrom(MemoryOf(r), CallOf(r, mode))
  PROVE  /\ Len(answer.copied) <= r.room
         /\ mode \in {0, 65535} => answer = Answer(Len(r.fields), << >>)
         /\ mode \in DOMAIN r.fields => answer = Found(r.fields, mode, r.room)
         /\ mode \in Len(r.fields) + 1 .. 3 => answer = Nothing
<1> DEFINE q == r.fields
           memory == RecordAlone(r)
           n == Len(q)
<1>1. q \in FieldLists /\ r.room \in Nat /\ r.guard \in Nat /\ r.tag \in 0 .. 255
  BY DEF GoodRecord
<1>2. /\ n \in 1 .. 255 /\ DOMAIN q = 1 .. n
      /\ \A i \in 1 .. n : Len(q[i]) \in 0 .. 127
  <2>1. q \in Seq(Bytes)
    BY <1>1 DEF FieldLists
  <2> QED
    BY <1>1, <2>1, WrittenIsSeq, LenProperties
<1>3. PICK left, f :
        /\ RecordThere(memory, r.tag, left, q, f)
        /\ mode # FalseWord => answer = Selected(memory, Selection(r.tag, left, q, f),
                                                 r.guard, mode, r.room)
        /\ mode = FalseWord => answer = IF r.guard # FalseWord THEN Guarded(memory, r.guard, r.room)
                                                               ELSE Leading(memory, r.room)
  BY RecordFound
<1> HIDE DEF q, memory, n
<1>4. FalseWord = 32769
  BY DEF FalseWord
<1>5. CASE mode = FalseWord
  <2>1. Len(answer.copied) <= r.room
    BY <1>1, <1>3, <1>5, LeadingFits
  <2>2. mode \notin {0, 65535} /\ mode \notin 1 .. n /\ mode \notin n + 1 .. 3
    BY <1>2, <1>4, <1>5
  <2> QED
    BY <1>2, <2>1, <2>2 DEF n, q
<1>6. CASE mode \in {0, 65535}
  <2>1. mode # FalseWord
    BY <1>4, <1>6
  <2>2. answer = Answer(n, << >>)
    BY <1>3, <1>6, <2>1, CountSelected DEF n
  <2>3. Len(answer.copied) <= r.room
    BY <1>1, <2>2, EmptySeq DEF Answer
  <2>4. mode \notin 1 .. n /\ mode \notin n + 1 .. 3
    BY <1>2, <1>6
  <2> QED
    BY <1>2, <2>2, <2>3, <2>4 DEF n, q
<1>7. CASE mode \in 1 .. 3 /\ mode <= n
  <2>1. mode # FalseWord /\ mode \in 1 .. n /\ mode \notin {0, 65535} /\ mode \notin n + 1 .. 3
    BY <1>2, <1>4, <1>7
  <2>2. answer = Found(q, mode, r.room)
    BY <1>1, <1>3, <2>1, FieldSelected DEF n
  <2>3. Len(answer.copied) <= r.room
    <3>1. answer.copied = IF Len(q[mode]) <= r.room THEN q[mode] ELSE << >>
      BY <2>2 DEF Found, Answer
    <3> QED
      BY <1>1, <3>1, EmptySeq
  <2> QED
    BY <1>2, <2>1, <2>2, <2>3 DEF n, q
<1>8. CASE mode \in 1 .. 3 /\ mode > n
  <2>1. mode # FalseWord /\ mode \in Nat \ {0, 65535} /\ mode \notin 1 .. n
    BY <1>2, <1>4, <1>8
  <2>2. answer = Nothing
    BY <1>3, <1>8, <2>1, NothingSelected DEF n
  <2>3. Len(answer.copied) <= r.room
    BY <1>1, <2>2, EmptySeq DEF Nothing, Answer
  <2> QED
    BY <1>2, <2>1, <2>2, <2>3 DEF n, q
<1>9. mode \in {0, 65535} \/ mode = FalseWord \/ (mode \in 1 .. 3 /\ (mode <= n \/ mode > n))
  BY <1>2
<1> QED
  BY <1>5, <1>6, <1>7, <1>8, <1>9

\* ExtractsFields: of every record behind any typed fields.
THEOREM FieldsAreExtracted == OperatorsSpec => []ExtractsFields
<1>1. ASSUME CaseKnown, asked.kind = "extract" PROVE ExtractsFields
  <2> DEFINE r == asked.record
             mode == asked.mode
             answer == ExtractFrom(MemoryOf(r), CallOf(r, mode))
  <2>1. GoodRecord(r) /\ mode \in {0, 1, 2, 3, 65535, FalseWord}
    BY <1>1 DEF CaseKnown, Known, KnownExtract
  <2> HIDE DEF r, mode, answer
  <2>2. /\ Len(answer.copied) <= r.room
        /\ mode \in {0, 65535} => answer = Answer(Len(r.fields), << >>)
        /\ mode \in DOMAIN r.fields => answer = Found(r.fields, mode, r.room)
        /\ mode \in Len(r.fields) + 1 .. 3 => answer = Nothing
    BY <2>1, RecordExtracts DEF answer
  <2>3. answer = ExtractFrom(MemoryOf(r), CallOf(r, mode))
    BY DEF answer
  <2> QED
    BY <2>2, <2>3 DEF ExtractsFields, Found, r, mode
<1>2. CaseKnown => ExtractsFields
  BY <1>1 DEF ExtractsFields
<1> QED
  BY <1>2, CasesKnown, PTL
==============================================================================
