----------------------------- MODULE Lp128Pack -----------------------------
(***************************************************************************)
(* A bundle as LP128Pack writes it (BundleWriter.cs): the header, the      *)
(* directory and the sections in a fixed order, each at the next multiple  *)
(* of its alignment.  Only the sizes count: the contents of a section are  *)
(* its bytes in the file, and byte p of a file is p.                       *)
(***************************************************************************)
EXTENDS Integers, Sequences

CONSTANTS
  HeaderBytes, EntryBytes,   \* HeaderSize, DirectoryEntrySize
  ModuleBytes, ExportBytes, InitializerBytes,   \* the records: 24, 24 and 8
  FileAlign                  \* the alignment of the sections: 0x100

ASSUME PackAssumption ==
  /\ HeaderBytes \in Nat \ {0} /\ EntryBytes \in Nat \ {0}
  /\ ModuleBytes \in Nat \ {0} /\ ExportBytes \in Nat \ {0}
  /\ InitializerBytes \in Nat \ {0} /\ FileAlign \in Nat \ {0}

AlignUp(n, unit) == unit * ((n + unit - 1) \div unit)

\* BuildSections.  An image has modules with their exports, initializers, the
\* words of its globals, and sizes of RAM, of code and of what follows the code.
SectionSizes(image) ==
  << <<"summary", image.summary>>,
     <<"modules", ModuleBytes * Len(image.modules)>>,
     <<"exports", ExportBytes * image.exports>>,
     <<"initializers", InitializerBytes * image.initializers>>,
     <<"globals", 2 * Len(image.words)>>,
     <<"ram", image.ram>>,
     <<"code", image.code>> >>
  \o IF image.rodata > 0 THEN << <<"rodata", image.rodata>> >> ELSE <<>>

\* Write: each section starts at the first aligned byte after the one before it.
Sections(image) ==
  LET sizes == SectionSizes(image)
      first == AlignUp(HeaderBytes + Len(sizes) * EntryBytes, FileAlign)
      offset[i \in 1 .. Len(sizes)] ==
        IF i = 1 THEN first
                 ELSE AlignUp(offset[i - 1] + sizes[i - 1][2], FileAlign)
  IN  [i \in 1 .. Len(sizes) |->
         [kind |-> sizes[i][1], offset |-> offset[i], length |-> sizes[i][2]]]

\* BuildGlobalLayout
GlobalWords(program, counts, values) ==
  <<Len(counts), Len(program)>> \o counts \o program \o values

Bundle(image) ==
  LET sections == Sections(image)
      last == sections[Len(sections)]
  IN  [header |-> "good", sections |-> sections, modules |-> image.modules,
       words |-> image.words, entry |-> image.entry,
       length |-> last.offset + last.length]
=============================================================================
