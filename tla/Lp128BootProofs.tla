--------------------------- MODULE Lp128BootProofs ---------------------------
(***************************************************************************)
(* Proofs about Lp128Boot for every bundle of LP128Pack's form, cut off    *)
(* anywhere and on a drive that fails anywhere: what is loaded is what the *)
(* file holds, the areas of the REU are apart, and the caches of the       *)
(* running machine show what the REU holds.                                *)
(***************************************************************************)
EXTENDS Lp128Boot, SequenceTheorems, WellFoundedInduction, TLAPS

-----------------------------------------------------------------------------
(* Numbers.                                                                 *)

\* A number without remainder is its quotient times the divisor.
LEMMA Whole ==
  ASSUME NEW a \in Nat, NEW b \in Nat \ {0}, a % b = 0
  PROVE  a = b * (a \div b) /\ a \div b \in Nat
OBVIOUS

\* A quotient times the divisor is a natural number and no more.
LEMMA Quotients ==
  ASSUME NEW a \in Nat, NEW b \in Nat \ {0}
  PROVE  /\ a \div b \in Nat /\ b * (a \div b) \in Nat
         /\ b * (a \div b) <= a /\ a < b * (a \div b) + b
OBVIOUS

\* Multiples of a number are that number apart.
LEMMA MultiplesApart ==
  ASSUME NEW a \in Nat, NEW b \in Nat, NEW c \in Nat, a < b
  PROVE  c * a \in Nat /\ c * b \in Nat /\ c * a + c <= c * b
OBVIOUS

\* What is at most some multiples of a number has at most as many in it.
LEMMA AtMost ==
  ASSUME NEW a \in Nat, NEW b \in Nat \ {0}, NEW m \in Nat, a <= m * b
  PROVE  a \div b <= m
<1> DEFINE q == a \div b
<1>1. q \in Nat /\ b * q \in Nat /\ b * q <= a
  BY Quotients
<1>2. m < q => b * m + b <= b * q /\ b * m \in Nat
  BY <1>1, MultiplesApart
<1>3. m * b = b * m
  OBVIOUS
<1> HIDE DEF q
<1>4. q <= m
  BY <1>1, <1>2, <1>3
<1> QED
  BY <1>4 DEF q

\* The quotient of a multiple.
LEMMA Divided ==
  ASSUME NEW n \in Nat, NEW c \in Nat \ {0}
  PROVE  (c * n) \div c = n
<1> DEFINE whole == c * n
           q == whole \div c
<1>1. whole \in Nat
  OBVIOUS
<1>2. q \in Nat /\ c * q \in Nat /\ c * q <= whole /\ whole < c * q + c
  BY <1>1, Quotients
<1>3. q < n => c * q + c <= c * n
  BY <1>2, MultiplesApart
<1>4. n < q => c * n + c <= c * q
  BY <1>2, MultiplesApart
<1>5. whole = c * n
  OBVIOUS
<1> HIDE DEF q, whole
<1>6. q = n
  BY <1>1, <1>2, <1>3, <1>4, <1>5
<1> QED
  BY <1>6 DEF q, whole

\* One multiple more.
LEMMA OneMore ==
  ASSUME NEW a \in Nat, NEW c \in Nat
  PROVE  c * a \in Nat /\ c * (a + 1) = c * a + c /\ a * c = c * a
OBVIOUS

\* AlignUp goes up to a multiple that is less than a unit away.
LEMMA Aligning ==
  ASSUME NEW n \in Nat, NEW unit \in Nat \ {0}
  PROVE  AlignUp(n, unit) \in Nat /\ n <= AlignUp(n, unit) /\ AlignUp(n, unit) < n + unit
<1>1. n + unit - 1 \in Nat
  OBVIOUS
<1> DEFINE q == (n + unit - 1) \div unit
<1>2. q \in Nat /\ unit * q \in Nat /\ unit * q <= n + unit - 1 /\ n + unit - 1 < unit * q + unit
  BY <1>1, Quotients
<1>3. AlignUp(n, unit) = unit * q
  BY DEF AlignUp
<1> HIDE DEF q
<1> QED
  BY <1>2, <1>3

\* AlignUp keeps the order.
LEMMA AligningInOrder ==
  ASSUME NEW m \in Nat, NEW n \in Nat, NEW unit \in Nat \ {0}, m <= n
  PROVE  AlignUp(m, unit) <= AlignUp(n, unit)
<1>1. m + unit - 1 \in Nat /\ n + unit - 1 \in Nat
  OBVIOUS
<1> DEFINE p == (m + unit - 1) \div unit
           q == (n + unit - 1) \div unit
<1>2. /\ p \in Nat /\ unit * p \in Nat /\ unit * p <= m + unit - 1
      /\ q \in Nat /\ unit * q \in Nat /\ n + unit - 1 < unit * q + unit
  BY <1>1, Quotients
<1>3. AlignUp(m, unit) = unit * p /\ AlignUp(n, unit) = unit * q
  BY DEF AlignUp
<1>4. q < p => unit * q + unit <= unit * p
  BY <1>2, MultiplesApart
<1>5. p <= q => unit * p <= unit * q
  BY <1>2, MultiplesApart
<1> HIDE DEF p, q
<1> QED
  BY <1>2, <1>3, <1>4, <1>5

-----------------------------------------------------------------------------
(* What is known of a bundle from its form.                                 *)

\* Section i, which has no bytes if it is missing, and the least byte of the
\* file at which it may start
Size(i) == LengthOf(bundle, i)
Offset(i) == bundle.sections[i].offset
Earliest(i) ==
  IF i = 1 THEN HeaderBytes + Count * EntryBytes ELSE Offset(i - 1) + Size(i - 1)

\* Where the tables go in the REU
ExportsSpot == AlignUp(HeapBytes + Size(7), ReuAlign)
InitializersSpot == ExportsSpot + Size(3)
RoDataSpot == AlignUp(InitializersSpot + Size(4), ReuAlign)

Streamed == {3, 4, 6, 7, 8}

Spot(i) ==
  CASE i = 3 -> ExportsSpot [] i = 4 -> InitializersSpot [] i = 6 -> 0
    [] i = 7 -> HeapBytes [] i = 8 -> RoDataSpot


\* What the form of the bundle on the disk says of its sections.
LEMMA Form ==
  ASSUME disk \in Disks
  PROVE  /\ Count \in {7, 8}
         /\ \A i \in 1 .. Count :
              /\ bundle.sections[i].kind = Kinds[i]
              /\ Offset(i) \in Nat /\ Size(i) \in Nat
              /\ bundle.sections[i].offset = Offset(i)
              /\ bundle.sections[i].length = Size(i)
         /\ Count = 7 => Size(8) = 0
         /\ bundle.modules \in Seq([start : Nat]) /\ bundle.words \in Seq(Nat)
         /\ Size(2) = ModuleBytes * Len(bundle.modules)
         /\ Size(3) > 0 /\ Size(3) % ExportBytes = 0 /\ Size(4) % InitializerBytes = 0
         /\ Size(5) = 2 * Len(bundle.words) /\ Size(6) <= HeapBytes
         /\ bundle.length = Offset(Count) + Size(Count)
         /\ disk.present \in 0 .. bundle.length /\ disk.bad \in Nat
<1>1. FormOk(bundle) /\ disk.present \in 0 .. bundle.length /\ disk.bad \in Nat
  BY BundleAssumption DEF bundle
<1>2. bundle.sections \in Seq([kind : {Kinds[i] : i \in 1 .. 8}, offset : Nat, length : Nat])
      /\ Count \in {7, 8}
  BY <1>1 DEF FormOk, Count
<1>3. ASSUME NEW i \in 1 .. Count
      PROVE  /\ bundle.sections[i].kind = Kinds[i]
             /\ Offset(i) \in Nat /\ Size(i) \in Nat
             /\ bundle.sections[i].offset = Offset(i)
             /\ bundle.sections[i].length = Size(i)
  <2> DEFINE Section == [kind : {Kinds[j] : j \in 1 .. 8}, offset : Nat, length : Nat]
  <2>0. bundle.sections \in Seq(Section) /\ i \in 1 .. Len(bundle.sections)
    BY <1>2 DEF Count
  <2> HIDE DEF Section
  <2>4. bundle.sections[i] \in Section
    BY <2>0, ElementOfSeq
  <2>1. bundle.sections[i].offset \in Nat /\ bundle.sections[i].length \in Nat
    BY <2>4 DEF Section
  <2>2. bundle.sections[i].kind = Kinds[i]
    BY <1>1, <1>2 DEF FormOk, Count
  <2>3. i <= Len(bundle.sections)
    BY <1>2 DEF Count
  <2> QED
    BY <2>1, <2>2, <2>3 DEF Offset, Size, LengthOf
<1>4. Count = 7 => Size(8) = 0
  BY DEF Size, LengthOf, Count
<1>5. \A i \in {2, 3, 4, 5, 6, 7} : i \in 1 .. Count
  BY <1>2
<1>6. \A i \in {2, 3, 4, 5, 6, 7} : bundle.sections[i].length = Size(i)
  BY <1>3, <1>5
<1>7. /\ bundle.modules \in Seq([start : Nat]) /\ bundle.words \in Seq(Nat)
      /\ Size(2) = ModuleBytes * Len(bundle.modules)
      /\ Size(3) > 0 /\ Size(3) % ExportBytes = 0 /\ Size(4) % InitializerBytes = 0
      /\ Size(5) = 2 * Len(bundle.words) /\ Size(6) <= HeapBytes
  BY <1>1, <1>6 DEF FormOk
<1>8. bundle.length = Offset(Count) + Size(Count)
  <2>1. bundle.length = bundle.sections[Count].offset + bundle.sections[Count].length
    BY <1>1 DEF FormOk, Count
  <2>2. Count \in 1 .. Count
    BY <1>2
  <2> QED
    BY <1>3, <2>1, <2>2
<1> QED
  BY <1>1, <1>2, <1>3, <1>4, <1>7, <1>8

\* The kinds of sections are eight.
LEMMA KindIs ==
  /\ Kinds[1] = "summary" /\ Kinds[2] = "modules" /\ Kinds[3] = "exports"
  /\ Kinds[4] = "initializers" /\ Kinds[5] = "globals" /\ Kinds[6] = "ram"
  /\ Kinds[7] = "code" /\ Kinds[8] = "rodata"
BY DEF Kinds

\* Where the tables go, one after the other behind the code.
LEMMA Spots ==
  ASSUME disk \in Disks
  PROVE  /\ ExportsSpot \in Nat /\ InitializersSpot \in Nat /\ RoDataSpot \in Nat
         /\ HeapBytes \in Nat /\ HeapBytes + Size(7) <= ExportsSpot
         /\ InitializersSpot = ExportsSpot + Size(3)
         /\ InitializersSpot + Size(4) <= RoDataSpot
<1>1. Size(3) \in Nat /\ Size(4) \in Nat /\ Size(7) \in Nat
  <2>1. 3 \in 1 .. Count /\ 4 \in 1 .. Count /\ 7 \in 1 .. Count
    BY Form
  <2> QED
    BY Form, <2>1
<1>2. HeapBytes \in Nat /\ ReuAlign \in Nat \ {0}
  BY BundleAssumption
<1>3. ExportsSpot \in Nat /\ HeapBytes + Size(7) <= ExportsSpot
  <2>1. HeapBytes + Size(7) \in Nat
    BY <1>1, <1>2
  <2> QED
    BY <1>2, <2>1, Aligning DEF ExportsSpot
<1>4. InitializersSpot \in Nat /\ InitializersSpot = ExportsSpot + Size(3)
  BY <1>1, <1>3 DEF InitializersSpot
<1>5. RoDataSpot \in Nat /\ InitializersSpot + Size(4) <= RoDataSpot
  <2>1. InitializersSpot + Size(4) \in Nat
    BY <1>1, <1>4
  <2> QED
    BY <1>2, <2>1, Aligning DEF RoDataSpot
<1> QED
  BY <1>2, <1>3, <1>4, <1>5

-----------------------------------------------------------------------------
(* The loader on its way.                                                   *)

Over == stage \in {"loaded", "ready", "refused"}
Passed(i) == Over \/ (stage \in {"gap", "section"} /\ entry > i)
Reading(i) == stage = "section" /\ entry = i
Begun(i) == Passed(i) \/ Reading(i)

\* The bytes of section i that have been read
Got(i) == IF Passed(i) THEN Size(i) ELSE IF Reading(i) THEN Size(i) - remain ELSE 0

\* The byte of the file that comes next
NextByte ==
  CASE stage = "header" -> 0
    [] stage = "directory" -> HeaderBytes + entry * EntryBytes
    [] stage = "test" -> HeaderBytes + Count * EntryBytes
    [] stage = "gap" -> file_pos
    [] stage = "section" -> file_pos + Got(entry)

\* The drive has failed for good: this goes unnoticed in a skipped section.
Dead == disk.bad < disk.present /\ pos >= disk.bad

Underway == stage \in {"header", "directory", "test", "gap", "section"}

\* The drive is where the loader believes it is, or at the end of the file.
Aligned == Underway => pos = Least(NextByte, disk.present) \/ Dead

InfoType ==
  [modules : Seq([start : Nat]), words : Seq(Nat), exports : Nat, exports_at : Nat,
   initializers : Nat, initializers_at : Nat, ram : Nat, code : Nat,
   rodata : Nat, rodata_at : Nat]

Types ==
  /\ disk \in Disks /\ board \in Board
  /\ pos \in 0 .. disk.present
  /\ stage \in {"header", "directory", "test", "gap", "section", "loaded",
               "ready", "refused", "failed"}
  /\ entry \in 0 .. Count + 1 /\ file_pos \in Nat /\ remain \in Nat
  /\ info \in InfoType

Control ==
  /\ stage = "header" => entry = 0
  /\ stage = "directory" => entry \in 0 .. Count
  /\ stage = "test" => entry = Count
  /\ stage = "gap" => entry \in 1 .. Count + 1
  /\ stage = "section" => /\ entry \in 1 .. Count /\ file_pos = Offset(entry)
                          /\ remain \in 0 .. Size(entry)
  /\ Over => entry = Count + 1

\* Sections that have been reached do not overlap in the file.
Ordered ==
  /\ stage \notin {"header", "failed"} => bundle.header = "good" /\ Count <= MaxSections
  /\ \A i \in 1 .. Count : Begun(i) => Offset(i) >= Earliest(i)
  /\ stage = "gap" => file_pos >= Earliest(entry)

\* What the fields of the bundle record say at each moment
Known ==
  stage # "failed" =>
    /\ info.exports_at = IF stage \in {"header", "directory", "test"} THEN 0 ELSE ExportsSpot
    /\ info.exports = IF Begun(3) THEN Size(3) \div ExportBytes ELSE 0
    /\ info.initializers_at = IF Passed(3) THEN InitializersSpot ELSE 0
    /\ info.initializers = IF Begun(4) THEN Size(4) \div InitializerBytes ELSE 0
    /\ info.ram = IF Begun(6) THEN Size(6) ELSE 0
    /\ info.code = IF Begun(7) THEN Size(7) ELSE 0
    /\ info.rodata = IF Begun(8) THEN Size(8) ELSE 0
    /\ info.rodata_at = IF Begun(8) /\ Size(8) > 0 THEN RoDataSpot ELSE 0

Tables ==
  stage # "failed" =>
    /\ ModuleBytes * Len(info.modules) = Got(2)
    /\ \A n \in 1 .. Len(info.modules) : info.modules[n] = bundle.modules[n]
    /\ 2 * Len(info.words) = Got(5)
    /\ \A n \in 1 .. Len(info.words) : info.words[n] = bundle.words[n]

\* A file that the POSIX build loads, on a board and a drive that work
Sound == PosixLoads /\ WithinLimits /\ board # "none" /\ disk.bad >= disk.present

NoFailure ==
  Sound => /\ stage # "failed"
           /\ stage = "gap" /\ entry <= Count => file_pos <= Offset(entry)

-----------------------------------------------------------------------------
(* Reads.                                                                   *)

\* A read that succeeds brings some of the bytes of the file that come next, or
\* one junk byte at its end, and the drive goes on from there.
LEMMA Reads ==
  ASSUME Types, Aligned, Underway, NEW n \in Nat \ {0}, NEW place \in Nat, place = NextByte,
         ~ Received(n).error
  PROVE  LET r == Received(n) IN
         /\ r.count \in 1 .. n /\ DOMAIN r.bytes = 1 .. r.count
         /\ r.bytes = [k \in 1 .. r.count |-> FileByte(place + k - 1)]
         /\ r.count > 1 => place + r.count <= disk.present
         /\ Least(pos + r.count, disk.present) = Least(place + r.count, disk.present)
         /\ Least(pos + r.count, disk.present) \in 0 .. disk.present
<1> DEFINE r == Received(n)
<1> DEFINE count == IF pos >= disk.present THEN 1 ELSE Least(n, disk.present - pos)
<1>1. disk.present \in Nat /\ disk.bad \in Nat /\ pos \in 0 .. disk.present
  BY Form DEF Types
<1>2. /\ Received(n).error = (pos + count > disk.bad)
      /\ Received(n).count = IF pos + count > disk.bad THEN disk.bad - pos ELSE count
      /\ Received(n).bytes = [k \in 1 .. count |-> IF pos + k <= disk.present THEN pos + k - 1 ELSE Junk]
  BY DEF Received
<1>3. count \in 1 .. n /\ (pos < disk.present => count <= disk.present - pos)
      /\ (pos >= disk.present => count = 1)
  BY <1>1 DEF Least
<1> HIDE DEF count
<1>4. pos + count <= disk.bad
  <2>1. ~ (pos + count > disk.bad)
    BY <1>2
  <2> QED
    BY <1>1, <1>3, <2>1
<1>5. pos = Least(place, disk.present)
  BY <1>1, <1>3, <1>4 DEF Aligned, Dead
<1>6. Received(n).count = count
  BY <1>2, <1>4, <1>1, <1>3
<1>7. CASE pos < disk.present
  <2>1. pos = place
    BY <1>1, <1>5, <1>7 DEF Least
  <2>2. r.bytes = [k \in 1 .. r.count |-> FileByte(place + k - 1)]
    <3>1. \A k \in 1 .. count : pos + k <= disk.present /\ place + k - 1 < disk.present
      BY <1>1, <1>3, <1>7, <2>1
    <3>2. \A k \in 1 .. count : FileByte(place + k - 1) = pos + k - 1
      BY <2>1, <3>1 DEF FileByte
    <3> QED
      BY <1>2, <1>6, <3>1, <3>2
  <2>3. r.count \in 1 .. n /\ DOMAIN r.bytes = 1 .. r.count
    BY <1>2, <1>3, <1>6
  <2>4. place + count <= disk.present
    BY <1>1, <1>3, <1>7, <2>1
  <2> QED
    BY <1>1, <1>3, <1>6, <2>1, <2>2, <2>3, <2>4 DEF Least
<1>8. CASE pos >= disk.present
  <2>1. pos = disk.present /\ place >= disk.present /\ count = 1
    BY <1>1, <1>3, <1>5, <1>8 DEF Least
  <2>2. r.bytes = [k \in 1 .. r.count |-> FileByte(place + k - 1)]
    <3>1. \A k \in 1 .. count : ~ (pos + k <= disk.present) /\ ~ (place + k - 1 < disk.present)
      BY <1>1, <2>1
    <3>2. \A k \in 1 .. count : FileByte(place + k - 1) = Junk
      BY <3>1 DEF FileByte
    <3> QED
      BY <1>2, <1>6, <3>1, <3>2
  <2>3. r.count \in 1 .. n /\ DOMAIN r.bytes = 1 .. r.count
    BY <1>2, <1>3, <1>6
  <2> QED
    BY <1>1, <1>6, <2>1, <2>2, <2>3 DEF Least
<1> QED
  BY <1>1, <1>7, <1>8

\* A drive that works brings all that is asked for as far as the file goes.
LEMMA ReadsAll ==
  ASSUME Types, Aligned, Underway, NEW n \in Nat \ {0}, NEW place \in Nat, place = NextByte,
         disk.bad >= disk.present, place + n <= disk.present
  PROVE  ~ Received(n).error /\ Received(n).count = n
<1> DEFINE count == IF pos >= disk.present THEN 1 ELSE Least(n, disk.present - pos)
<1>1. disk.present \in Nat /\ disk.bad \in Nat /\ pos \in 0 .. disk.present
  BY Form DEF Types
<1>2. /\ Received(n).error = (pos + count > disk.bad)
      /\ Received(n).count = IF pos + count > disk.bad THEN disk.bad - pos ELSE count
  BY DEF Received
<1>3. pos = place
  BY <1>1 DEF Aligned, Dead, Least
<1>4. count = n
  BY <1>1, <1>3 DEF Least
<1> HIDE DEF count
<1>5. ~ (pos + count > disk.bad)
  BY <1>1, <1>3, <1>4
<1> QED
  BY <1>2, <1>4, <1>5

-----------------------------------------------------------------------------
(* What a step leaves as it was.                                            *)

\* The disk stays what it is, and with it all that is known of the bundle.
LEMMA SameDisk ==
  ASSUME disk' = disk
  PROVE  /\ bundle' = bundle /\ Count' = Count
         /\ \A i : Size(i)' = Size(i) /\ Offset(i)' = Offset(i) /\ Earliest(i)' = Earliest(i)
         /\ ExportsSpot' = ExportsSpot /\ InitializersSpot' = InitializersSpot
         /\ RoDataSpot' = RoDataSpot /\ PosixLoads' = PosixLoads /\ WithinLimits' = WithinLimits
         /\ \A k : FileByte(k)' = FileByte(k)
<1>1. bundle' = bundle /\ Count' = Count
  BY DEF bundle, Count
<1>2. \A i : Size(i)' = Size(i) /\ Offset(i)' = Offset(i) /\ Earliest(i)' = Earliest(i)
  BY <1>1 DEF Size, Offset, Earliest
<1>3. ExportsSpot' = ExportsSpot /\ InitializersSpot' = InitializersSpot /\ RoDataSpot' = RoDataSpot
  BY <1>2 DEF ExportsSpot, InitializersSpot, RoDataSpot
<1>4. PosixLoads' = PosixLoads /\ WithinLimits' = WithinLimits
  BY <1>1 DEF PosixLoads, WithinLimits
<1> QED
  BY <1>1, <1>2, <1>3, <1>4 DEF FileByte

Early == stage \in {"header", "directory", "test"}

\* The fields stay true if the step begins and ends no section with bytes in it.
LEMMA KnownKept ==
  ASSUME Known, stage # "failed", info' = info, disk' = disk, Early' <=> Early,
         \A i \in {3, 4, 6, 7, 8} : (Begun(i)' <=> Begun(i)) \/ Size(i) = 0,
         Passed(3)' <=> Passed(3)
  PROVE  Known'
<1>1. 0 \div ExportBytes = 0 /\ 0 \div InitializerBytes = 0
  BY PackAssumption
<1>2. Early <=> stage \in {"header", "directory", "test"}
  BY DEF Early
<1>3. Early' <=> stage' \in {"header", "directory", "test"}
  BY DEF Early
<1>4. info'.exports_at = IF stage' \in {"header", "directory", "test"} THEN 0 ELSE ExportsSpot'
  BY <1>2, <1>3, SameDisk DEF Known
<1>5. info'.exports = IF Begun(3)' THEN Size(3)' \div ExportBytes ELSE 0
  BY <1>1, SameDisk DEF Known
<1>6. info'.initializers_at = IF Passed(3)' THEN InitializersSpot' ELSE 0
  BY SameDisk DEF Known
<1>7. info'.initializers = IF Begun(4)' THEN Size(4)' \div InitializerBytes ELSE 0
  BY <1>1, SameDisk DEF Known
<1>8. /\ info'.ram = IF Begun(6)' THEN Size(6)' ELSE 0
      /\ info'.code = IF Begun(7)' THEN Size(7)' ELSE 0
  BY SameDisk DEF Known
<1>9. /\ info'.rodata = IF Begun(8)' THEN Size(8)' ELSE 0
      /\ info'.rodata_at = IF Begun(8)' /\ Size(8)' > 0 THEN RoDataSpot' ELSE 0
  BY SameDisk DEF Known
<1> QED
  BY <1>4, <1>5, <1>6, <1>7, <1>8, <1>9 DEF Known

\* The tables stay true if the step reads nothing of them.
LEMMA TablesKept ==
  ASSUME Tables, stage # "failed", info'.modules = info.modules, info'.words = info.words,
         disk' = disk, Got(2)' = Got(2), Got(5)' = Got(5)
  PROVE  Tables'
BY SameDisk DEF Tables

LoadInv ==
  Types /\ Aligned /\ Control /\ Ordered /\ Known /\ Tables /\ NoFailure

\* A failure of something that was not sound.
LEMMA FailStep ==
  ASSUME LoadInv, Fail, ~ Sound
  PROVE  LoadInv'
<1>1. /\ stage' = "failed" /\ disk' = disk /\ board' = board /\ pos' = pos /\ entry' = entry
      /\ file_pos' = file_pos /\ remain' = remain /\ info' = info
  BY DEF Fail
<1>2. \A i : ~ Begun(i)'
  BY <1>1 DEF Begun, Passed, Reading, Over
<1>3. Types'
  BY <1>1, SameDisk DEF LoadInv, Types
<1>4. Aligned' /\ Control' /\ Known' /\ Tables'
  BY <1>1 DEF Aligned, Underway, Control, Over, Known, Tables
<1>5. Ordered'
  BY <1>1, <1>2 DEF Ordered
<1>6. NoFailure'
  BY <1>1, SameDisk DEF NoFailure, Sound
<1> QED
  BY <1>3, <1>4, <1>5, <1>6 DEF LoadInv

-----------------------------------------------------------------------------
(* The header, the directory and the self-test.                             *)

\* The sizes of the header and the directory.
LEMMA Heads ==
  ASSUME disk \in Disks
  PROVE  /\ HeaderBytes \in Nat \ {0} /\ EntryBytes \in Nat \ {0}
         /\ Count \in Nat /\ Count * EntryBytes \in Nat
         /\ \A e \in 0 .. Count : e * EntryBytes \in Nat /\ (e + 1) * EntryBytes = e * EntryBytes + EntryBytes
         /\ \A e \in 0 .. Count - 1 : e * EntryBytes + EntryBytes <= Count * EntryBytes
<1>1. HeaderBytes \in Nat \ {0} /\ EntryBytes \in Nat \ {0} /\ Count \in {7, 8}
  BY PackAssumption, Form
<1>2. ASSUME NEW e \in 0 .. Count
      PROVE  e * EntryBytes \in Nat /\ (e + 1) * EntryBytes = e * EntryBytes + EntryBytes
  BY <1>1
<1>3. ASSUME NEW e \in 0 .. Count - 1
      PROVE  e * EntryBytes + EntryBytes <= Count * EntryBytes
  <2>1. e \in Nat /\ Count \in Nat /\ e < Count
    BY <1>1
  <2>2. EntryBytes * e + EntryBytes <= EntryBytes * Count
    BY <1>1, <2>1, MultiplesApart
  <2>3. EntryBytes * e = e * EntryBytes /\ EntryBytes * Count = Count * EntryBytes
    BY <1>1, <2>1
  <2> QED
    BY <2>2, <2>3
<1> QED
  BY <1>1, <1>2, <1>3

\* Before the sections nothing has begun.
LEMMA NotBegun ==
  ASSUME stage \in {"header", "directory", "test", "failed"} \/ (stage = "gap" /\ entry = 1),
         NEW i \in 1 .. 8
  PROVE  ~ Begun(i) /\ ~ Passed(i) /\ Got(i) = 0
BY DEF Begun, Passed, Reading, Over, Got

\* The header: a short one, a foreign one or a directory that is too long fails.
LEMMA HeaderStep ==
  ASSUME LoadInv, ReadHeader
  PROVE  LoadInv'
<1> DEFINE r == Received(HeaderBytes)
<1>1. disk \in Disks /\ stage = "header" /\ entry = 0 /\ disk.bad \in Nat /\ disk.present \in Nat
  BY Form DEF LoadInv, Types, ReadHeader, Control
<1>2. NextByte = 0 /\ Underway
  BY <1>1 DEF NextByte, Underway
<1>3. CASE Short(r, HeaderBytes) \/ bundle.header # "good" \/ Count > MaxSections
  <2>1. Fail
    BY <1>3 DEF ReadHeader
  <2>2. ASSUME Sound PROVE FALSE
    <3>1. bundle.header = "good" /\ HeaderBytes + Count * EntryBytes <= disk.present /\ disk.bad >= disk.present
          /\ Count <= MaxSections
      BY <2>2 DEF Sound, PosixLoads, WithinLimits
    <3>5. HeaderBytes \in Nat /\ Count * EntryBytes \in Nat
      BY <1>1, Heads
    <3> DEFINE directory == Count * EntryBytes
    <3> HIDE DEF directory
    <3>6. directory \in Nat /\ HeaderBytes + directory <= disk.present
      BY <3>1, <3>5 DEF directory
    <3>2. 0 + HeaderBytes <= disk.present
      BY <1>1, <3>5, <3>6
    <3>3. ~ r.error /\ r.count = HeaderBytes
      BY <1>1, <1>2, <3>1, <3>2, ReadsAll, Heads DEF LoadInv
    <3>4. MaxSections \in Nat /\ Count \in Nat
      BY <1>1, Heads, BundleAssumption
    <3> QED
      BY <1>3, <3>1, <3>3, <3>4 DEF Short
  <2> QED
    BY <2>1, <2>2, FailStep
<1>4. CASE ~ (Short(r, HeaderBytes) \/ bundle.header # "good" \/ Count > MaxSections)
  <2>1. /\ Advance(r) /\ stage' = "directory"
        /\ disk' = disk /\ board' = board /\ entry' = entry /\ file_pos' = file_pos
        /\ remain' = remain /\ info' = info
    BY <1>4 DEF ReadHeader
  <2>2. ~ r.error /\ r.count = HeaderBytes
    BY <1>4 DEF Short
  <2>3. pos' = Least(0 + HeaderBytes, disk.present) /\ pos' \in 0 .. disk.present
    BY <1>1, <1>2, <2>1, <2>2, Reads, Heads DEF Advance, LoadInv
  <2>4. Types'
    BY <1>1, <2>1, <2>3, SameDisk DEF LoadInv, Types
  <2>5. Aligned'
    <3>1. NextByte' = HeaderBytes + 0 * EntryBytes
      BY <1>1, <2>1 DEF NextByte
    <3>2. NextByte' = 0 + HeaderBytes
      BY <1>1, <3>1, Heads
    <3>3. pos' = Least(NextByte', disk'.present)
      BY <2>1, <2>3, <3>2
    <3>4. pos' = Least(NextByte, disk.present)'
      BY <3>3 DEF Least
    <3> QED
      BY <3>4 DEF Aligned
  <2>6. Control'
    BY <1>1, <2>1, SameDisk, Heads DEF Control, Over
  <2>7. \A i \in 1 .. 8 : ~ Begun(i) /\ ~ Passed(i) /\ Got(i) = 0
    BY <1>1, NotBegun
  <2>8. \A i \in 1 .. 8 : ~ Begun(i)' /\ ~ Passed(i)' /\ Got(i)' = 0
    BY <2>1 DEF Begun, Passed, Reading, Over, Got
  <2>9. Ordered'
    <3>3. MaxSections \in Nat /\ Count \in {7, 8} /\ bundle' = bundle /\ Count' = Count
      BY <1>1, <2>1, SameDisk, Form, BundleAssumption
    <3>1. bundle'.header = "good" /\ Count' <= MaxSections
      BY <1>4, <3>3
    <3>2. \A i \in 1 .. Count' : ~ Begun(i)'
      BY <2>8, <3>3
    <3> QED
      BY <2>1, <3>1, <3>2 DEF Ordered
  <2>10. Known'
    <3>1. Early /\ Early'
      BY <1>1, <2>1 DEF Early
    <3> QED
      BY <1>1, <2>1, <2>7, <2>8, <3>1, KnownKept DEF LoadInv
  <2>11. Tables'
    BY <1>1, <2>1, <2>7, <2>8, TablesKept DEF LoadInv
  <2>12. NoFailure'
    BY <2>1 DEF NoFailure
  <2> QED
    BY <2>4, <2>5, <2>6, <2>9, <2>10, <2>11, <2>12 DEF LoadInv
<1> QED
  BY <1>3, <1>4

\* An entry of the directory, or its end.
LEMMA EntryStep ==
  ASSUME LoadInv, ReadEntry
  PROVE  LoadInv'
<1> DEFINE r == Received(EntryBytes)
<1>1. /\ disk \in Disks /\ stage = "directory" /\ entry \in 0 .. Count
      /\ disk.bad \in Nat /\ disk.present \in Nat /\ Count \in {7, 8}
      /\ HeaderBytes \in Nat /\ EntryBytes \in Nat \ {0} /\ entry * EntryBytes \in Nat
  BY Form, Heads DEF LoadInv, Types, ReadEntry, Control
<1>2. NextByte = HeaderBytes + entry * EntryBytes /\ Underway
  BY <1>1 DEF NextByte, Underway
<1>3. \A i \in 1 .. 8 : ~ Begun(i) /\ ~ Passed(i) /\ Got(i) = 0
  BY <1>1, NotBegun
<1>4. bundle.header = "good" /\ Count <= MaxSections
  BY <1>1 DEF LoadInv, Ordered
<1>5. CASE entry = Count
  <2>1. /\ stage' = "test" /\ disk' = disk /\ board' = board /\ entry' = entry /\ pos' = pos
        /\ file_pos' = file_pos /\ remain' = remain /\ info' = info
    BY <1>5 DEF ReadEntry
  <2>2. Types'
    BY <1>1, <2>1, SameDisk DEF LoadInv, Types
  <2>3. Aligned'
    <3>1. NextByte' = HeaderBytes + Count' * EntryBytes /\ NextByte' = NextByte
      BY <1>1, <1>2, <1>5, <2>1, SameDisk DEF NextByte
    <3>2. pos = Least(NextByte, disk.present) \/ Dead
      BY <1>2 DEF LoadInv, Aligned
    <3>3. (pos = Least(NextByte, disk.present))' <=> pos = Least(NextByte, disk.present)
      BY <2>1, <3>1 DEF Least
    <3>4. Dead' <=> Dead
      BY <2>1 DEF Dead
    <3> QED
      BY <3>2, <3>3, <3>4 DEF Aligned
  <2>4. Control'
    BY <1>1, <1>5, <2>1, SameDisk DEF Control, Over
  <2>5. \A i \in 1 .. 8 : ~ Begun(i)' /\ ~ Passed(i)' /\ Got(i)' = 0
    BY <2>1 DEF Begun, Passed, Reading, Over, Got
  <2>6. Ordered'
    BY <1>1, <1>4, <2>1, <2>5, SameDisk DEF Ordered
  <2>7. Known'
    <3>1. Early /\ Early'
      BY <1>1, <2>1 DEF Early
    <3> QED
      BY <1>1, <2>1, <1>3, <2>5, <3>1, KnownKept DEF LoadInv
  <2>8. Tables'
    BY <1>1, <2>1, <1>3, <2>5, TablesKept DEF LoadInv
  <2>9. NoFailure'
    BY <2>1 DEF NoFailure
  <2> QED
    BY <2>2, <2>3, <2>4, <2>6, <2>7, <2>8, <2>9 DEF LoadInv
<1>6. CASE entry # Count /\ Short(r, EntryBytes)
  <2>1. Fail
    BY <1>6 DEF ReadEntry
  <2>2. ASSUME Sound PROVE FALSE
    <3>1. HeaderBytes + Count * EntryBytes <= disk.present /\ disk.bad >= disk.present
      BY <2>2 DEF Sound, PosixLoads
    <3>2. entry \in 0 .. Count - 1 /\ Count * EntryBytes \in Nat
      BY <1>1, <1>6, Heads
    <3>3. entry * EntryBytes + EntryBytes <= Count * EntryBytes
      BY <1>1, <3>2, Heads
    <3> DEFINE whole == Count * EntryBytes
               part == entry * EntryBytes
    <3>4. whole \in Nat /\ part \in Nat /\ part + EntryBytes <= whole /\ HeaderBytes + whole <= disk.present
          /\ NextByte = HeaderBytes + part
      BY <1>1, <1>2, <3>1, <3>2, <3>3
    <3> HIDE DEF whole, part
    <3>5. NextByte \in Nat /\ NextByte + EntryBytes <= disk.present
      BY <1>1, <3>4
    <3>6. ~ r.error /\ r.count = EntryBytes
      BY <1>1, <1>2, <3>1, <3>5, ReadsAll DEF LoadInv
    <3> QED
      BY <1>6, <3>6 DEF Short
  <2> QED
    BY <2>1, <2>2, FailStep
<1>7. CASE entry # Count /\ ~ Short(r, EntryBytes)
  <2>1. /\ Advance(r) /\ entry' = entry + 1 /\ stage' = stage
        /\ disk' = disk /\ board' = board /\ file_pos' = file_pos
        /\ remain' = remain /\ info' = info
    BY <1>7 DEF ReadEntry
  <2>2. ~ r.error /\ r.count = EntryBytes
    BY <1>7 DEF Short
  <2>3. NextByte \in Nat
    BY <1>1, <1>2
  <2>4. pos' = Least(NextByte + EntryBytes, disk.present) /\ pos' \in 0 .. disk.present
    BY <1>1, <1>2, <2>1, <2>2, <2>3, Reads DEF Advance, LoadInv
  <2>5. Types'
    <3>1. entry' \in 0 .. Count' + 1
      BY <1>1, <2>1, SameDisk
    <3> QED
      BY <1>1, <2>1, <2>4, <3>1 DEF LoadInv, Types
  <2>6. Aligned'
    <3>1. NextByte' = HeaderBytes + (entry + 1) * EntryBytes
      BY <1>1, <2>1 DEF NextByte
    <3>2. (entry + 1) * EntryBytes = entry * EntryBytes + EntryBytes
      BY <1>1, Heads
    <3>3. NextByte' = NextByte + EntryBytes
      BY <1>1, <1>2, <3>1, <3>2
    <3>4. (pos = Least(NextByte, disk.present))'
      BY <2>1, <2>4, <3>3 DEF Least
    <3> QED
      BY <3>4 DEF Aligned
  <2>7. Control'
    BY <1>1, <1>7, <2>1, SameDisk DEF Control, Over
  <2>8. \A i \in 1 .. 8 : ~ Begun(i)' /\ ~ Passed(i)' /\ Got(i)' = 0
    BY <1>1, <2>1 DEF Begun, Passed, Reading, Over, Got
  <2>9. Ordered'
    BY <1>1, <1>4, <2>1, <2>8, SameDisk DEF Ordered
  <2>10. Known'
    <3>1. Early /\ Early'
      BY <1>1, <2>1 DEF Early
    <3> QED
      BY <1>1, <2>1, <1>3, <2>8, <3>1, KnownKept DEF LoadInv
  <2>11. Tables'
    BY <1>1, <2>1, <1>3, <2>8, TablesKept DEF LoadInv
  <2>12. NoFailure'
    BY <1>1, <2>1 DEF NoFailure
  <2> QED
    BY <2>5, <2>6, <2>7, <2>9, <2>10, <2>11, <2>12 DEF LoadInv
<1> QED
  BY <1>5, <1>6, <1>7

\* The self-test places the exports behind the code and leads to the first section.
LEMMA SelfTestStep ==
  ASSUME LoadInv, SelfTest
  PROVE  LoadInv'
<1>1. /\ disk \in Disks /\ stage = "test" /\ entry = Count /\ Count \in {7, 8}
      /\ HeaderBytes \in Nat /\ EntryBytes \in Nat \ {0} /\ Count * EntryBytes \in Nat
  BY Form, Heads DEF LoadInv, Types, SelfTest, Control
<1>2. NextByte = HeaderBytes + Count * EntryBytes /\ Underway
  BY <1>1 DEF NextByte, Underway
<1>3. \A i \in 1 .. 8 : ~ Begun(i) /\ ~ Passed(i) /\ Got(i) = 0
  BY <1>1, NotBegun
<1>4. CASE board = "none"
  <2>1. Fail /\ ~ Sound
    BY <1>4 DEF SelfTest, Sound
  <2> QED
    BY <2>1, FailStep
<1>5. CASE board # "none"
  <2>1. /\ info' = [info EXCEPT !.exports_at = AlignUp(HeapBytes + CodeSize, ReuAlign)]
        /\ file_pos' = HeaderBytes + Count * EntryBytes
        /\ entry' = 1 /\ stage' = "gap"
        /\ disk' = disk /\ board' = board /\ pos' = pos /\ remain' = remain
    BY <1>5 DEF SelfTest
  <2>2. CodeSize = Size(7)
    <3>1. \A i \in 1 .. Count : bundle.sections[i].kind = "code" <=> i = 7
      <4>1. \A i \in 1 .. Count : bundle.sections[i].kind = Kinds[i]
        BY <1>1, Form
      <4>2. \A i \in 1 .. Count : i \in 1 .. 8
        BY <1>1
      <4>3. \A i \in 1 .. 8 : Kinds[i] = "code" <=> i = 7
        BY DEF Kinds
      <4> QED
        BY <4>1, <4>2, <4>3
    <3>2. 7 \in 1 .. Count
      BY <1>1
    <3> DEFINE pages == {i \in 1 .. Count : bundle.sections[i].kind = "code"}
    <3>3. pages = {7}
      BY <3>1, <3>2
    <3>4. CodeSize = bundle.sections[CHOOSE i \in pages : \A j \in pages : i <= j].length
      BY <3>3 DEF CodeSize
    <3>5. (CHOOSE i \in pages : \A j \in pages : i <= j) = 7
      BY <3>3
    <3> QED
      BY <1>1, <3>2, <3>4, <3>5, Form
  <2>3. AlignUp(HeapBytes + CodeSize, ReuAlign) = ExportsSpot /\ ExportsSpot \in Nat
    BY <1>1, <2>2, Spots DEF ExportsSpot
  <2>4. info \in InfoType /\ info' \in InfoType /\ info'.exports_at = ExportsSpot
        /\ info'.modules = info.modules /\ info'.words = info.words
        /\ info'.exports = info.exports /\ info'.initializers = info.initializers
        /\ info'.initializers_at = info.initializers_at /\ info'.ram = info.ram
        /\ info'.code = info.code /\ info'.rodata = info.rodata /\ info'.rodata_at = info.rodata_at
    BY <2>1, <2>3 DEF LoadInv, Types, InfoType
  <2>5. \A i \in 1 .. 8 : ~ Begun(i)' /\ ~ Passed(i)' /\ Got(i)' = 0
    BY <2>1 DEF Begun, Passed, Reading, Over, Got
  <2>6. file_pos' \in Nat
    BY <1>1, <2>1
  <2>7. Types'
    BY <1>1, <2>1, <2>4, <2>6, SameDisk DEF LoadInv, Types
  <2>8. Aligned'
    <3>1. NextByte' = NextByte
      BY <1>2, <2>1 DEF NextByte
    <3>2. pos = Least(NextByte, disk.present) \/ Dead
      BY <1>2 DEF LoadInv, Aligned
    <3>3. (pos = Least(NextByte, disk.present))' <=> pos = Least(NextByte, disk.present)
      BY <2>1, <3>1 DEF Least
    <3>4. Dead' <=> Dead
      BY <2>1 DEF Dead
    <3> QED
      BY <3>2, <3>3, <3>4 DEF Aligned
  <2>9. Control'
    BY <1>1, <2>1, SameDisk DEF Control, Over
  <2>10. Ordered'
    <3>1. bundle'.header = "good" /\ Count' <= MaxSections
      BY <1>1, <2>1, SameDisk DEF LoadInv, Ordered
    <3>5. Count' = Count
      BY <2>1, SameDisk
    <3>2. \A i \in 1 .. Count' : ~ Begun(i)'
      BY <1>1, <2>5, <3>5
    <3>3. file_pos' >= Earliest(1)
      BY <1>1, <2>1, <2>6 DEF Earliest
    <3>4. Earliest(entry)' = Earliest(1)
      BY <2>1, SameDisk DEF Earliest
    <3> QED
      BY <3>1, <3>2, <3>3, <3>4 DEF Ordered
  <2>11. Known'
    <3>1. /\ info.exports = 0 /\ info.initializers_at = 0 /\ info.initializers = 0
          /\ info.ram = 0 /\ info.code = 0 /\ info.rodata = 0 /\ info.rodata_at = 0
      BY <1>1, <1>3 DEF LoadInv, Known
    <3>2. info'.exports_at = ExportsSpot'
      BY <2>1, <2>4, SameDisk
    <3> QED
      BY <2>1, <2>4, <2>5, <3>1, <3>2 DEF Known
  <2>12. Tables'
    BY <1>1, <2>1, <2>4, <1>3, <2>5, TablesKept DEF LoadInv
  <2>13. NoFailure'
    <3>1. ASSUME Sound PROVE file_pos' <= Offset(1)
      <4>1. 1 \in 1 .. Count
        BY <1>1
      <4>2. bundle.sections[1].offset >= HeaderBytes + Count * EntryBytes
        BY <3>1, <4>1 DEF Sound, PosixLoads
      <4>3. Offset(1) \in Nat
        BY <1>1, <4>1, Form
      <4> QED
        BY <2>1, <2>6, <4>2, <4>3 DEF Offset
    <3>2. Sound' <=> Sound
      BY <2>1, SameDisk DEF Sound
    <3>3. Offset(entry)' = Offset(1)
      BY <2>1, SameDisk DEF Offset
    <3> QED
      BY <2>1, <3>1, <3>2, <3>3 DEF NoFailure
  <2> QED
    BY <2>7, <2>8, <2>9, <2>10, <2>11, <2>12, <2>13 DEF LoadInv
<1> QED
  BY <1>4, <1>5

-----------------------------------------------------------------------------
(* From one section to the next.                                            *)

\* The section that the loader is at.
LEMMA AtSection ==
  ASSUME disk \in Disks, entry \in 1 .. Count
  PROVE  /\ Count \in {7, 8} /\ entry \in 1 .. 8
         /\ section.offset = Offset(entry) /\ section.length = Size(entry)
         /\ section.kind = Kinds[entry]
         /\ Offset(entry) \in Nat /\ Size(entry) \in Nat
<1>1. Count \in {7, 8}
  BY Form
<1>2. /\ bundle.sections[entry].kind = Kinds[entry]
      /\ Offset(entry) \in Nat /\ Size(entry) \in Nat
      /\ bundle.sections[entry].offset = Offset(entry)
      /\ bundle.sections[entry].length = Size(entry)
  BY Form
<1> QED
  BY <1>1, <1>2 DEF section

\* What a file must be like to be sound.
LEMMA SoundSections ==
  ASSUME Sound, disk \in Disks, NEW i \in 1 .. Count
  PROVE  /\ Offset(i) >= Earliest(i) /\ Offset(i) + Size(i) <= disk.present
         /\ disk.bad >= disk.present
<1>1. /\ bundle.sections[i].offset = Offset(i) /\ bundle.sections[i].length = Size(i)
      /\ Offset(i) \in Nat /\ Size(i) \in Nat
  BY Form
<1>2. bundle.sections[i].offset + bundle.sections[i].length <= disk.present
  BY DEF Sound, PosixLoads
<1>3. bundle.sections[i].offset >= IF i = 1 THEN HeaderBytes + Count * EntryBytes
                                 ELSE bundle.sections[i - 1].offset + bundle.sections[i - 1].length
  BY DEF Sound, PosixLoads
<1>4. i # 1 => bundle.sections[i - 1].offset = Offset(i - 1) /\ bundle.sections[i - 1].length = Size(i - 1)
  <2>1. Count \in {7, 8}
    BY Form
  <2>2. i # 1 => i - 1 \in 1 .. Count
    BY <2>1
  <2> QED
    BY <2>2, Form
<1> QED
  BY <1>1, <1>2, <1>3, <1>4 DEF Earliest, Sound

\* A section that starts before the end of the one before it is never sound.
LEMMA OutOfOrderStep ==
  ASSUME LoadInv, OutOfOrder
  PROVE  LoadInv'
<1>1. /\ disk \in Disks /\ stage = "gap" /\ entry \in 1 .. Count /\ section.offset < file_pos
      /\ file_pos \in Nat
  <2>1. Count \in {7, 8}
    BY Form DEF LoadInv, Types
  <2> QED
    BY <2>1 DEF LoadInv, Types, OutOfOrder, Control
<1>2. Fail
  BY DEF OutOfOrder
<1>3. section.offset = Offset(entry) /\ Offset(entry) \in Nat /\ Count \in {7, 8}
  BY <1>1, AtSection
<1>4. ~ Sound
  BY <1>1, <1>3 DEF LoadInv, NoFailure
<1> QED
  BY <1>2, <1>4, FailStep

\* Some bytes of a gap before a section.
LEMMA SkipGapStep ==
  ASSUME LoadInv, SkipGap
  PROVE  LoadInv'
<1> DEFINE n == Least(SkipChunk, section.offset - file_pos)
           r == Received(n)
<1>1. /\ disk \in Disks /\ stage = "gap" /\ entry \in 1 .. Count /\ file_pos \in Nat
      /\ section.offset > file_pos /\ disk.bad \in Nat /\ disk.present \in Nat /\ Count \in {7, 8}
  <2>1. Count \in {7, 8} /\ disk.bad \in Nat /\ disk.present \in Nat
    BY Form DEF LoadInv, Types
  <2> QED
    BY <2>1 DEF LoadInv, Types, SkipGap, Control
<1>2. section.offset = Offset(entry) /\ Offset(entry) \in Nat /\ Size(entry) \in Nat /\ entry \in 1 .. 8
  BY <1>1, AtSection
<1>3. n \in Nat \ {0} /\ file_pos + n <= Offset(entry)
  BY <1>1, <1>2, BundleAssumption DEF Least
<1>4. NextByte = file_pos /\ Underway
  BY <1>1 DEF NextByte, Underway
<1> HIDE DEF n
<1>5. CASE Lost(r)
  <2>1. Fail
    BY <1>5 DEF SkipGap, n
  <2>2. ASSUME Sound PROVE FALSE
    <3>1. Offset(entry) + Size(entry) <= disk.present /\ disk.bad >= disk.present
      BY <1>1, <2>2, SoundSections
    <3>2. file_pos + n <= disk.present
      BY <1>1, <1>2, <1>3, <3>1
    <3>3. ~ r.error
      BY <1>1, <1>3, <1>4, <3>1, <3>2, ReadsAll DEF LoadInv
    <3> QED
      BY <1>5, <3>3 DEF Lost
  <2> QED
    BY <2>1, <2>2, FailStep
<1>6. CASE ~ Lost(r)
  <2>1. /\ Advance(r) /\ file_pos' = file_pos + r.count
        /\ disk' = disk /\ board' = board /\ stage' = stage /\ entry' = entry
        /\ remain' = remain /\ info' = info
    BY <1>6 DEF SkipGap, n
  <2>2. /\ r.count \in 1 .. n /\ pos' = Least(file_pos + r.count, disk.present)
        /\ pos' \in 0 .. disk.present
    BY <1>1, <1>3, <1>4, <1>6, <2>1, Reads DEF Advance, LoadInv, Lost
  <2>3. file_pos' \in Nat /\ file_pos' <= Offset(entry) /\ file_pos' >= file_pos
    BY <1>1, <1>2, <1>3, <2>1, <2>2
  <2>4. Types'
    BY <1>1, <2>1, <2>2, <2>3, SameDisk DEF LoadInv, Types
  <2>5. Aligned'
    <3>1. NextByte' = file_pos'
      BY <1>1, <2>1 DEF NextByte
    <3>2. (pos = Least(NextByte, disk.present))'
      BY <2>1, <2>2, <3>1 DEF Least
    <3> QED
      BY <3>2 DEF Aligned
  <2>6. Control'
    BY <1>1, <2>1, SameDisk DEF Control, Over
  <2>7. \A i \in 1 .. 8 : /\ Begun(i)' <=> Begun(i)
                          /\ Passed(i)' <=> Passed(i)
                          /\ Got(i)' = Got(i)
    BY <1>1, <2>1, SameDisk DEF Begun, Passed, Reading, Over, Got
  <2>8. Ordered'
    <3>1. file_pos >= Earliest(entry) /\ Earliest(entry) \in Int
      <4>1. file_pos >= Earliest(entry)
        BY <1>1 DEF LoadInv, Ordered
      <4>2. HeaderBytes \in Nat /\ Count * EntryBytes \in Nat
        BY <1>1, Heads
      <4>3. entry # 1 => entry - 1 \in 1 .. Count
        BY <1>1
      <4>4. entry # 1 => Offset(entry - 1) \in Nat /\ Size(entry - 1) \in Nat
        BY <1>1, <4>3, Form
      <4> QED
        BY <4>1, <4>2, <4>4 DEF Earliest
    <3>2. Earliest(entry)' = Earliest(entry)
      BY <2>1, SameDisk DEF Earliest
    <3>3. file_pos' >= Earliest(entry)
      BY <1>1, <2>3, <3>1
    <3>4. Count' = Count /\ bundle' = bundle /\ \A i \in 1 .. Count : i \in 1 .. 8
      BY <1>1, <2>1, SameDisk
    <3>5. \A i \in 1 .. Count' : Begun(i)' => Offset(i)' >= Earliest(i)'
      BY <2>1, <2>7, <3>4, SameDisk DEF LoadInv, Ordered
    <3> QED
      BY <1>1, <2>1, <3>2, <3>3, <3>4, <3>5 DEF LoadInv, Ordered
  <2>9. Known'
    <3>1. Early' <=> Early
      BY <2>1 DEF Early
    <3> QED
      BY <1>1, <2>1, <2>7, <3>1, KnownKept DEF LoadInv
  <2>10. Tables'
    BY <1>1, <2>1, <2>7, TablesKept DEF LoadInv
  <2>11. NoFailure'
    <3>1. Offset(entry)' = Offset(entry)
      BY <2>1, SameDisk DEF Offset
    <3> QED
      BY <1>1, <2>1, <2>3, <3>1 DEF NoFailure
  <2> QED
    BY <2>4, <2>5, <2>6, <2>8, <2>9, <2>10, <2>11 DEF LoadInv
<1> QED
  BY <1>5, <1>6

\* The limits of the tables are the ones that a sound file keeps.
LEMMA NotTooMany ==
  ASSUME Sound, disk \in Disks, entry \in 1 .. Count
  PROVE  ~ TooMany
<1>1. /\ section.length = Size(entry) /\ section.kind = Kinds[entry] /\ Size(entry) \in Nat
      /\ Count \in {7, 8} /\ entry \in 1 .. 8
  BY AtSection
<1>2. /\ Len(bundle.words) <= MaxLayout /\ Len(bundle.modules) <= MaxModules
      /\ Size(3) <= MaxExports * ExportBytes /\ Size(4) <= MaxInitializers * InitializerBytes
  <2>1. 3 \in 1 .. Count /\ 4 \in 1 .. Count
    BY <1>1
  <2>2. /\ bundle.sections[3].kind = "exports" /\ bundle.sections[3].length = Size(3)
        /\ bundle.sections[4].kind = "initializers" /\ bundle.sections[4].length = Size(4)
    BY <2>1, Form, KindIs
  <2> QED
    BY <2>1, <2>2 DEF Sound, WithinLimits
<1>3. /\ MaxExports \in Nat /\ MaxInitializers \in Nat /\ MaxModules \in Nat /\ MaxLayout \in Nat
      /\ ModuleBytes \in Nat \ {0} /\ ExportBytes \in Nat \ {0} /\ InitializerBytes \in Nat \ {0}
  BY BundleAssumption, PackAssumption
<1>4. Size(2) = ModuleBytes * Len(bundle.modules) /\ Len(bundle.modules) \in Nat
      /\ Size(5) = 2 * Len(bundle.words) /\ Len(bundle.words) \in Nat
  BY Form, LenProperties
<1>5. CASE entry = 2
  <2>1. section.kind = "modules" /\ section.length = ModuleBytes * Len(bundle.modules)
    BY <1>1, <1>4, <1>5, KindIs
  <2>2. Records(ModuleBytes) = Len(bundle.modules)
    BY <1>3, <1>4, <2>1, Divided DEF Records
  <2> QED
    BY <1>2, <1>3, <1>4, <2>1, <2>2 DEF TooMany
<1>6. CASE entry = 3
  <2>1. section.kind = "exports" /\ section.length <= MaxExports * ExportBytes
        /\ section.length \in Nat
    BY <1>1, <1>2, <1>6, KindIs
  <2>2. section.length \div ExportBytes <= MaxExports
    BY <1>3, <2>1, AtMost
  <2>3. Records(ExportBytes) \in Nat
    BY <1>3, <2>1, Quotients DEF Records
  <2> QED
    BY <1>3, <2>1, <2>2, <2>3 DEF TooMany, Records
<1>7. CASE entry = 4
  <2>1. section.kind = "initializers" /\ section.length <= MaxInitializers * InitializerBytes
        /\ section.length \in Nat
    BY <1>1, <1>2, <1>7, KindIs
  <2>2. section.length \div InitializerBytes <= MaxInitializers
    BY <1>3, <2>1, AtMost
  <2>3. Records(InitializerBytes) \in Nat
    BY <1>3, <2>1, Quotients DEF Records
  <2> QED
    BY <1>3, <2>1, <2>2, <2>3 DEF TooMany, Records
<1>8. CASE entry = 5
  <2>1. section.kind = "globals" /\ section.length = 2 * Len(bundle.words)
    BY <1>1, <1>4, <1>8, KindIs
  <2>2. Records(2) = Len(bundle.words)
    <3> DEFINE words == Len(bundle.words)
    <3>1. words \in Nat /\ 2 \in Nat \ {0}
      BY <1>4
    <3> HIDE DEF words
    <3>2. (2 * words) \div 2 = words
      BY ONLY <3>1, Divided
    <3> QED
      BY <2>1, <3>2 DEF Records, words
  <2> QED
    BY <1>2, <1>3, <1>4, <2>1, <2>2 DEF TooMany
<1>9. CASE entry \in {1, 6, 7, 8}
  BY <1>1, <1>9, KindIs DEF TooMany
<1> QED
  BY <1>1, <1>5, <1>6, <1>7, <1>8, <1>9

\* The byte that follows a section is the earliest of the next one.
LEMMA EarliestNext ==
  ASSUME disk \in Disks, NEW i \in 1 .. Count
  PROVE  /\ Earliest(i + 1) = Offset(i) + Size(i) /\ Earliest(i + 1) \in Nat
         /\ Offset(i) \in Nat /\ Size(i) \in Nat /\ i + 1 \in 1 .. Count + 1
<1>1. Offset(i) \in Nat /\ Size(i) \in Nat /\ Count \in {7, 8}
  BY Form
<1>2. i \in Nat /\ i + 1 # 1 /\ (i + 1) - 1 = i
  BY <1>1
<1> QED
  BY <1>1, <1>2 DEF Earliest

\* The read-only data go where the layout of the REU has room for them.
LEMMA RoDataPlace ==
  ASSUME disk \in Disks, Known, stage = "gap", entry = 8
  PROVE  RoDataAt = RoDataSpot /\ RoDataSpot \in Nat
<1>1. Begun(4) /\ Passed(3)
  BY DEF Begun, Passed
<1>2. 4 \in 1 .. Count /\ InitializerBytes \in Nat \ {0}
  BY Form, PackAssumption
<1>3. Size(4) \in Nat /\ Size(4) % InitializerBytes = 0
  BY <1>2, Form
<1>4. (Size(4) \div InitializerBytes) * InitializerBytes = Size(4)
  BY <1>2, <1>3, Whole, OneMore
<1>5. info.initializers_at = InitializersSpot /\ info.initializers = Size(4) \div InitializerBytes
  BY <1>1 DEF Known
<1> QED
  BY <1>4, <1>5, Spots DEF RoDataAt, RoDataSpot

\* What the loader notes of a section when it begins.
LEMMA NotedStep ==
  ASSUME info \in InfoType, disk \in Disks, entry \in 1 .. Count, Known, stage = "gap",
         Size(entry) # 0, info' = Noted, disk' = disk, stage' = "section", entry' = entry,
         \A i \in 1 .. 8 : /\ Begun(i) <=> i < entry
                           /\ Passed(i) <=> i < entry,
         \A i \in 1 .. 8 : /\ Begun(i)' <=> i < entry + 1
                           /\ Passed(i)' <=> i < entry
  PROVE  /\ info' \in InfoType /\ Known'
         /\ info'.modules = info.modules /\ info'.words = info.words
<1>1. /\ Count \in {7, 8} /\ entry \in 1 .. 8
      /\ section.length = Size(entry) /\ section.kind = Kinds[entry] /\ Size(entry) \in Nat
  BY AtSection
<1>2. /\ info.exports_at = ExportsSpot
      /\ info.exports = IF Begun(3) THEN Size(3) \div ExportBytes ELSE 0
      /\ info.initializers_at = IF Passed(3) THEN InitializersSpot ELSE 0
      /\ info.initializers = IF Begun(4) THEN Size(4) \div InitializerBytes ELSE 0
      /\ info.ram = IF Begun(6) THEN Size(6) ELSE 0
      /\ info.code = IF Begun(7) THEN Size(7) ELSE 0
      /\ info.rodata = IF Begun(8) THEN Size(8) ELSE 0
      /\ info.rodata_at = IF Begun(8) /\ Size(8) > 0 THEN RoDataSpot ELSE 0
  BY DEF Known
<1>3. ExportBytes \in Nat \ {0} /\ InitializerBytes \in Nat \ {0}
  BY PackAssumption
<1>4. /\ Records(ExportBytes) = Size(entry) \div ExportBytes /\ Records(ExportBytes) \in Nat
      /\ Records(InitializerBytes) = Size(entry) \div InitializerBytes
      /\ Records(InitializerBytes) \in Nat
  BY <1>1, <1>3, Quotients DEF Records
<1>5. entry = 8 => RoDataAt = RoDataSpot /\ RoDataSpot \in Nat
  BY RoDataPlace
<1>6. CASE entry \in {1, 2, 5}
  <2>1. info' = info
    BY <1>1, <1>6, KindIs DEF Noted
  <2>2. Early' <=> Early
    BY DEF Early
  <2>3. \A i \in {3, 4, 6, 7, 8} : Begun(i)' <=> Begun(i)
    BY <1>6
  <2>4. Passed(3)' <=> Passed(3)
    BY <1>6
  <2> QED
    BY <2>1, <2>2, <2>3, <2>4, KnownKept
<1>7. CASE entry = 3
  <2>1. info' = [info EXCEPT !.exports = Size(3) \div ExportBytes]
    BY <1>1, <1>4, <1>7, KindIs DEF Noted
  <2>2. info' \in InfoType
    BY <1>4, <1>7, <2>1 DEF InfoType
  <2>3. Known'
    BY <1>2, <1>7, <2>1, SameDisk DEF Known, InfoType
  <2> QED
    BY <2>1, <2>2, <2>3 DEF InfoType
<1>8. CASE entry = 4
  <2>1. info' = [info EXCEPT !.initializers = Size(4) \div InitializerBytes]
    BY <1>1, <1>4, <1>8, KindIs DEF Noted
  <2>2. info' \in InfoType
    BY <1>4, <1>8, <2>1 DEF InfoType
  <2>3. Known'
    BY <1>2, <1>8, <2>1, SameDisk DEF Known, InfoType
  <2> QED
    BY <2>1, <2>2, <2>3 DEF InfoType
<1>9. CASE entry = 6
  <2>1. info' = [info EXCEPT !.ram = Size(6)]
    BY <1>1, <1>9, KindIs DEF Noted
  <2>2. info' \in InfoType
    BY <1>1, <1>9, <2>1 DEF InfoType
  <2>3. Known'
    BY <1>2, <1>9, <2>1, SameDisk DEF Known, InfoType
  <2> QED
    BY <2>1, <2>2, <2>3 DEF InfoType
<1>10. CASE entry = 7
  <2>1. info' = [info EXCEPT !.code = Size(7)]
    BY <1>1, <1>10, KindIs DEF Noted
  <2>2. info' \in InfoType
    BY <1>1, <1>10, <2>1 DEF InfoType
  <2>3. Known'
    BY <1>2, <1>10, <2>1, SameDisk DEF Known, InfoType
  <2> QED
    BY <2>1, <2>2, <2>3 DEF InfoType
<1>11. CASE entry = 8
  <2>1. info' = [info EXCEPT !.rodata = Size(8), !.rodata_at = RoDataSpot]
    BY <1>1, <1>5, <1>11, KindIs DEF Noted
  <2>2. info' \in InfoType
    BY <1>1, <1>5, <1>11, <2>1 DEF InfoType
  <2>3. Known'
    BY <1>1, <1>2, <1>11, <2>1, SameDisk DEF Known, InfoType
  <2> QED
    BY <2>1, <2>2, <2>3 DEF InfoType
<1> QED
  BY <1>1, <1>6, <1>7, <1>8, <1>9, <1>10, <1>11

\* On to the next section, from one that is all read or has no bytes.
LEMMA ToNext ==
  ASSUME LoadInv, disk \in Disks, entry \in 1 .. Count, stage \in {"gap", "section"},
         Offset(entry) >= Earliest(entry), Got(entry) = Size(entry),
         pos = Least(Offset(entry) + Size(entry), disk.present) \/ Dead,
         stage' = "gap", entry' = entry + 1, file_pos' = Offset(entry) + Size(entry),
         disk' = disk, board' = board, pos' = pos, remain' = remain,
         info' \in InfoType, info'.modules = info.modules, info'.words = info.words, Known'
  PROVE  LoadInv'
<1>1. /\ Count \in {7, 8} /\ entry \in 1 .. 8 /\ Offset(entry) \in Nat /\ Size(entry) \in Nat
      /\ Offset(entry) + Size(entry) \in Nat
  BY AtSection
<1>2. \A i \in 1 .. 8 : /\ i < entry => Begun(i) /\ Got(i) = Size(i)
                        /\ i > entry => Got(i) = 0
  BY <1>1 DEF Begun, Passed, Reading, Over, Got
<1>3. Types'
  <2>1. entry' \in 0 .. Count' + 1 /\ file_pos' \in Nat
    BY <1>1, SameDisk
  <2> QED
    BY <1>1, <2>1, SameDisk DEF LoadInv, Types
<1>4. Aligned'
  <2>1. NextByte' = Offset(entry) + Size(entry)
    BY DEF NextByte
  <2>2. (pos = Least(NextByte, disk.present))' <=> pos = Least(Offset(entry) + Size(entry), disk.present)
    BY <2>1 DEF Least
  <2>3. Dead' <=> Dead
    BY DEF Dead
  <2> QED
    BY <2>2, <2>3 DEF Aligned
<1>5. Control'
  <2>1. entry' \in 1 .. Count' + 1
    BY <1>1, SameDisk
  <2> QED
    BY <2>1 DEF Control, Over
<1>6. \A i \in 1 .. 8 : /\ Begun(i)' <=> i < entry + 1
                        /\ Got(i)' = IF i < entry + 1 THEN Size(i) ELSE 0
  BY <1>1, SameDisk DEF Begun, Passed, Reading, Over, Got
<1>7. Ordered'
  <2>1. bundle' = bundle /\ Count' = Count /\ bundle.header = "good" /\ Count <= MaxSections
    BY <1>1, SameDisk DEF LoadInv, Ordered
  <2>2. ASSUME NEW i \in 1 .. Count', Begun(i)' PROVE Offset(i)' >= Earliest(i)'
    <3>1. i \in 1 .. 8 /\ i < entry + 1 /\ i \in 1 .. Count
      BY <1>1, <1>6, <2>1, <2>2
    <3>2. CASE i = entry
      BY <3>2, SameDisk
    <3>3. CASE i # entry
      <4>1. i < entry
        BY <1>1, <3>1, <3>3
      <4>2. Offset(i) >= Earliest(i)
        BY <1>2, <3>1, <4>1 DEF LoadInv, Ordered
      <4> QED
        BY <4>2, SameDisk
    <3> QED
      BY <3>2, <3>3
  <2>3. Earliest(entry + 1) = Offset(entry) + Size(entry)
    BY EarliestNext
  <2>4. Earliest(entry)' = Earliest(entry + 1)
    BY SameDisk DEF Earliest
  <2>5. file_pos' >= Earliest(entry)'
    BY <1>1, <2>3, <2>4
  <2> QED
    BY <2>1, <2>2, <2>5 DEF Ordered
<1>8. Tables'
  <2>1. Got(2)' = Got(2) /\ Got(5)' = Got(5)
    BY <1>1, <1>2, <1>6
  <2> QED
    BY <2>1, TablesKept DEF LoadInv
<1>9. NoFailure'
  <2>1. ASSUME Sound, entry + 1 <= Count PROVE file_pos' <= Offset(entry + 1)
    <3>1. entry + 1 \in 1 .. Count
      BY <1>1, <2>1
    <3>2. Offset(entry + 1) >= Earliest(entry + 1)
      BY <2>1, <3>1, SoundSections
    <3>3. Earliest(entry + 1) = Offset(entry) + Size(entry)
      BY EarliestNext
    <3>4. Offset(entry + 1) \in Nat
      BY <3>1, Form
    <3> QED
      BY <1>1, <3>2, <3>3, <3>4
  <2>2. Offset(entry)' = Offset(entry + 1) /\ Count' = Count /\ (Sound' <=> Sound)
    BY SameDisk DEF Offset, Sound
  <2> QED
    BY <2>1, <2>2 DEF NoFailure
<1> QED
  BY <1>3, <1>4, <1>5, <1>7, <1>8, <1>9 DEF LoadInv

\* An empty section is stepped over, a table that is too long is given up, and a
\* section that starts is noted in the bundle record.
LEMMA BeginStep ==
  ASSUME LoadInv, BeginSection
  PROVE  LoadInv'
<1>1. /\ disk \in Disks /\ stage = "gap" /\ entry \in 1 .. Count /\ file_pos \in Nat
      /\ section.offset = file_pos /\ disk.bad \in Nat /\ disk.present \in Nat /\ Count \in {7, 8}
  <2>1. Count \in {7, 8} /\ disk.bad \in Nat /\ disk.present \in Nat
    BY Form DEF LoadInv, Types
  <2> QED
    BY <2>1 DEF LoadInv, Types, BeginSection, Control
<1>2. /\ file_pos = Offset(entry) /\ section.length = Size(entry) /\ section.kind = Kinds[entry]
      /\ Offset(entry) \in Nat /\ Size(entry) \in Nat /\ entry \in 1 .. 8
  BY <1>1, AtSection
<1>3. NextByte = file_pos /\ Underway
  BY <1>1 DEF NextByte, Underway
<1>4. pos = Least(NextByte, disk.present) \/ Dead
  BY <1>3 DEF LoadInv, Aligned
<1>5. \A i \in 1 .. 8 : /\ Begun(i) <=> i < entry
                        /\ Passed(i) <=> i < entry
                        /\ Got(i) = IF i < entry THEN Size(i) ELSE 0
  BY <1>1, <1>2 DEF Begun, Passed, Reading, Over, Got
<1>6. Offset(entry) >= Earliest(entry)
  BY <1>1, <1>2 DEF LoadInv, Ordered
<1>7. CASE Size(entry) = 0
  <2>1. /\ stage' = "gap" /\ entry' = entry + 1 /\ file_pos' = file_pos
        /\ disk' = disk /\ board' = board /\ pos' = pos /\ remain' = remain /\ info' = info
    BY <1>2, <1>7 DEF BeginSection, NextSection
  <2>2. entry # 3
    BY <1>1, <1>7, Form
  <2>3. \A i \in 1 .. 8 : /\ Begun(i)' <=> i < entry + 1
                          /\ Passed(i)' <=> i < entry + 1
    BY <1>1, <1>2, <2>1, SameDisk DEF Begun, Passed, Reading, Over
  <2>4. Known'
    <3>1. Early' <=> Early
      BY <1>1, <2>1 DEF Early
    <3>2. \A i \in {3, 4, 6, 7, 8} : (Begun(i)' <=> Begun(i)) \/ Size(i) = 0
      BY <1>2, <1>5, <1>7, <2>3
    <3>3. Passed(3)' <=> Passed(3)
      BY <1>2, <1>5, <2>2, <2>3
    <3> QED
      BY <1>1, <2>1, <3>1, <3>2, <3>3, KnownKept DEF LoadInv
  <2>5. Got(entry) = Size(entry) /\ file_pos' = Offset(entry) + Size(entry)
    BY <1>1, <1>2, <1>5, <1>7, <2>1
  <2>6. pos = Least(Offset(entry) + Size(entry), disk.present) \/ Dead
    BY <1>2, <1>3, <1>4, <1>7
  <2>7. info' \in InfoType
    BY <2>1 DEF LoadInv, Types
  <2> QED
    BY <1>1, <1>6, <2>1, <2>4, <2>5, <2>6, <2>7, ToNext
<1>8. CASE Size(entry) # 0 /\ TooMany
  <2>1. Fail
    BY <1>2, <1>8 DEF BeginSection
  <2>2. ~ Sound
    BY <1>1, <1>8, NotTooMany
  <2> QED
    BY <2>1, <2>2, FailStep
<1>9. CASE Size(entry) # 0 /\ ~ TooMany
  <2>1. /\ stage' = "section" /\ remain' = Size(entry) /\ info' = Noted /\ entry' = entry
        /\ disk' = disk /\ board' = board /\ pos' = pos /\ file_pos' = file_pos
    BY <1>2, <1>9 DEF BeginSection
  <2>2. \A i \in 1 .. 8 : /\ Begun(i)' <=> i < entry + 1
                          /\ Passed(i)' <=> i < entry
                          /\ Got(i)' = IF i < entry THEN Size(i) ELSE 0
    BY <1>1, <1>2, <2>1, SameDisk DEF Begun, Passed, Reading, Over, Got
  <2>3. info' \in InfoType /\ Known' /\ info'.modules = info.modules /\ info'.words = info.words
    BY <1>1, <1>2, <1>5, <1>9, <2>1, <2>2, NotedStep DEF LoadInv, Types
  <2>4. Types'
    BY <1>1, <1>2, <2>1, <2>3, SameDisk DEF LoadInv, Types
  <2>5. Aligned'
    <3>1. NextByte' = NextByte
      BY <1>1, <1>2, <1>3, <2>1, <2>2 DEF NextByte
    <3>2. (pos = Least(NextByte, disk.present))' <=> pos = Least(NextByte, disk.present)
      BY <2>1, <3>1 DEF Least
    <3>3. Dead' <=> Dead
      BY <2>1 DEF Dead
    <3> QED
      BY <1>4, <3>2, <3>3 DEF Aligned
  <2>6. Control'
    <3>1. Size(entry)' = Size(entry) /\ Offset(entry)' = Offset(entry) /\ Count' = Count
      BY <2>1, SameDisk DEF Size, Offset
    <3> QED
      BY <1>1, <1>2, <2>1, <3>1 DEF Control, Over
  <2>7. Ordered'
    <3>1. bundle' = bundle /\ Count' = Count /\ bundle.header = "good" /\ Count <= MaxSections
      BY <1>1, <2>1, SameDisk DEF LoadInv, Ordered
    <3>2. ASSUME NEW i \in 1 .. Count', Begun(i)' PROVE Offset(i)' >= Earliest(i)'
      <4>1. i \in 1 .. 8 /\ i < entry + 1 /\ i \in 1 .. Count
        BY <1>1, <2>2, <3>1, <3>2
      <4>2. CASE i = entry
        BY <1>6, <2>1, <4>2, SameDisk
      <4>3. CASE i # entry
        <5>1. i < entry
          BY <1>1, <4>1, <4>3
        <5>2. Offset(i) >= Earliest(i)
          BY <1>5, <4>1, <5>1 DEF LoadInv, Ordered
        <5> QED
          BY <2>1, <5>2, SameDisk
      <4> QED
        BY <4>2, <4>3
    <3> QED
      BY <2>1, <3>1, <3>2 DEF Ordered
  <2>8. Tables'
    <3>1. Got(2)' = Got(2) /\ Got(5)' = Got(5)
      BY <1>2, <1>5, <2>2
    <3> QED
      BY <1>1, <2>1, <2>3, <3>1, TablesKept DEF LoadInv
  <2>9. NoFailure'
    BY <2>1 DEF NoFailure
  <2> QED
    BY <2>3, <2>4, <2>5, <2>6, <2>7, <2>8, <2>9 DEF LoadInv
<1> QED
  BY <1>7, <1>8, <1>9


-----------------------------------------------------------------------------
(* Inside a section.                                                        *)

\* The loader in a section.
LEMMA Inside ==
  ASSUME LoadInv, stage = "section"
  PROVE  /\ disk \in Disks /\ entry \in 1 .. Count /\ Count \in {7, 8} /\ entry \in 1 .. 8
         /\ disk.bad \in Nat /\ disk.present \in Nat /\ pos \in 0 .. disk.present
         /\ file_pos = Offset(entry) /\ file_pos \in Nat /\ Size(entry) \in Nat
         /\ remain \in 0 .. Size(entry)
         /\ section.offset = Offset(entry) /\ section.length = Size(entry)
         /\ section.kind = Kinds[entry]
         /\ Underway /\ Got(entry) = Size(entry) - remain /\ NextByte = Offset(entry) + Got(entry)
         /\ NextByte \in Nat /\ Got(entry) \in 0 .. Size(entry)
<1>1. /\ disk \in Disks /\ entry \in 1 .. Count /\ pos \in 0 .. disk.present
      /\ file_pos = Offset(entry) /\ file_pos \in Nat /\ remain \in 0 .. Size(entry)
  BY DEF LoadInv, Types, Control
<1>2. /\ Count \in {7, 8} /\ disk.bad \in Nat /\ disk.present \in Nat
      /\ section.offset = Offset(entry) /\ section.length = Size(entry)
      /\ section.kind = Kinds[entry] /\ Size(entry) \in Nat /\ entry \in 1 .. 8
  BY <1>1, Form, AtSection
<1>3. Underway
  BY DEF Underway
<1>4. ~ Passed(entry) /\ Reading(entry)
  BY <1>1, <1>2 DEF Passed, Reading, Over
<1>5. Got(entry) = Size(entry) - remain
  BY <1>4 DEF Got
<1>6. NextByte = Offset(entry) + Got(entry)
  BY <1>1 DEF NextByte
<1>7. NextByte \in Nat /\ Got(entry) \in 0 .. Size(entry)
  BY <1>1, <1>2, <1>5, <1>6
<1> QED
  BY <1>1, <1>2, <1>3, <1>5, <1>6, <1>7

\* A step within a section keeps the invariant if the drive and the tables keep
\* up with the loader.
LEMMA StepInside ==
  ASSUME LoadInv, stage = "section", stage' = "section", disk' = disk, board' = board,
         entry' = entry, file_pos' = file_pos, remain' \in 0 .. Size(entry),
         pos' \in 0 .. disk.present,
         \/ pos' = Least(Offset(entry) + (Size(entry) - remain'), disk.present)
         \/ disk.bad < disk.present /\ pos' >= disk.bad,
         info' \in InfoType,
         \A f \in {"exports", "exports_at", "initializers", "initializers_at", "ram",
                   "code", "rodata", "rodata_at"} : info'[f] = info[f],
         Tables'
  PROVE  LoadInv'
<1>1. /\ disk \in Disks /\ entry \in 1 .. Count /\ Count \in {7, 8} /\ entry \in 1 .. 8
      /\ file_pos = Offset(entry) /\ file_pos \in Nat /\ Size(entry) \in Nat
  BY Inside
<1>2. bundle' = bundle /\ Count' = Count /\ Size(entry)' = Size(entry) /\ Offset(entry)' = Offset(entry)
  BY SameDisk DEF Size, Offset
<1>3. \A i : (Begun(i)' <=> Begun(i)) /\ (Passed(i)' <=> Passed(i))
  BY DEF Begun, Passed, Reading, Over
<1>4. Types'
  BY <1>1, <1>2 DEF LoadInv, Types
<1>5. Aligned'
  <2>1. Reading(entry)' /\ ~ Passed(entry)'
    BY <1>1 DEF Reading, Passed, Over
  <2>2. Got(entry)' = Size(entry) - remain'
    BY <1>2, <2>1 DEF Got
  <2>3. NextByte' = Offset(entry) + (Size(entry) - remain')
    BY <1>1, <2>2 DEF NextByte
  <2>4. CASE pos' = Least(Offset(entry) + (Size(entry) - remain'), disk.present)
    <3>1. (pos = Least(NextByte, disk.present))'
      BY <2>3, <2>4 DEF Least
    <3> QED
      BY <3>1 DEF Aligned
  <2>5. CASE disk.bad < disk.present /\ pos' >= disk.bad
    BY <2>5 DEF Aligned, Dead
  <2> QED
    BY <2>4, <2>5
<1>6. Control'
  BY <1>1, <1>2 DEF Control, Over
<1>7. Ordered'
  BY <1>2, <1>3, SameDisk DEF LoadInv, Ordered
<1>8. Known'
  <2>1. \A i : Size(i)' = Size(i)
    BY SameDisk
  <2>2. ExportsSpot' = ExportsSpot /\ InitializersSpot' = InitializersSpot /\ RoDataSpot' = RoDataSpot
    BY SameDisk
  <2>3. info'.exports_at = info.exports_at /\ info'.exports = info.exports
        /\ info'.initializers_at = info.initializers_at /\ info'.initializers = info.initializers
        /\ info'.ram = info.ram /\ info'.code = info.code
        /\ info'.rodata = info.rodata /\ info'.rodata_at = info.rodata_at
    OBVIOUS
  <2> QED
    BY <1>3, <2>1, <2>2, <2>3 DEF LoadInv, Known
<1>9. NoFailure'
  BY DEF NoFailure
<1> QED
  BY <1>4, <1>5, <1>6, <1>7, <1>8, <1>9 DEF LoadInv

\* A piece of a large section.
LEMMA StreamStep ==
  ASSUME LoadInv, StreamChunk
  PROVE  LoadInv'
<1> DEFINE n == Least(Chunk, remain)
           r == Received(n)
<1>1. stage = "section" /\ remain > 0
  BY DEF StreamChunk
<1>2. /\ disk \in Disks /\ entry \in 1 .. Count /\ entry \in 1 .. 8
      /\ disk.bad \in Nat /\ disk.present \in Nat /\ Offset(entry) \in Nat
      /\ Size(entry) \in Nat /\ remain \in 0 .. Size(entry) /\ section.kind = Kinds[entry]
      /\ Underway /\ Got(entry) = Size(entry) - remain /\ NextByte = Offset(entry) + Got(entry)
      /\ NextByte \in Nat
  BY <1>1, Inside
<1>3. n \in Nat \ {0} /\ n <= remain
  BY <1>1, <1>2, BundleAssumption DEF Least
<1> HIDE DEF n
<1>4. CASE Lost(r)
  <2>1. Fail
    BY <1>4 DEF StreamChunk, n
  <2>2. ASSUME Sound PROVE FALSE
    <3>1. Offset(entry) + Size(entry) <= disk.present /\ disk.bad >= disk.present
      BY <1>2, <2>2, SoundSections
    <3>2. NextByte + n <= disk.present
      BY <1>2, <1>3, <3>1
    <3>3. ~ r.error
      BY <1>2, <1>3, <3>1, <3>2, ReadsAll DEF LoadInv
    <3> QED
      BY <1>4, <3>3 DEF Lost
  <2> QED
    BY <2>1, <2>2, FailStep
<1>5. CASE ~ Lost(r)
  <2>1. /\ Advance(r) /\ remain' = remain - r.count
        /\ disk' = disk /\ board' = board /\ stage' = stage /\ entry' = entry
        /\ file_pos' = file_pos /\ info' = info
    BY <1>5 DEF StreamChunk, n
  <2>2. /\ r.count \in 1 .. n /\ pos' = Least(NextByte + r.count, disk.present)
        /\ pos' \in 0 .. disk.present
    BY <1>2, <1>3, <1>5, <2>1, Reads DEF Advance, LoadInv, Lost
  <2>3. remain' \in 0 .. Size(entry) /\ NextByte + r.count = Offset(entry) + (Size(entry) - remain')
    BY <1>2, <1>3, <2>1, <2>2
  <2>4. Tables'
    <3>1. entry # 2 /\ entry # 5
      BY <1>2, KindIs DEF StreamChunk
    <3>2. Got(2)' = Got(2) /\ Got(5)' = Got(5)
      BY <2>1, <3>1, SameDisk DEF Got, Passed, Reading, Over
    <3> QED
      BY <1>1, <2>1, <3>2, TablesKept DEF LoadInv
  <2>5. info' \in InfoType
    BY <2>1 DEF LoadInv, Types
  <2> QED
    BY <1>1, <2>1, <2>2, <2>3, <2>4, <2>5, StepInside
<1> QED
  BY <1>4, <1>5

\* A piece of a section of another kind, where an error goes unnoticed.
LEMMA SkipStep ==
  ASSUME LoadInv, SkipSection
  PROVE  LoadInv'
<1> DEFINE n == Least(SkipChunk, remain)
           r == Received(n)
<1>1. stage = "section" /\ remain > 0
  BY DEF SkipSection
<1>2. /\ disk \in Disks /\ entry \in 1 .. Count /\ entry \in 1 .. 8
      /\ disk.bad \in Nat /\ disk.present \in Nat /\ Offset(entry) \in Nat /\ pos \in 0 .. disk.present
      /\ Size(entry) \in Nat /\ remain \in 0 .. Size(entry) /\ section.kind = Kinds[entry]
      /\ Underway /\ Got(entry) = Size(entry) - remain /\ NextByte = Offset(entry) + Got(entry)
      /\ NextByte \in Nat
  BY <1>1, Inside
<1>3. n \in Nat \ {0} /\ n <= remain
  BY <1>1, <1>2, BundleAssumption DEF Least
<1>4. /\ Advance(r) /\ remain' = IF r.error THEN 0 ELSE remain - r.count
      /\ disk' = disk /\ board' = board /\ stage' = stage /\ entry' = entry
      /\ file_pos' = file_pos /\ info' = info
  BY DEF SkipSection
<1> HIDE DEF n
<1>5. Tables'
  <2>1. entry # 2 /\ entry # 5
    BY <1>2, KindIs DEF SkipSection
  <2>2. Got(2)' = Got(2) /\ Got(5)' = Got(5)
    BY <1>4, <2>1, SameDisk DEF Got, Passed, Reading, Over
  <2> QED
    BY <1>1, <1>4, <2>2, TablesKept DEF LoadInv
<1>6. info' \in InfoType
  BY <1>4 DEF LoadInv, Types
<1>7. CASE ~ r.error
  <2>1. /\ r.count \in 1 .. n /\ pos' = Least(NextByte + r.count, disk.present)
        /\ pos' \in 0 .. disk.present
    BY <1>2, <1>3, <1>4, <1>7, Reads DEF Advance, LoadInv
  <2>2. remain' \in 0 .. Size(entry) /\ NextByte + r.count = Offset(entry) + (Size(entry) - remain')
    BY <1>2, <1>3, <1>4, <1>7, <2>1
  <2> QED
    BY <1>1, <1>4, <1>5, <1>6, <2>1, <2>2, StepInside
<1>8. CASE r.error
  <2> DEFINE count == IF pos >= disk.present THEN 1 ELSE Least(n, disk.present - pos)
  <2>1. /\ r.error = (pos + count > disk.bad)
        /\ r.count = IF pos + count > disk.bad THEN disk.bad - pos ELSE count
    BY DEF Received
  <2>2. r.count = disk.bad - pos
    BY <1>8, <2>1
  <2>3. pos' = Least(disk.bad, disk.present) /\ pos' \in 0 .. disk.present
    BY <1>2, <1>4, <2>2 DEF Advance, Least
  <2>4. CASE disk.bad < disk.present
    <3>1. remain' = 0 /\ disk.bad < disk.present /\ pos' >= disk.bad
      BY <1>2, <1>4, <1>8, <2>3, <2>4 DEF Least
    <3> QED
      BY <1>1, <1>2, <1>4, <1>5, <1>6, <2>3, <3>1, StepInside
  <2>5. CASE disk.bad >= disk.present
    <3>1. pos' = disk.present
      BY <1>2, <2>3, <2>5 DEF Least
    <3>2. count \in 1 .. n /\ (pos < disk.present => pos + count <= disk.present)
      BY <1>2, <1>3 DEF Least
    <3>7. pos + count > disk.bad
      BY <1>8, <2>1
    <3> HIDE DEF count
    <3>3. pos >= disk.present
      BY <1>2, <2>5, <3>2, <3>7
    <3>4. NextByte >= disk.present
      BY <1>2, <3>3, <2>5 DEF LoadInv, Aligned, Dead, Least
    <3>5. remain' = 0 /\ Offset(entry) + (Size(entry) - remain') >= disk.present
      BY <1>2, <1>4, <1>8, <3>4
    <3>6. pos' = Least(Offset(entry) + (Size(entry) - remain'), disk.present)
      BY <1>2, <3>1, <3>5 DEF Least
    <3> QED
      BY <1>1, <1>2, <1>4, <1>5, <1>6, <2>3, <3>5, <3>6, StepInside
  <2> QED
    BY <1>2, <2>4, <2>5
<1> QED
  BY <1>7, <1>8


\* A record that is read in one piece is the next one of the table, byte for byte.
LEMMA RecordRead ==
  ASSUME LoadInv, stage = "section", NEW size \in Nat, size > 1, remain >= size,
         NEW have \in Nat, NEW all \in Nat, size * have = Got(entry),
         Size(entry) = size * all, ~ Short(Received(size), size)
  PROVE  LET r == Received(size) IN
         /\ have + 1 <= all
         /\ r.bytes = [k \in 1 .. size |-> section.offset + ((have + 1) - 1) * size + k - 1]
         /\ r.count = size
         /\ Least(pos + r.count, disk.present)
              = Least(Offset(entry) + (Size(entry) - (remain - size)), disk.present)
         /\ Least(pos + r.count, disk.present) \in 0 .. disk.present
         /\ remain - size \in 0 .. Size(entry)
         /\ size * (have + 1) = Size(entry) - (remain - size)
<1> DEFINE r == Received(size)
<1>1. /\ entry \in 1 .. Count /\ disk.bad \in Nat /\ disk.present \in Nat /\ Offset(entry) \in Nat
      /\ pos \in 0 .. disk.present /\ section.offset = Offset(entry)
      /\ Size(entry) \in Nat /\ remain \in 0 .. Size(entry)
      /\ Underway /\ Got(entry) = Size(entry) - remain /\ NextByte = Offset(entry) + Got(entry)
      /\ NextByte \in Nat
  BY Inside
<1>2. ~ r.error /\ r.count = size
  BY DEF Short
<1>3. /\ r.bytes = [k \in 1 .. r.count |-> FileByte(NextByte + k - 1)]
      /\ (r.count > 1 => NextByte + r.count <= disk.present)
      /\ Least(pos + r.count, disk.present) = Least(NextByte + r.count, disk.present)
      /\ Least(pos + r.count, disk.present) \in 0 .. disk.present
  <2>1. size \in Nat \ {0} /\ Types /\ Aligned
    BY DEF LoadInv
  <2> QED
    BY <1>1, <1>2, <2>1, Reads
<1>4. NextByte + size <= disk.present
  BY <1>2, <1>3
<1>5. size * (have + 1) = size * have + size /\ size * have = have * size /\ have * size \in Nat
  BY OneMore
<1>6. all < have + 1 => size * all + size <= size * (have + 1) /\ size * all \in Nat
  BY MultiplesApart
<1>7. have + 1 <= all
  BY <1>1, <1>5, <1>6
<1>8. r.bytes = [k \in 1 .. size |-> section.offset + ((have + 1) - 1) * size + k - 1]
  <2> DEFINE before == have * size
  <2>1. before \in Nat /\ NextByte = Offset(entry) + before /\ ((have + 1) - 1) * size = before
    BY <1>1, <1>5
  <2> HIDE DEF before
  <2>2. ASSUME NEW k \in 1 .. size
        PROVE  FileByte(NextByte + k - 1) = section.offset + before + k - 1
    <3>1. NextByte + k - 1 < disk.present /\ NextByte + k - 1 = section.offset + before + k - 1
      BY <1>1, <1>4, <2>1
    <3> QED
      BY <3>1 DEF FileByte
  <2> QED
    BY <1>2, <1>3, <2>1, <2>2
<1>9. remain - size \in 0 .. Size(entry) /\ NextByte + size = Offset(entry) + (Size(entry) - (remain - size))
      /\ size * (have + 1) = Size(entry) - (remain - size)
  BY <1>1, <1>5
<1> QED
  BY <1>2, <1>3, <1>7, <1>8, <1>9

\* A sound file never fails in the middle of a table.
LEMMA RecordSound ==
  ASSUME LoadInv, stage = "section", NEW size \in Nat, size > 1, remain >= size, Sound
  PROVE  ~ Short(Received(size), size)
<1>1. /\ disk \in Disks /\ entry \in 1 .. Count /\ Offset(entry) \in Nat /\ disk.present \in Nat
      /\ Size(entry) \in Nat /\ remain \in 0 .. Size(entry)
      /\ Underway /\ Got(entry) = Size(entry) - remain /\ NextByte = Offset(entry) + Got(entry)
      /\ NextByte \in Nat
  BY Inside
<1>2. Offset(entry) + Size(entry) <= disk.present /\ disk.bad >= disk.present
  BY <1>1, SoundSections
<1>3. NextByte + size <= disk.present
  BY <1>1, <1>2
<1> QED
  BY <1>1, <1>2, <1>3, ReadsAll DEF LoadInv, Short

\* The table with one record more.
LEMMA OneRecordMore ==
  ASSUME NEW S, NEW table \in Seq(S), NEW full \in Seq(S), Len(table) + 1 <= Len(full),
         \A n \in 1 .. Len(table) : table[n] = full[n]
  PROVE  LET more == Append(table, full[Len(table) + 1]) IN
         /\ more \in Seq(S) /\ Len(more) = Len(table) + 1
         /\ \A n \in 1 .. Len(more) : more[n] = full[n]
<1>1. Len(table) \in Nat /\ Len(table) + 1 \in 1 .. Len(full)
  BY LenProperties
<1>2. full[Len(table) + 1] \in S
  BY <1>1, ElementOfSeq
<1> DEFINE more == Append(table, full[Len(table) + 1])
<1>3. /\ more \in Seq(S) /\ Len(more) = Len(table) + 1
      /\ \A i \in 1 .. Len(table) : more[i] = table[i]
      /\ more[Len(table) + 1] = full[Len(table) + 1]
  BY <1>2, AppendProperties
<1>4. ASSUME NEW n \in 1 .. Len(more) PROVE more[n] = full[n]
  BY <1>1, <1>3, <1>4
<1> QED
  BY <1>3, <1>4

\* A record of the module table.
LEMMA ModuleStep ==
  ASSUME LoadInv, ReadRecord("modules", ModuleBytes, "modules", bundle.modules)
  PROVE  LoadInv'
<1> DEFINE r == Received(ModuleBytes)
           have == Len(info.modules)
           all == Len(bundle.modules)
<1>1. /\ stage = "section" /\ section.kind = "modules" /\ remain >= ModuleBytes
      /\ ModuleBytes \in Nat /\ ModuleBytes > 1
  BY PackAssumption, BundleAssumption DEF ReadRecord
<1>2. disk \in Disks /\ entry = 2 /\ info \in InfoType
  BY <1>1, Inside, KindIs DEF LoadInv, Types
<1>3. CASE Short(r, ModuleBytes)
  <2>1. Fail
    BY <1>3 DEF ReadRecord
  <2> QED
    BY <1>1, <1>3, <2>1, RecordSound, FailStep
<1>4. CASE ~ Short(r, ModuleBytes)
  <2>1. /\ Advance(r) /\ remain' = remain - ModuleBytes
        /\ info' = [info EXCEPT !["modules"] =
             Append(@, IF r.bytes = [k \in 1 .. ModuleBytes |->
                                       section.offset + ((have + 1) - 1) * ModuleBytes + k - 1]
                       THEN bundle.modules[have + 1] ELSE Junk)]
        /\ disk' = disk /\ board' = board /\ stage' = stage /\ entry' = entry /\ file_pos' = file_pos
    BY <1>4 DEF ReadRecord
  <2>2. /\ info.modules \in Seq([start : Nat]) /\ bundle.modules \in Seq([start : Nat])
        /\ have \in Nat /\ all \in Nat
    BY <1>2, Form, LenProperties DEF InfoType
  <2>3. ModuleBytes * have = Got(entry) /\ Size(entry) = ModuleBytes * all
    BY <1>1, <1>2, Form DEF LoadInv, Tables
  <2> DEFINE kept == [k \in 1 .. ModuleBytes |-> section.offset + ((have + 1) - 1) * ModuleBytes + k - 1]
  <2>4. /\ have + 1 <= all /\ r.bytes = kept
        /\ r.count = ModuleBytes
        /\ Least(pos + r.count, disk.present)
             = Least(Offset(entry) + (Size(entry) - (remain - ModuleBytes)), disk.present)
        /\ Least(pos + r.count, disk.present) \in 0 .. disk.present
        /\ remain - ModuleBytes \in 0 .. Size(entry)
        /\ ModuleBytes * (have + 1) = Size(entry) - (remain - ModuleBytes)
    BY <1>1, <1>4, <2>2, <2>3, RecordRead
  <2> DEFINE more == Append(info.modules, bundle.modules[have + 1])
  <2>5. info' = [info EXCEPT !.modules = more]
    BY <2>1, <2>4
  <2>6. more \in Seq([start : Nat]) /\ Len(more) = have + 1
        /\ \A n \in 1 .. Len(more) : more[n] = bundle.modules[n]
    <3> DEFINE S == [start : Nat]
    <3>1. \A n \in 1 .. Len(info.modules) : info.modules[n] = bundle.modules[n]
      BY <1>1 DEF LoadInv, Tables
    <3>2. info.modules \in Seq(S) /\ bundle.modules \in Seq(S)
      BY <2>2
    <3> HIDE DEF S
    <3>3. more \in Seq(S) /\ Len(more) = have + 1
          /\ \A n \in 1 .. Len(more) : more[n] = bundle.modules[n]
      BY <2>4, <3>1, <3>2, OneRecordMore
    <3> QED
      BY <3>3 DEF S
  <2> HIDE DEF more
  <2>7. info' \in InfoType /\ info'.modules = more /\ info'.words = info.words
        /\ \A f \in {"exports", "exports_at", "initializers", "initializers_at", "ram",
                     "code", "rodata", "rodata_at"} : info'[f] = info[f]
    BY <1>2, <2>5, <2>6 DEF InfoType
  <2>8. Tables'
    <3>1. Got(2)' = Size(2) - remain' /\ Got(5)' = Got(5)
      BY <1>1, <1>2, <2>1, SameDisk DEF Got, Passed, Reading, Over
    <3>2. ModuleBytes * Len(info'.modules) = Got(2)'
      BY <1>2, <2>1, <2>4, <2>6, <2>7, <3>1
    <3>3. 2 * Len(info'.words) = Got(5)'
      BY <1>1, <2>7, <3>1 DEF LoadInv, Tables
    <3>4. bundle' = bundle
      BY <2>1, SameDisk
    <3>5. \A n \in 1 .. Len(info'.modules) : info'.modules[n] = bundle'.modules[n]
      BY <2>6, <2>7, <3>4
    <3>6. \A n \in 1 .. Len(info'.words) : info'.words[n] = bundle'.words[n]
      BY <1>1, <2>7, <3>4 DEF LoadInv, Tables
    <3> QED
      BY <3>2, <3>3, <3>5, <3>6 DEF Tables
  <2>9. /\ remain' \in 0 .. Size(entry) /\ pos' \in 0 .. disk.present
        /\ pos' = Least(Offset(entry) + (Size(entry) - remain'), disk.present)
    BY <2>1, <2>4 DEF Advance
  <2> QED
    BY <1>1, <2>1, <2>7, <2>8, <2>9, StepInside
<1> QED
  BY <1>3, <1>4

\* A word of the global layout.
LEMMA WordStep ==
  ASSUME LoadInv, ReadRecord("globals", 2, "words", bundle.words)
  PROVE  LoadInv'
<1> DEFINE r == Received(2)
           have == Len(info.words)
           all == Len(bundle.words)
<1>1. stage = "section" /\ section.kind = "globals" /\ remain >= 2 /\ 2 \in Nat /\ 2 > 1
  BY DEF ReadRecord
<1>2. disk \in Disks /\ entry = 5 /\ info \in InfoType
  BY <1>1, Inside, KindIs DEF LoadInv, Types
<1>3. CASE Short(r, 2)
  <2>1. Fail
    BY <1>3 DEF ReadRecord
  <2> QED
    BY <1>1, <1>3, <2>1, RecordSound, FailStep
<1>4. CASE ~ Short(r, 2)
  <2>1. /\ Advance(r) /\ remain' = remain - 2
        /\ info' = [info EXCEPT !["words"] =
             Append(@, IF r.bytes = [k \in 1 .. 2 |-> section.offset + ((have + 1) - 1) * 2 + k - 1]
                       THEN bundle.words[have + 1] ELSE Junk)]
        /\ disk' = disk /\ board' = board /\ stage' = stage /\ entry' = entry /\ file_pos' = file_pos
    BY <1>4 DEF ReadRecord
  <2>2. /\ info.words \in Seq(Nat) /\ bundle.words \in Seq(Nat)
        /\ have \in Nat /\ all \in Nat
    BY <1>2, Form, LenProperties DEF InfoType
  <2>3. 2 * have = Got(entry) /\ Size(entry) = 2 * all
    BY <1>1, <1>2, Form DEF LoadInv, Tables
  <2> DEFINE kept == [k \in 1 .. 2 |-> section.offset + ((have + 1) - 1) * 2 + k - 1]
  <2>4. /\ have + 1 <= all /\ r.bytes = kept
        /\ r.count = 2
        /\ Least(pos + r.count, disk.present)
             = Least(Offset(entry) + (Size(entry) - (remain - 2)), disk.present)
        /\ Least(pos + r.count, disk.present) \in 0 .. disk.present
        /\ remain - 2 \in 0 .. Size(entry)
        /\ 2 * (have + 1) = Size(entry) - (remain - 2)
    BY <1>1, <1>4, <2>2, <2>3, RecordRead
  <2> DEFINE more == Append(info.words, bundle.words[have + 1])
  <2>5. info' = [info EXCEPT !.words = more]
    BY <2>1, <2>4
  <2>6. more \in Seq(Nat) /\ Len(more) = have + 1
        /\ \A n \in 1 .. Len(more) : more[n] = bundle.words[n]
    <3> DEFINE S == Nat
    <3>1. \A n \in 1 .. Len(info.words) : info.words[n] = bundle.words[n]
      BY <1>1 DEF LoadInv, Tables
    <3>2. info.words \in Seq(S) /\ bundle.words \in Seq(S)
      BY <2>2
    <3> HIDE DEF S
    <3>3. more \in Seq(S) /\ Len(more) = have + 1
          /\ \A n \in 1 .. Len(more) : more[n] = bundle.words[n]
      BY <2>4, <3>1, <3>2, OneRecordMore
    <3> QED
      BY <3>3 DEF S
  <2> HIDE DEF more
  <2>7. info' \in InfoType /\ info'.words = more /\ info'.modules = info.modules
        /\ \A f \in {"exports", "exports_at", "initializers", "initializers_at", "ram",
                     "code", "rodata", "rodata_at"} : info'[f] = info[f]
    BY <1>2, <2>5, <2>6 DEF InfoType
  <2>8. Tables'
    <3>1. Got(5)' = Size(5) - remain' /\ Got(2)' = Got(2)
      BY <1>1, <1>2, <2>1, SameDisk DEF Got, Passed, Reading, Over
    <3>2. 2 * Len(info'.words) = Got(5)'
      BY <1>2, <2>1, <2>4, <2>6, <2>7, <3>1
    <3>3. ModuleBytes * Len(info'.modules) = Got(2)'
      BY <1>1, <2>7, <3>1 DEF LoadInv, Tables
    <3>4. bundle' = bundle
      BY <2>1, SameDisk
    <3>5. \A n \in 1 .. Len(info'.words) : info'.words[n] = bundle'.words[n]
      BY <2>6, <2>7, <3>4
    <3>6. \A n \in 1 .. Len(info'.modules) : info'.modules[n] = bundle'.modules[n]
      BY <1>1, <2>7, <3>4 DEF LoadInv, Tables
    <3> QED
      BY <3>2, <3>3, <3>5, <3>6 DEF Tables
  <2>9. /\ remain' \in 0 .. Size(entry) /\ pos' \in 0 .. disk.present
        /\ pos' = Least(Offset(entry) + (Size(entry) - remain'), disk.present)
    BY <2>1, <2>4 DEF Advance
  <2> QED
    BY <1>1, <2>1, <2>7, <2>8, <2>9, StepInside
<1> QED
  BY <1>3, <1>4

\* The end of a section: that of the exports places the initializers.
LEMMA EndStep ==
  ASSUME LoadInv, EndSection
  PROVE  LoadInv'
<1>1. /\ stage = "section" /\ remain = 0
      /\ disk' = disk /\ board' = board /\ pos' = pos /\ remain' = remain
      /\ entry' = entry + 1 /\ stage' = "gap" /\ file_pos' = file_pos + section.length
      /\ info' = IF section.kind = "exports"
                   THEN [info EXCEPT !.initializers_at = info.exports_at + info.exports * ExportBytes]
                   ELSE info
  BY DEF EndSection, NextSection
<1>2. /\ disk \in Disks /\ entry \in 1 .. Count /\ Count \in {7, 8} /\ entry \in 1 .. 8
      /\ file_pos = Offset(entry) /\ Size(entry) \in Nat /\ section.length = Size(entry)
      /\ section.kind = Kinds[entry] /\ Underway /\ Got(entry) = Size(entry) - remain
      /\ NextByte = Offset(entry) + Got(entry)
  BY <1>1, Inside
<1>3. Got(entry) = Size(entry) /\ file_pos' = Offset(entry) + Size(entry)
  BY <1>1, <1>2
<1>4. \A i \in 1 .. 8 : /\ Begun(i) <=> i < entry + 1
                        /\ Passed(i) <=> i < entry
                        /\ Begun(i)' <=> i < entry + 1
                        /\ Passed(i)' <=> i < entry + 1
  BY <1>1, <1>2 DEF Begun, Passed, Reading, Over
<1>5. Offset(entry) >= Earliest(entry)
  BY <1>2, <1>4 DEF LoadInv, Ordered
<1>6. pos = Least(Offset(entry) + Size(entry), disk.present) \/ Dead
  BY <1>2, <1>3 DEF LoadInv, Aligned
<1>7. /\ info' \in InfoType /\ info'.modules = info.modules /\ info'.words = info.words
      /\ Known'
  <2>1. CASE entry = 3
    <3>1. info.exports_at = ExportsSpot /\ info.exports = Size(3) \div ExportBytes
      BY <1>1, <1>4, <2>1 DEF LoadInv, Known
    <3>2. (Size(3) \div ExportBytes) * ExportBytes = Size(3)
      <4>1. Size(3) \in Nat /\ Size(3) % ExportBytes = 0 /\ ExportBytes \in Nat \ {0}
        BY <1>2, <2>1, Form, PackAssumption
      <4> QED
        BY <4>1, Whole, OneMore
    <3>3. info' = [info EXCEPT !.initializers_at = InitializersSpot] /\ InitializersSpot \in Nat
      BY <1>1, <1>2, <2>1, <3>1, <3>2, KindIs, Spots
    <3>4. info \in InfoType /\ info' \in InfoType
      BY <3>3 DEF LoadInv, Types, InfoType
    <3>5. Known'
      <4>1. /\ info.exports_at = ExportsSpot /\ info.exports = Size(3) \div ExportBytes
            /\ info.initializers = 0 /\ info.ram = 0 /\ info.code = 0
            /\ info.rodata = 0 /\ info.rodata_at = 0
        BY <1>1, <1>4, <2>1 DEF LoadInv, Known
      <4>2. /\ info'.exports_at = ExportsSpot /\ info'.exports = Size(3) \div ExportBytes
            /\ info'.initializers_at = InitializersSpot
            /\ info'.initializers = 0 /\ info'.ram = 0 /\ info'.code = 0
            /\ info'.rodata = 0 /\ info'.rodata_at = 0
        BY <3>3, <3>4, <4>1 DEF InfoType
      <4> QED
        BY <1>1, <1>4, <2>1, <4>2, SameDisk DEF Known
    <3> QED
      BY <3>3, <3>4, <3>5 DEF InfoType
  <2>2. CASE entry # 3
    <3>1. info' = info
      BY <1>1, <1>2, <2>2 DEF Kinds
    <3>2. Early' <=> Early
      BY <1>1 DEF Early
    <3>3. \A i \in {3, 4, 6, 7, 8} : Begun(i)' <=> Begun(i)
      BY <1>4
    <3>4. Passed(3)' <=> Passed(3)
      BY <1>2, <1>4, <2>2
    <3>5. Known'
      BY <1>1, <3>1, <3>2, <3>3, <3>4, KnownKept DEF LoadInv
    <3> QED
      BY <3>1, <3>5 DEF LoadInv, Types
  <2> QED
    BY <2>1, <2>2
<1> QED
  BY <1>1, <1>2, <1>3, <1>5, <1>6, <1>7, ToNext

-----------------------------------------------------------------------------
(* After the sections.                                                      *)

\* Nothing that the loader invariant speaks of changes once all is loaded.
LEMMA OverStep ==
  ASSUME LoadInv, Over \/ (stage = "gap" /\ entry = Count + 1), Over',
         disk' = disk, board' = board, pos' = pos, entry' = entry, file_pos' = file_pos,
         remain' = remain, info' = info
  PROVE  LoadInv'
<1>1. disk \in Disks /\ Count \in {7, 8} /\ entry = Count + 1
  BY Form DEF LoadInv, Types, Control
<1>2. stage # "failed" /\ stage' # "failed" /\ stage' \in {"loaded", "ready", "refused"}
  BY DEF Over
<1>3. \A i \in 1 .. Count : /\ Begun(i) /\ Passed(i) /\ Begun(i)' /\ Passed(i)'
                            /\ Got(i) = Size(i) /\ Got(i)' = Size(i)
  BY <1>1, SameDisk DEF Begun, Passed, Over, Got
<1>4. Types'
  BY <1>1, <1>2, SameDisk DEF LoadInv, Types
<1>5. Aligned'
  BY <1>2 DEF Aligned, Underway
<1>6. Control'
  BY <1>1, <1>2, SameDisk DEF Control, Over
<1>7. Ordered'
  BY <1>1, <1>2, <1>3, SameDisk DEF LoadInv, Ordered, Over
<1>8. Known'
  <2>1. ~ Early /\ ~ Early'
    BY <1>2 DEF Early, Over
  <2>2. \A i \in {3, 4, 6, 7, 8} : (Begun(i)' <=> Begun(i)) \/ Size(i) = 0
    <3>1. \A i \in {3, 4, 6, 7, 8} : i \in 1 .. Count \/ Size(i) = 0
      BY <1>1, Form
    <3> QED
      BY <1>3, <3>1
  <2>3. Passed(3)' <=> Passed(3)
    BY <1>1, <1>3
  <2> QED
    BY <1>2, <2>1, <2>2, <2>3, KnownKept DEF LoadInv
<1>9. Tables'
  <2>1. Got(2)' = Got(2) /\ Got(5)' = Got(5)
    BY <1>1, <1>3
  <2> QED
    BY <1>2, <2>1, TablesKept DEF LoadInv
<1>10. NoFailure'
  BY <1>2 DEF NoFailure
<1> QED
  BY <1>4, <1>5, <1>6, <1>7, <1>8, <1>9, <1>10 DEF LoadInv

\* The start of the machine keeps to what is loaded.
LEMMA VmInitStep ==
  ASSUME LoadInv, VmInit
  PROVE  LoadInv'
<1>1. Over /\ Over'
  BY DEF VmInit, Over
<1>2. /\ disk' = disk /\ board' = board /\ pos' = pos /\ entry' = entry
      /\ file_pos' = file_pos /\ remain' = remain /\ info' = info
  BY DEF VmInit
<1> QED
  BY <1>1, <1>2, OverStep

\* A running machine keeps to it too.
LEMMA RunStep ==
  ASSUME LoadInv, Run
  PROVE  LoadInv'
<1>1. /\ stage = "ready" /\ disk' = disk /\ board' = board /\ pos' = pos /\ stage' = stage
      /\ entry' = entry /\ file_pos' = file_pos /\ remain' = remain /\ info' = info
  BY DEF Run, CodeByte, DropCode, ReadExport, ReadInitializer, ReadGlobal, WriteGlobal,
         SpillLocals, StoreSnapshot, Store, loadVars
<1>2. Over /\ Over'
  BY <1>1 DEF Over
<1> QED
  BY <1>1, <1>2, OverStep

\* The start: nothing is read and nothing known.
LEMMA LoadStarts ==
  ASSUME Init
  PROVE  LoadInv
<1>1. /\ disk \in Disks /\ board \in Board /\ pos = 0 /\ stage = "header" /\ entry = 0
      /\ file_pos = 0 /\ remain = 0 /\ info = NoInfo
  BY DEF Init, LoadInit
<1>2. Count \in {7, 8} /\ disk.present \in Nat
  BY <1>1, Form
<1>3. \A i \in 1 .. 8 : ~ Begun(i) /\ ~ Passed(i) /\ Got(i) = 0
  BY <1>1, NotBegun
<1>4. Types
  <2>1. <<>> \in Seq([start : Nat]) /\ <<>> \in Seq(Nat)
    BY EmptySeq
  <2>2. info \in InfoType
    BY <1>1, <2>1 DEF NoInfo, InfoType
  <2> QED
    BY <1>1, <1>2, <2>2 DEF Types
<1>5. Aligned
  <2>1. NextByte = 0
    BY <1>1 DEF NextByte
  <2> QED
    BY <1>1, <1>2, <2>1 DEF Aligned, Least
<1>6. Control
  BY <1>1 DEF Control, Over
<1>7. Ordered
  BY <1>1, <1>2, <1>3 DEF Ordered
<1>8. Known
  BY <1>1, <1>3 DEF Known, NoInfo
<1>9. Tables
  <2>1. Len(info.modules) = 0 /\ Len(info.words) = 0
    BY <1>1, EmptySeq DEF NoInfo
  <2>2. ModuleBytes * 0 = 0
    BY PackAssumption
  <2> QED
    BY <1>3, <2>1, <2>2 DEF Tables
<1>10. NoFailure
  BY <1>1 DEF NoFailure
<1> QED
  BY <1>4, <1>5, <1>6, <1>7, <1>8, <1>9, <1>10 DEF LoadInv

\* A step that changes none of the loader's variables keeps its invariant.
LEMMA SameState ==
  ASSUME LoadInv, UNCHANGED <<disk, board, pos, stage, entry, file_pos, remain, info>>
  PROVE  LoadInv'
<1>1. Types' /\ Aligned' /\ Control' /\ Ordered' /\ Known' /\ Tables' /\ NoFailure'
  <2>1. Types'
    BY SameDisk DEF LoadInv, Types
  <2>2. \A i : /\ Begun(i)' <=> Begun(i)
               /\ Passed(i)' <=> Passed(i)
               /\ Got(i)' = Got(i)
    BY SameDisk DEF Begun, Passed, Reading, Over, Got
  <2>3. Aligned'
    <3>1. NextByte' = NextByte /\ (Underway' <=> Underway) /\ (Dead' <=> Dead)
      BY <2>2, SameDisk DEF NextByte, Underway, Dead
    <3>2. (pos = Least(NextByte, disk.present))' <=> pos = Least(NextByte, disk.present)
      BY <3>1 DEF Least
    <3> QED
      BY <3>1, <3>2 DEF LoadInv, Aligned
  <2>4. Control'
    BY SameDisk DEF LoadInv, Control, Over
  <2>5. Ordered'
    <3>1. Earliest(entry)' = Earliest(entry)
      BY SameDisk DEF Earliest
    <3> QED
      BY <2>2, <3>1, SameDisk DEF LoadInv, Ordered
  <2>6. Known'
    BY <2>2, SameDisk DEF LoadInv, Known
  <2>7. Tables'
    BY <2>2, SameDisk DEF LoadInv, Tables
  <2>8. NoFailure'
    <3>1. Offset(entry)' = Offset(entry)
      BY SameDisk DEF Offset
    <3> QED
      BY <3>1, SameDisk DEF LoadInv, NoFailure, Sound
  <2> QED
    BY <2>1, <2>3, <2>4, <2>5, <2>6, <2>7, <2>8
<1> QED
  BY <1>1 DEF LoadInv

\* Every step of the loader and of the machine keeps the invariant.
LEMMA LoadSteps ==
  ASSUME LoadInv, [Next]_vars
  PROVE  LoadInv'
<1>1. CASE LoadNext
  <2>1. CASE ReadHeader \/ ReadEntry \/ SelfTest
    BY <2>1, HeaderStep, EntryStep, SelfTestStep
  <2>2. CASE OutOfOrder \/ SkipGap \/ BeginSection
    BY <2>2, OutOfOrderStep, SkipGapStep, BeginStep
  <2>3. CASE \/ ReadRecord("modules", ModuleBytes, "modules", bundle.modules)
             \/ ReadRecord("globals", 2, "words", bundle.words)
    BY <2>3, ModuleStep, WordStep
  <2>4. CASE StreamChunk \/ SkipSection \/ EndSection
    BY <2>4, StreamStep, SkipStep, EndStep
  <2>5. CASE EndOfSections
    <3>1. /\ stage = "gap" /\ entry = Count + 1 /\ stage' = "loaded" /\ disk' = disk
          /\ board' = board /\ pos' = pos /\ entry' = entry /\ file_pos' = file_pos
          /\ remain' = remain /\ info' = info
      BY <2>5 DEF EndOfSections
    <3>2. Over'
      BY <3>1 DEF Over
    <3> QED
      BY <3>1, <3>2, OverStep
  <2> QED
    BY <1>1, <2>1, <2>2, <2>3, <2>4, <2>5 DEF LoadNext
<1>2. CASE VmInit
  BY <1>2, VmInitStep
<1>3. CASE Run
  BY <1>3, RunStep
<1>4. CASE UNCHANGED vars
  <2>1. UNCHANGED <<disk, board, pos, stage, entry, file_pos, remain, info>>
    BY <1>4 DEF vars, loadVars
  <2> QED
    BY <2>1, SameState
<1> QED
  BY <1>1, <1>2, <1>3, <1>4 DEF Next, Load


\* The loader's invariant holds throughout.
LEMMA Loading == Spec => []LoadInv
<1>1. Init => LoadInv
  BY LoadStarts
<1>2. LoadInv /\ [Next]_vars => LoadInv'
  BY LoadSteps
<1> QED
  BY <1>1, <1>2, PTL DEF Spec

\* All sections have been read once the loader is through.
LEMMA AllRead ==
  ASSUME LoadInv, Over
  PROVE  /\ disk \in Disks /\ Count \in {7, 8}
         /\ \A i \in 1 .. Count : Begun(i) /\ Passed(i) /\ Got(i) = Size(i)
<1>1. disk \in Disks /\ Count \in {7, 8} /\ entry = Count + 1
  BY Form DEF LoadInv, Types, Control
<1>2. \A i : Passed(i)
  BY DEF Passed
<1> QED
  BY <1>1, <1>2 DEF Begun, Got

\* As many records as fill the same number of bytes.
LEMMA SameCount ==
  ASSUME NEW a \in Nat, NEW b \in Nat, NEW size \in Nat, size > 0, size * a = size * b
  PROVE  a = b
<1>1. a < b => size * a + size <= size * b
  BY MultiplesApart
<1>2. b < a => size * b + size <= size * a
  BY MultiplesApart
<1>3. size * a \in Nat
  BY OneMore
<1> DEFINE x == size * a
           y == size * b
<1>4. x \in Nat /\ x = y /\ (a < b => x + size <= y) /\ (b < a => y + size <= x)
  BY <1>1, <1>2, <1>3
<1> HIDE DEF x, y
<1> QED
  BY <1>4

\* TablesTrue: a bundle that loads, however short its file, has the tables of the
\* whole one, for every bundle and wherever the file is cut or the drive fails.
THEOREM TablesAreTrue == Spec => []TablesTrue
<1>1. ASSUME LoadInv, stage = "loaded"
      PROVE  info.modules = bundle.modules /\ info.words = bundle.words
  <2>1. /\ disk \in Disks /\ Count \in {7, 8}
        /\ \A i \in 1 .. Count : Begun(i) /\ Passed(i) /\ Got(i) = Size(i)
    BY <1>1, AllRead DEF Over
  <2>2. Got(2) = ModuleBytes * Len(bundle.modules) /\ Got(5) = 2 * Len(bundle.words)
    <3>1. 2 \in 1 .. Count /\ 5 \in 1 .. Count
      BY <2>1
    <3> QED
      BY <2>1, <3>1, Form
  <2>3. /\ ModuleBytes * Len(info.modules) = ModuleBytes * Len(bundle.modules)
        /\ 2 * Len(info.words) = 2 * Len(bundle.words)
        /\ \A n \in 1 .. Len(info.modules) : info.modules[n] = bundle.modules[n]
        /\ \A n \in 1 .. Len(info.words) : info.words[n] = bundle.words[n]
    BY <1>1, <2>2 DEF LoadInv, Tables
  <2>4. info.modules = bundle.modules
    <3> DEFINE S == [start : Nat]
    <3>1. info.modules \in Seq(S) /\ bundle.modules \in Seq(S)
      <4>1. info \in InfoType
        BY <1>1 DEF LoadInv, Types
      <4>2. info.modules \in Seq(S)
        BY <4>1 DEF InfoType
      <4>3. bundle.modules \in Seq(S)
        BY <2>1, Form
      <4> QED
        BY <4>2, <4>3
    <3>2. ModuleBytes \in Nat /\ ModuleBytes > 0
      BY PackAssumption
    <3>3. Len(info.modules) \in Nat /\ Len(bundle.modules) \in Nat
      BY <3>1, LenProperties
    <3>4. ModuleBytes * Len(info.modules) = ModuleBytes * Len(bundle.modules)
      BY <2>3
    <3>5. Len(info.modules) = Len(bundle.modules)
      BY <3>2, <3>3, <3>4, SameCount
    <3> HIDE DEF S
    <3>6. \A n \in 1 .. Len(info.modules) : info.modules[n] = bundle.modules[n]
      BY <2>3
    <3> QED
      BY <3>1, <3>5, <3>6, SeqEqual
  <2>5. info.words = bundle.words
    <3>1. info.words \in Seq(Nat) /\ bundle.words \in Seq(Nat)
      <4>1. info \in InfoType
        BY <1>1 DEF LoadInv, Types
      <4>2. info.words \in Seq(Nat)
        BY <4>1 DEF InfoType
      <4>3. bundle.words \in Seq(Nat)
        BY <2>1, Form
      <4> QED
        BY <4>2, <4>3
    <3>2. Len(info.words) \in Nat /\ Len(bundle.words) \in Nat
      BY <3>1, LenProperties
    <3>3. Len(info.words) = Len(bundle.words)
      BY <2>3, <3>2
    <3> QED
      BY <2>3, <3>1, <3>3, SeqEqual
  <2> QED
    BY <2>4, <2>5
<1>2. LoadInv => TablesTrue
  BY <1>1 DEF TablesTrue
<1> QED
  BY <1>2, Loading, PTL

\* What the first two parts of LoadsLikePosix promise: nothing that is sound
\* fails, and nothing loads from a complete file that the POSIX build rejects.
FormChecked ==
  /\ stage = "failed" /\ PosixLoads /\ WithinLimits /\ board # "none" => disk.bad < disk.present
  /\ stage = "loaded" /\ disk.present = bundle.length => PosixLoads

\* FormChecked follows from the invariant, for every bundle, file and drive.
LEMMA FormIsChecked ==
  ASSUME LoadInv
  PROVE  FormChecked
<1>1. disk \in Disks /\ disk.bad \in Nat /\ disk.present \in Nat /\ Count \in {7, 8}
  BY Form DEF LoadInv, Types
<1>2. ASSUME stage = "failed", PosixLoads, WithinLimits, board # "none"
      PROVE  disk.bad < disk.present
  BY <1>1, <1>2 DEF LoadInv, NoFailure, Sound
<1>3. ASSUME stage = "loaded", disk.present = bundle.length
      PROVE  PosixLoads
  <2>1. \A i \in 1 .. Count : Begun(i)
    BY <1>3, AllRead DEF Over
  <2>2. \A i \in 1 .. Count : /\ Offset(i) \in Nat /\ Size(i) \in Nat /\ Offset(i) >= Earliest(i)
                              /\ bundle.sections[i].offset = Offset(i)
                              /\ bundle.sections[i].length = Size(i)
    BY <1>1, <2>1, Form DEF LoadInv, Ordered
  <2>3. bundle.header = "good"
    BY <1>3 DEF LoadInv, Ordered
  <2>4. bundle.length = Offset(Count) + Size(Count)
    BY <1>1, Form
  <2>5. HeaderBytes + Count * EntryBytes \in Nat
    <3>1. HeaderBytes \in Nat /\ Count * EntryBytes \in Nat
      BY <1>1, Heads
    <3> QED
      BY <3>1
  <2> DEFINE first == HeaderBytes + Count * EntryBytes
  <2>6. Offset(1) >= first /\ first \in Nat
    BY <1>1, <2>2, <2>5 DEF Earliest
  <2> HIDE DEF first
  <2>7. \A i \in 1 .. Count - 1 : Offset(i + 1) >= Offset(i) + Size(i)
    <3>1. ASSUME NEW i \in 1 .. Count - 1 PROVE Offset(i + 1) >= Offset(i) + Size(i)
      <4>1. i \in 1 .. Count /\ i + 1 \in 1 .. Count
        BY <1>1
      <4> QED
        BY <1>1, <2>2, <4>1, EarliestNext
    <3> QED
      BY <3>1
  <2>8. \A i \in 1 .. 7 : Offset(i) \in Nat /\ Size(i) \in Nat
    BY <1>1, <2>2
  <2>9. /\ Offset(2) >= Offset(1) + Size(1) /\ Offset(3) >= Offset(2) + Size(2)
        /\ Offset(4) >= Offset(3) + Size(3) /\ Offset(5) >= Offset(4) + Size(4)
        /\ Offset(6) >= Offset(5) + Size(5) /\ Offset(7) >= Offset(6) + Size(6)
        /\ Count = 8 => Offset(8) >= Offset(7) + Size(7) /\ Offset(8) \in Nat /\ Size(8) \in Nat
    <3>1. /\ 1 + 1 = 2 /\ 2 + 1 = 3 /\ 3 + 1 = 4 /\ 4 + 1 = 5 /\ 5 + 1 = 6 /\ 6 + 1 = 7 /\ 7 + 1 = 8
          /\ \A i \in 1 .. 6 : i \in 1 .. Count - 1
          /\ Count = 8 => 7 \in 1 .. Count - 1 /\ 8 \in 1 .. Count
      BY <1>1
    <3> QED
      BY <2>2, <2>7, <3>1
  <2>10. first <= disk.present /\ \A i \in 1 .. Count : Offset(i) + Size(i) <= disk.present
    BY <1>1, <1>3, <2>4, <2>6, <2>8, <2>9
  <2>11. ASSUME NEW i \in 1 .. Count
         PROVE  bundle.sections[i].offset >=
                  IF i = 1 THEN HeaderBytes + Count * EntryBytes
                  ELSE bundle.sections[i - 1].offset + bundle.sections[i - 1].length
    <3>1. i # 1 => i - 1 \in 1 .. Count
      BY <1>1
    <3> QED
      BY <2>2, <3>1 DEF Earliest
  <2> QED
    BY <2>2, <2>3, <2>10, <2>11 DEF PosixLoads, first
<1> QED
  BY <1>2, <1>3 DEF FormChecked


-----------------------------------------------------------------------------
(* The layout of the global variables.                                      *)

\* Among natural numbers there is always a least.
LEMMA LeastNat ==
  ASSUME NEW T \in SUBSET Nat, T # {}
  PROVE  \E x \in T : \A y \in T : x <= y
<1>1. PICK x \in T : \A y \in T : ~ (<<y, x>> \in OpToRel(<, Nat))
  BY NatLessThanWellFounded, WFMin
<1>2. \A y \in T : ~ (y < x)
  BY <1>1 DEF OpToRel
<1> QED
  BY <1>2

\* Sums of the first so many of a list of numbers exist.
LEMMA SumsExist ==
  ASSUME NEW N \in Nat, NEW g
  PROVE  \E f : f = [m \in 1 .. N + 1 |-> IF m = 1 THEN 0 ELSE f[m - 1] + g[m - 1]]
<1> DEFINE SumsTo(n) == \E f : f = [m \in 1 .. n + 1 |-> IF m = 1 THEN 0 ELSE f[m - 1] + g[m - 1]]
           Wrong == {n \in 0 .. N : ~ SumsTo(n)}
<1>1. SumsTo(0)
  <2> DEFINE f == [m \in 1 .. 0 + 1 |-> 0]
  <2>1. f = [m \in 1 .. 0 + 1 |-> IF m = 1 THEN 0 ELSE f[m - 1] + g[m - 1]]
    OBVIOUS
  <2> QED
    BY <2>1
<1>2. ASSUME NEW n \in Nat, SumsTo(n) PROVE SumsTo(n + 1)
  <2>1. PICK f : f = [m \in 1 .. n + 1 |-> IF m = 1 THEN 0 ELSE f[m - 1] + g[m - 1]]
    BY <1>2
  <2> DEFINE h == [m \in 1 .. (n + 1) + 1 |-> IF m = n + 2 THEN f[n + 1] + g[n + 1] ELSE f[m]]
  <2>2. ASSUME NEW m \in 1 .. (n + 1) + 1
        PROVE  h[m] = IF m = 1 THEN 0 ELSE h[m - 1] + g[m - 1]
    <3>1. CASE m = n + 2
      <4>1. m # 1 /\ m - 1 = n + 1 /\ n + 1 \in 1 .. (n + 1) + 1 /\ n + 1 # n + 2
        BY <3>1
      <4>2. h[n + 1] = f[n + 1]
        BY <4>1
      <4> QED
        BY <3>1, <4>1, <4>2
    <3>2. CASE m = 1
      <4>1. 1 \in 1 .. n + 1 /\ 1 # n + 2
        OBVIOUS
      <4>2. f[1] = 0
        BY <2>1, <4>1
      <4> QED
        BY <3>2, <4>1, <4>2
    <3>3. CASE m # n + 2 /\ m # 1
      <4>1. m \in 1 .. n + 1 /\ m - 1 \in 1 .. (n + 1) + 1 /\ m - 1 # n + 2
        BY <3>3
      <4>2. h[m] = f[m] /\ h[m - 1] = f[m - 1]
        BY <3>3, <4>1
      <4>3. f[m] = f[m - 1] + g[m - 1]
        BY <2>1, <3>3, <4>1
      <4> QED
        BY <3>3, <4>2, <4>3
    <3> QED
      BY <3>1, <3>2, <3>3
  <2>3. h = [m \in 1 .. (n + 1) + 1 |-> IF m = 1 THEN 0 ELSE h[m - 1] + g[m - 1]]
    BY <2>2
  <2> QED
    BY <2>3
<1> HIDE DEF SumsTo
<1>3. ASSUME Wrong # {} PROVE FALSE
  <2>0. Wrong \in SUBSET Nat
    OBVIOUS
  <2>1. PICK n \in Wrong : \A j \in Wrong : n <= j
    BY <1>3, <2>0, LeastNat
  <2>2. n # 0 /\ n \in 0 .. N
    BY <1>1, <2>1
  <2>3. n - 1 \in Nat /\ n - 1 \in 0 .. N /\ ~ (n <= n - 1) /\ (n - 1) + 1 = n
    BY <2>2
  <2>4. SumsTo(n - 1)
    BY <2>1, <2>3
  <2> QED
    BY <1>2, <2>1, <2>3, <2>4
<1>4. SumsTo(N)
  BY <1>3
<1> QED
  BY <1>4 DEF SumsTo

\* Before adds up the globals of the modules.
LEMMA BeforeAdds ==
  ASSUME MaxModules \in Nat
  PROVE  \A m \in 1 .. MaxModules + 1 :
           Before[m] = IF m = 1 THEN 0 ELSE Before[m - 1] + GlobalCount(m - 1)
<1> DEFINE g == [m \in 0 .. MaxModules |-> GlobalCount(m)]
           step(f) == [m \in 1 .. MaxModules + 1 |-> IF m = 1 THEN 0 ELSE f[m - 1] + GlobalCount(m - 1)]
<1>1. PICK f : f = [m \in 1 .. MaxModules + 1 |-> IF m = 1 THEN 0 ELSE f[m - 1] + g[m - 1]]
  BY SumsExist
<1>2. f = step(f)
  <2>1. \A m \in 1 .. MaxModules + 1 : m # 1 => g[m - 1] = GlobalCount(m - 1)
    OBVIOUS
  <2> HIDE DEF g
  <2> QED
    BY <1>1, <2>1
<1>3. Before = CHOOSE h : h = step(h)
  BY DEF Before
<1> HIDE DEF step
<1>4. Before = step(Before)
  BY <1>2, <1>3
<1> QED
  BY <1>4 DEF step

\* With a layout in order the globals of the modules follow one another.
LEMMA BeforeGrows ==
  ASSUME info \in InfoType, LayoutOk
  PROVE  /\ ModuleCount \in Nat /\ ProgramGlobals \in Nat
         /\ \A m \in 1 .. ModuleCount : GlobalCount(m) \in Nat /\ GlobalCount(m) <= MaxModuleGlobals
         /\ \A m \in 1 .. ModuleCount + 1 : Before[m] \in Nat
         /\ \A m \in 1 .. ModuleCount : Before[m + 1] = Before[m] + GlobalCount(m)
         /\ \A k \in 1 .. ModuleCount + 1 : \A m \in 1 .. ModuleCount :
              m < k => Before[m] + GlobalCount(m) <= Before[k]
<1>1. info.words \in Seq(Nat) /\ Len(info.words) \in Nat
  BY LenProperties DEF InfoType
<1>2. MaxModules \in Nat
  BY BundleAssumption
<1>3. \A i \in 1 .. Len(info.words) : info.words[i] \in Nat
  BY <1>1, ElementOfSeq
<1>4. ModuleCount \in Nat /\ ProgramGlobals \in Nat /\ ModuleCount <= MaxModules
      /\ Len(info.words) >= 2 + ModuleCount
  BY <1>1, <1>3 DEF ModuleCount, ProgramGlobals, LayoutOk
<1>5. ASSUME NEW m \in 1 .. ModuleCount
      PROVE  GlobalCount(m) \in Nat /\ GlobalCount(m) <= MaxModuleGlobals
  <2>1. 2 + m \in 1 .. Len(info.words)
    BY <1>1, <1>4
  <2> QED
    BY <1>3, <2>1 DEF GlobalCount, LayoutOk
<1>6. /\ Before[1] = 0
      /\ \A m \in 1 .. ModuleCount : Before[m + 1] = Before[m] + GlobalCount(m)
  <2>1. 1 \in 1 .. MaxModules + 1
    BY <1>2
  <2>2. ASSUME NEW m \in 1 .. ModuleCount
        PROVE  Before[m + 1] = Before[m] + GlobalCount(m)
    <3>1. m + 1 \in 1 .. MaxModules + 1 /\ m + 1 # 1 /\ (m + 1) - 1 = m
      BY <1>2, <1>4
    <3> QED
      BY <1>2, <3>1, BeforeAdds
  <2> QED
    BY <1>2, <2>1, <2>2, BeforeAdds
<1>7. ASSUME NEW k \in 1 .. ModuleCount + 1
      PROVE  /\ Before[k] \in Nat
             /\ \A m \in 1 .. ModuleCount : m < k => Before[m] + GlobalCount(m) <= Before[k]
  <2> DEFINE Right(j) == /\ \A m \in 1 .. j : Before[m] \in Nat
                         /\ \A m \in 1 .. ModuleCount : m < j => Before[m] + GlobalCount(m) <= Before[j]
             Wrong == {j \in 1 .. ModuleCount + 1 : ~ Right(j)}
  <2>1. Right(1)
    BY <1>6
  <2>2. ASSUME NEW j \in 1 .. ModuleCount, Right(j) PROVE Right(j + 1)
    <3>1. Before[j + 1] = Before[j] + GlobalCount(j) /\ GlobalCount(j) \in Nat /\ Before[j] \in Nat
      BY <1>5, <1>6, <2>2
    <3>2. ASSUME NEW m \in 1 .. ModuleCount, m < j + 1
          PROVE  Before[m] + GlobalCount(m) <= Before[j + 1]
      <4>1. CASE m = j
        BY <3>1, <4>1
      <4>2. CASE m # j
        <5>1. m < j
          BY <1>4, <3>2, <4>2
        <5>2. Before[m] + GlobalCount(m) <= Before[j]
          BY <2>2, <5>1
        <5> DEFINE s == Before[m] + GlobalCount(m)
        <5>3. s <= Before[j]
          BY <5>2
        <5>4. s \in Int
          <6>1. m \in 1 .. j /\ GlobalCount(m) \in Nat
            BY <1>4, <1>5, <5>1
          <6> QED
            BY <2>2, <6>1
        <5> HIDE DEF s
        <5>5. s <= Before[j + 1]
          BY <3>1, <5>3, <5>4
        <5> QED
          BY <5>5 DEF s
      <4> QED
        BY <4>1, <4>2
    <3>3. \A m \in 1 .. j + 1 : Before[m] \in Nat
      <4>1. \A m \in 1 .. j + 1 : m = j + 1 \/ m \in 1 .. j
        BY <1>4
      <4> QED
        BY <2>2, <3>1, <4>1
    <3> QED
      BY <3>2, <3>3
  <2> HIDE DEF Right
  <2>3. ASSUME Wrong # {} PROVE FALSE
    <3>1. Wrong \in SUBSET Nat
      BY <1>4
    <3>2. PICK j \in Wrong : \A i \in Wrong : j <= i
      BY <2>3, <3>1, LeastNat
    <3>3. j # 1 /\ j \in 1 .. ModuleCount + 1
      BY <2>1, <3>2
    <3>4. j - 1 \in 1 .. ModuleCount /\ j - 1 \in 1 .. ModuleCount + 1 /\ ~ (j <= j - 1)
          /\ (j - 1) + 1 = j
      BY <1>4, <3>3
    <3>5. Right(j - 1)
      BY <3>2, <3>4
    <3>6. Right(j)
      BY <2>2, <3>4, <3>5
    <3> QED
      BY <3>2, <3>6
  <2>4. Right(k)
    BY <2>3
  <2> QED
    BY <2>4 DEF Right
<1> QED
  BY <1>4, <1>5, <1>6, <1>7


-----------------------------------------------------------------------------
(* The areas of the REU.                                                    *)

\* A machine that runs has passed every check, and works with the layout that
\* lp128_vm_init worked out.
Laid == stage = "ready" => LayoutOk /\ layout = NewLayout

\* What is worked out of the bundle record stays with it.
LEMMA SameInfo ==
  ASSUME info' = info
  PROVE  /\ Before' = Before /\ ModuleCount' = ModuleCount /\ ProgramGlobals' = ProgramGlobals
         /\ \A m : GlobalCount(m)' = GlobalCount(m)
         /\ (LayoutOk' <=> LayoutOk) /\ NewLayout' = NewLayout /\ Domain' = Domain
         /\ TablesEnd' = TablesEnd
<1>1. /\ ModuleCount' = ModuleCount /\ ProgramGlobals' = ProgramGlobals
      /\ \A m : GlobalCount(m)' = GlobalCount(m)
  BY DEF ModuleCount, ProgramGlobals, GlobalCount
<1>2. Before' = Before
  BY <1>1 DEF Before, GlobalCount
<1>3. TablesEnd' = TablesEnd
  BY DEF TablesEnd
<1>4. LayoutOk' <=> LayoutOk
  BY <1>1, <1>2 DEF LayoutOk
<1>5. NewLayout' = NewLayout
  BY <1>1, <1>2, <1>3 DEF NewLayout
<1>6. Domain' = Domain
  BY <1>1 DEF Domain
<1> QED
  BY <1>1, <1>2, <1>3, <1>4, <1>5, <1>6

\* The layout does not change while the machine runs.
LEMMA LaidStays ==
  ASSUME Laid, LoadInv, [Next]_vars
  PROVE  Laid'
<1>1. CASE LoadNext
  <2>1. stage' # "ready"
    BY <1>1 DEF LoadInv, LoadNext, ReadHeader, ReadEntry, SelfTest, OutOfOrder, SkipGap, BeginSection,
         NextSection, ReadRecord, StreamChunk, SkipSection, EndSection, EndOfSections, Fail
  <2> QED
    BY <2>1 DEF Laid
<1>2. CASE VmInit
  <2>1. stage' = "ready" => LayoutOk /\ layout' = NewLayout
    BY <1>2 DEF VmInit
  <2>2. info' = info
    BY <1>2 DEF VmInit
  <2> QED
    BY <2>1, <2>2, SameInfo DEF Laid
<1>3. CASE Run \/ UNCHANGED vars
  <2>1. stage' = stage /\ info' = info /\ layout' = layout
    BY <1>3 DEF Run, CodeByte, DropCode, ReadExport, ReadInitializer, ReadGlobal, WriteGlobal,
         SpillLocals, StoreSnapshot, Store, vars, loadVars, runVars
  <2> QED
    BY <2>1, SameInfo DEF Laid
<1> QED
  BY <1>1, <1>2, <1>3 DEF Next, Load

\* The layout is laid at every moment.
LEMMA AlwaysLaid == Spec => []Laid
<1>1. Init => Laid
  BY DEF Init, LoadInit, Laid
<1>2. Laid /\ LoadInv /\ [Next]_vars => Laid'
  BY LaidStays
<1> QED
  BY <1>1, <1>2, Loading, PTL DEF Spec

\* The areas that lp128_vm_init shares out, each one where the one before it has ended.
LEMMA AreasInOrder ==
  ASSUME LoadInv, Over, LayoutOk
  PROVE  /\ info.exports_at = ExportsSpot /\ info.exports * ExportBytes = Size(3)
         /\ info.initializers_at = InitializersSpot
         /\ info.initializers * InitializerBytes = Size(4)
         /\ info.ram = Size(6) /\ info.code = Size(7) /\ info.rodata = Size(8)
         /\ info.rodata_at = IF Size(8) > 0 THEN RoDataSpot ELSE 0
         /\ \A i \in {3, 4, 6, 7, 8} : Size(i) \in Nat
         /\ Size(6) <= HeapBytes
         /\ HeapBytes \in Nat /\ ExportsSpot \in Nat /\ InitializersSpot \in Nat /\ RoDataSpot \in Nat
         /\ HeapBytes + Size(7) <= ExportsSpot /\ ExportsSpot + Size(3) <= InitializersSpot
         /\ InitializersSpot + Size(4) <= RoDataSpot
         /\ NewLayout.globals \in Nat /\ NewLayout.spill \in Nat /\ NewLayout.slots \in Nat
         /\ InitializersSpot + Size(4) <= NewLayout.globals
         /\ Size(8) > 0 => RoDataSpot + Size(8) <= NewLayout.globals
         /\ Before[ModuleCount + 1] \in Nat
         /\ NewLayout.globals + 2 * Before[ModuleCount + 1] <= NewLayout.spill
         /\ CallCap * LocalBytes \in Nat /\ SlotCap * SlotBytes \in Nat
         /\ NewLayout.spill + CallCap * LocalBytes <= NewLayout.slots
<1>1. /\ disk \in Disks /\ Count \in {7, 8}
      /\ \A i \in 1 .. Count : Begun(i) /\ Passed(i) /\ Got(i) = Size(i)
  BY AllRead
<1>2. info \in InfoType /\ LayoutOk /\ ReuAlign \in Nat \ {0}
  BY BundleAssumption DEF LoadInv, Types
<1>3. /\ \A i \in {3, 4, 6, 7} : i \in 1 .. Count
      /\ \A i \in {3, 4, 6, 7} : Size(i) \in Nat
      /\ Size(8) \in Nat /\ (Begun(8) \/ Size(8) = 0)
  <2>1. \A i \in {3, 4, 6, 7} : i \in 1 .. Count
    BY <1>1
  <2>2. Count = 8 => 8 \in 1 .. Count
    BY <1>1
  <2>3. \A i \in 1 .. Count : Size(i) \in Nat
    BY <1>1, Form
  <2>4. Count = 7 => Size(8) = 0
    BY <1>1, Form
  <2>5. \A i \in {3, 4, 6, 7} : Size(i) \in Nat
    BY <2>1, <2>3
  <2>6. Size(8) \in Nat /\ (Begun(8) \/ Size(8) = 0)
    BY <1>1, <2>2, <2>3, <2>4
  <2> QED
    BY <2>1, <2>5, <2>6
<1>4. ExportBytes \in Nat \ {0} /\ InitializerBytes \in Nat \ {0}
  BY PackAssumption
<1>5. /\ info.exports_at = ExportsSpot /\ info.exports = Size(3) \div ExportBytes
      /\ info.initializers_at = InitializersSpot
      /\ info.initializers = Size(4) \div InitializerBytes
      /\ info.ram = Size(6) /\ info.code = Size(7) /\ info.rodata = Size(8)
      /\ info.rodata_at = IF Size(8) > 0 THEN RoDataSpot ELSE 0
  BY <1>1, <1>3 DEF LoadInv, Known, Over
<1>6. info.exports * ExportBytes = Size(3) /\ info.initializers * InitializerBytes = Size(4)
  <2>1. Size(3) % ExportBytes = 0 /\ Size(4) % InitializerBytes = 0
    BY <1>1, Form
  <2>2. (Size(3) \div ExportBytes) * ExportBytes = Size(3)
    BY <1>3, <1>4, <2>1, Whole, OneMore
  <2>3. (Size(4) \div InitializerBytes) * InitializerBytes = Size(4)
    BY <1>3, <1>4, <2>1, Whole, OneMore
  <2> QED
    BY <1>5, <2>2, <2>3
<1>7. /\ HeapBytes \in Nat /\ ExportsSpot \in Nat /\ InitializersSpot \in Nat /\ RoDataSpot \in Nat
      /\ HeapBytes + Size(7) <= ExportsSpot /\ InitializersSpot = ExportsSpot + Size(3)
      /\ InitializersSpot + Size(4) <= RoDataSpot /\ Size(6) <= HeapBytes
  BY <1>1, Spots, Form
<1>8. TablesEnd \in Nat /\ InitializersSpot + Size(4) <= TablesEnd
      /\ (Size(8) > 0 => TablesEnd = RoDataSpot + Size(8))
  BY <1>3, <1>5, <1>6, <1>7 DEF TablesEnd
<1>9. Before[ModuleCount + 1] \in Nat
  <2>1. ModuleCount + 1 \in 1 .. ModuleCount + 1
    BY <1>2, BeforeGrows
  <2> QED
    BY <1>2, <2>1, BeforeGrows
<1>10. CallCap * LocalBytes \in Nat /\ SlotCap * SlotBytes \in Nat
  BY BootAssumption
<1> DEFINE all == Before[ModuleCount + 1]
           spilled == CallCap * LocalBytes
           first == AlignUp(TablesEnd, ReuAlign)
           second == AlignUp(first + 2 * all, ReuAlign)
           third == AlignUp(second + spilled, ReuAlign)
<1>11. NewLayout.globals = first /\ NewLayout.spill = second /\ NewLayout.slots = third
  BY DEF NewLayout
<1>12. all \in Nat /\ spilled \in Nat
  BY <1>9, <1>10
<1> HIDE DEF all, spilled
<1>13. first \in Nat /\ TablesEnd <= first
  BY <1>2, <1>8, Aligning
<1> HIDE DEF first
<1>14. second \in Nat /\ first + 2 * all <= second
  <2>1. first + 2 * all \in Nat
    BY <1>12, <1>13
  <2> QED
    BY <1>2, <2>1, Aligning
<1> HIDE DEF second
<1>15. third \in Nat /\ second + spilled <= third
  <2>1. second + spilled \in Nat
    BY <1>12, <1>14
  <2> QED
    BY <1>2, <2>1, Aligning
<1> HIDE DEF third
<1>16. /\ InitializersSpot + Size(4) <= first
       /\ Size(8) > 0 => RoDataSpot + Size(8) <= first
  BY <1>3, <1>7, <1>8, <1>13
<1>17. /\ NewLayout.globals \in Nat /\ NewLayout.spill \in Nat /\ NewLayout.slots \in Nat
       /\ InitializersSpot + Size(4) <= NewLayout.globals
       /\ Size(8) > 0 => RoDataSpot + Size(8) <= NewLayout.globals
       /\ NewLayout.globals + 2 * all <= NewLayout.spill /\ NewLayout.spill + spilled <= NewLayout.slots
  BY <1>11, <1>13, <1>14, <1>15, <1>16
<1>18. \A i \in {3, 4, 6, 7, 8} : Size(i) \in Nat
  BY <1>3
<1>19. ExportsSpot + Size(3) <= InitializersSpot
  BY <1>7, <1>18
<1> QED
  BY <1>5, <1>6, <1>7, <1>9, <1>10, <1>17, <1>18, <1>19 DEF all, spilled

\* AreasApart: in every machine that starts, for every bundle, the heap, the code,
\* the tables, the globals, the locals and the snapshots do not touch one another.
THEOREM AreasAreApart == Spec => []AreasApart
<1>1. ASSUME LoadInv, Laid, stage = "ready",
             NEW i \in 2 .. Len(Ranges), NEW j \in 1 .. i - 1
      PROVE  \/ Ranges[i][2] = 0 \/ Ranges[j][2] = 0
             \/ Ranges[i][1] >= Ranges[j][1] + Ranges[j][2]
  <2>1. i \in 2 .. 8 /\ j \in 1 .. 7 /\ j < i
    BY <1>1 DEF Ranges
  <2> DEFINE all == Before[ModuleCount + 1]
             spilled == CallCap * LocalBytes
             kept == SlotCap * SlotBytes
             rodata_at == IF Size(8) > 0 THEN RoDataSpot ELSE 0
  <2>2. /\ \A k \in {3, 4, 6, 7, 8} : Size(k) \in Nat
        /\ HeapBytes \in Nat /\ ExportsSpot \in Nat /\ InitializersSpot \in Nat /\ RoDataSpot \in Nat
        /\ HeapBytes + Size(7) <= ExportsSpot /\ ExportsSpot + Size(3) <= InitializersSpot
        /\ InitializersSpot + Size(4) <= RoDataSpot
        /\ layout.globals \in Nat /\ layout.spill \in Nat /\ layout.slots \in Nat
        /\ InitializersSpot + Size(4) <= layout.globals
        /\ Size(8) > 0 => RoDataSpot + Size(8) <= layout.globals
        /\ all \in Nat /\ spilled \in Nat /\ kept \in Nat
        /\ layout.globals + 2 * all <= layout.spill
        /\ layout.spill + spilled <= layout.slots
    BY <1>1, AreasInOrder DEF Laid, Over
  <2>3. Ranges = << <<0, HeapBytes>>, <<HeapBytes, Size(7)>>, <<ExportsSpot, Size(3)>>,
                    <<InitializersSpot, Size(4)>>, <<rodata_at, Size(8)>>,
                    <<layout.globals, 2 * all>>, <<layout.spill, spilled>>,
                    <<layout.slots, kept>> >>
    <3>1. /\ info.exports_at = ExportsSpot /\ info.exports * ExportBytes = Size(3)
          /\ info.initializers_at = InitializersSpot
          /\ info.initializers * InitializerBytes = Size(4)
          /\ info.code = Size(7) /\ info.rodata = Size(8) /\ info.rodata_at = rodata_at
      BY <1>1, AreasInOrder DEF Laid, Over
    <3> QED
      BY <3>1 DEF Ranges
  <2>4. rodata_at \in Nat /\ (Size(8) > 0 => rodata_at = RoDataSpot)
    BY <2>2
  <2> HIDE DEF all, spilled, kept, rodata_at
  <2>5. CASE i \in {2, 3, 4}
    BY <2>1, <2>2, <2>3, <2>5
  <2>6. CASE i = 5
    BY <2>1, <2>2, <2>3, <2>4, <2>6
  <2>7. CASE i = 6
    BY <2>1, <2>2, <2>3, <2>4, <2>7
  <2>8. CASE i = 7
    BY <2>1, <2>2, <2>3, <2>4, <2>8
  <2>9. CASE i = 8
    BY <2>1, <2>2, <2>3, <2>4, <2>9
  <2> QED
    BY <2>1, <2>5, <2>6, <2>7, <2>8, <2>9
<1>2. LoadInv /\ Laid => AreasApart
  BY <1>1 DEF AreasApart
<1> QED
  BY <1>2, Loading, AlwaysLaid, PTL


-----------------------------------------------------------------------------
(* The REU while the bundle is loaded.                                      *)

\* Five sections go to the REU, none beyond its end and none over another.
LEMMA Room ==
  ASSUME Fits, disk \in Disks
  PROVE  /\ HeapBytes \in Nat /\ ReuBytes \in Nat /\ HeapBytes <= ReuBytes
         /\ \A i \in Streamed : /\ Spot(i) \in Nat /\ Size(i) \in Nat
                                /\ Spot(i) + Size(i) <= ReuBytes
         /\ Spot(6) = 0 /\ Size(6) <= HeapBytes
         /\ \A i \in Streamed \ {6} : Spot(i) >= HeapBytes
         /\ \A i \in Streamed : \A j \in Streamed :
              i # j => Spot(i) + Size(i) <= Spot(j) \/ Spot(j) + Size(j) <= Spot(i)
<1>1. /\ HeapBytes \in Nat /\ ReuBytes \in Nat /\ HeapBytes <= ReuBytes
      /\ ReuAlign \in Nat \ {0} /\ CallCap * LocalBytes \in Nat /\ SlotCap * SlotBytes \in Nat
  BY BundleAssumption, BootAssumption
<1>2. \A i \in 1 .. 8 : Size(i) \in Nat
  <2>1. Count \in {7, 8} /\ (Count = 7 => Size(8) = 0) /\ \A i \in 1 .. Count : Size(i) \in Nat
    BY Form
  <2>2. \A i \in 1 .. 8 : i \in 1 .. Count \/ (Count = 7 /\ i = 8)
    BY <2>1
  <2> QED
    BY <2>1, <2>2
<1>3. /\ ExportsSpot \in Nat /\ InitializersSpot \in Nat /\ RoDataSpot \in Nat
      /\ HeapBytes + Size(7) <= ExportsSpot /\ InitializersSpot = ExportsSpot + Size(3)
      /\ InitializersSpot + Size(4) <= RoDataSpot /\ Size(6) <= HeapBytes
  BY Spots, Form
<1>4. RoDataSpot + Size(8) <= ReuBytes
  <2> DEFINE globalsAt == AlignUp(RoDataSpot + Size(8), ReuAlign)
             spillAt == AlignUp(globalsAt + Size(5), ReuAlign)
             slotsAt == AlignUp(spillAt + CallCap * LocalBytes, ReuAlign)
  <2>1. slotsAt + SlotCap * SlotBytes <= ReuBytes
    BY DEF Fits, AreaEnd, Size, RoDataSpot, InitializersSpot, ExportsSpot, bundle
  <2>2. RoDataSpot + Size(8) \in Nat
    BY <1>2, <1>3
  <2>3. globalsAt \in Nat /\ RoDataSpot + Size(8) <= globalsAt
    BY <1>1, <2>2, Aligning
  <2> HIDE DEF globalsAt
  <2>4. spillAt \in Nat /\ globalsAt + Size(5) <= spillAt
    <3>1. globalsAt + Size(5) \in Nat
      BY <1>2, <2>3
    <3> QED
      BY <1>1, <3>1, Aligning
  <2> HIDE DEF spillAt
  <2> DEFINE spilled == CallCap * LocalBytes
             kept == SlotCap * SlotBytes
  <2>5. spilled \in Nat /\ kept \in Nat /\ slotsAt + kept <= ReuBytes
    BY <1>1, <2>1
  <2>6. slotsAt \in Nat /\ spillAt + spilled <= slotsAt
    <3>1. spillAt + spilled \in Nat
      BY <2>4, <2>5
    <3> QED
      BY <1>1, <3>1, Aligning
  <2> HIDE DEF slotsAt, spilled, kept
  <2> QED
    BY <1>1, <1>2, <2>2, <2>3, <2>4, <2>5, <2>6
<1>5. /\ Spot(3) = ExportsSpot /\ Spot(4) = InitializersSpot /\ Spot(6) = 0
      /\ Spot(7) = HeapBytes /\ Spot(8) = RoDataSpot
  BY DEF Spot
<1>6. \A i \in {3, 4, 6, 7, 8} : i \in 1 .. 8
  OBVIOUS
<1>7. \A i \in Streamed : Spot(i) \in Nat /\ Size(i) \in Nat /\ Spot(i) + Size(i) <= ReuBytes
  BY <1>1, <1>2, <1>3, <1>4, <1>5, <1>6 DEF Streamed
<1>8. \A i \in Streamed \ {6} : Spot(i) >= HeapBytes
  BY <1>1, <1>2, <1>3, <1>5, <1>6 DEF Streamed
<1>9. ASSUME NEW i \in Streamed, NEW j \in Streamed, i # j
      PROVE  Spot(i) + Size(i) <= Spot(j) \/ Spot(j) + Size(j) <= Spot(i)
  <2>1. Size(3) \in Nat /\ Size(4) \in Nat /\ Size(6) \in Nat /\ Size(7) \in Nat /\ Size(8) \in Nat
    BY <1>2
  <2>2. CASE i = 3
    BY <1>1, <1>3, <1>5, <1>9, <2>1, <2>2 DEF Streamed
  <2>3. CASE i = 4
    BY <1>1, <1>3, <1>5, <1>9, <2>1, <2>3 DEF Streamed
  <2>4. CASE i = 6
    BY <1>1, <1>3, <1>5, <1>9, <2>1, <2>4 DEF Streamed
  <2>5. CASE i = 7
    BY <1>1, <1>3, <1>5, <1>9, <2>1, <2>5 DEF Streamed
  <2>6. CASE i = 8
    BY <1>1, <1>3, <1>5, <1>9, <2>1, <2>6 DEF Streamed
  <2> QED
    BY <2>2, <2>3, <2>4, <2>5, <2>6 DEF Streamed
<1> QED
  BY <1>1, <1>3, <1>5, <1>7, <1>8, <1>9

\* The bytes of section i that have been read are at its place in the REU.
There(i) == \A k \in 0 .. Got(i) - 1 : reu[Spot(i) + k] = FileByte(Offset(i) + k)

Live == Underway \/ stage = "loaded"

\* While the loader runs the REU holds what has been read, the next byte goes
\* where it belongs, and the rest of the heap is as it was found.
MemInv ==
  /\ DOMAIN reu = 0 .. ReuBytes - 1
  /\ rpos \in 0 .. ReuBytes
  /\ stage = "section" /\ entry \in Streamed => rpos = Spot(entry) + Got(entry)
  /\ Live => /\ \A i \in Streamed : There(i)
             /\ \A a \in Got(6) .. HeapBytes - 1 : reu[a] \in {Dirty, Junk}

\* A step that leaves the REU and what has been read as it was.
LEMMA MemKept ==
  ASSUME MemInv, Live, disk' = disk, reu' = reu, \A i \in Streamed : Got(i)' = Got(i),
         rpos' \in 0 .. ReuBytes,
         stage' = "section" /\ entry' \in Streamed => rpos' = (Spot(entry) + Got(entry))'
  PROVE  MemInv'
<1>1. \A i : Spot(i)' = Spot(i)
  BY SameDisk DEF Spot
<1>2. \A i \in Streamed : There(i)'
  BY <1>1, SameDisk DEF MemInv, There
<1>3. 6 \in Streamed
  BY DEF Streamed
<1>4. \A a \in Got(6)' .. HeapBytes - 1 : reu'[a] \in {Dirty, Junk}
  BY <1>3 DEF MemInv
<1> QED
  BY <1>2, <1>4 DEF MemInv

\* A step that fails leaves the REU to itself.
LEMMA MemFails ==
  ASSUME MemInv, Fail
  PROVE  MemInv'
BY DEF MemInv, Fail, Live, Underway

\* The n bytes stand at place at of new, which otherwise is mem.
Stands(new, mem, at, n, bytes) ==
  /\ DOMAIN new = 0 .. ReuBytes - 1
  /\ \A a \in 0 .. ReuBytes - 1 : a < at \/ a >= at + n => new[a] = mem[a]
  /\ \A k \in 0 .. n - 1 : at + k \in 0 .. ReuBytes - 1 => new[at + k] = bytes[k + 1]

\* Some bytes written to the REU.
LEMMA Writing ==
  ASSUME NEW mem, DOMAIN mem = 0 .. ReuBytes - 1, NEW at \in Nat, NEW n \in Nat, NEW bytes,
         DOMAIN bytes = 1 .. n
  PROVE  Stands(Written(mem, at, bytes), mem, at, n, bytes)
<1>1. ReuBytes \in Nat
  BY BundleAssumption
<1>2. Written(mem, at, bytes)
        = [a \in 0 .. ReuBytes - 1 |-> IF a - at + 1 \in 1 .. n THEN bytes[a - at + 1] ELSE mem[a]]
  BY DEF Written
<1>3. \A a \in 0 .. ReuBytes - 1 :
        a < at \/ a >= at + n => Written(mem, at, bytes)[a] = mem[a]
  BY <1>1, <1>2
<1>4. ASSUME NEW k \in 0 .. n - 1, at + k \in 0 .. ReuBytes - 1
      PROVE  Written(mem, at, bytes)[at + k] = bytes[k + 1]
  <2>1. (at + k) - at + 1 = k + 1 /\ k + 1 \in 1 .. n
    BY <1>4
  <2> QED
    BY <1>2, <1>4, <2>1
<1> QED
  BY <1>2, <1>3, <1>4 DEF Stands

\* A word written to the REU leaves what is below it, and stands there.
LEMMA WordWritten ==
  ASSUME NEW mem, DOMAIN mem = 0 .. ReuBytes - 1, ReuBytes \in Nat, NEW at \in Nat,
         at + 2 <= ReuBytes, NEW x
  PROVE  /\ \A a \in 0 .. ReuBytes - 1 :
              a < at \/ a >= at + 2 => Written(mem, at, <<x, x>>)[a] = mem[a]
         /\ Written(mem, at, <<x, x>>)[at] = x /\ Written(mem, at, <<x, x>>)[at + 1] = x
<1> DEFINE bytes == <<x, x>>
           new == [a \in 0 .. ReuBytes - 1 |-> IF a - at + 1 \in 1 .. 2 THEN bytes[a - at + 1] ELSE mem[a]]
<1>1. DOMAIN bytes = 1 .. 2 /\ bytes[1] = x /\ bytes[2] = x
  OBVIOUS
<1> HIDE DEF bytes
<1>2. Written(mem, at, bytes) = new
  BY <1>1 DEF Written
<1>3. \A a \in 0 .. ReuBytes - 1 : a < at \/ a >= at + 2 => new[a] = mem[a]
  OBVIOUS
<1>4. at \in 0 .. ReuBytes - 1 /\ at - at + 1 = 1 /\ at + 1 \in 0 .. ReuBytes - 1 /\ (at + 1) - at + 1 = 2
  OBVIOUS
<1>5. new[at] = bytes[at - at + 1] /\ new[at + 1] = bytes[(at + 1) - at + 1]
  BY <1>4
<1>6. new[at] = x /\ new[at + 1] = x
  BY <1>1, <1>4, <1>5
<1> HIDE DEF new
<1>7. /\ \A a \in 0 .. ReuBytes - 1 :
            a < at \/ a >= at + 2 => Written(mem, at, bytes)[a] = mem[a]
      /\ Written(mem, at, bytes)[at] = x /\ Written(mem, at, bytes)[at + 1] = x
  BY <1>2, <1>3, <1>6
<1> QED
  BY <1>7 DEF bytes

\* The self-test leaves its bytes in the heap.
LEMMA SelfTestMem ==
  ASSUME LoadInv, MemInv, Fits, SelfTest
  PROVE  MemInv'
<1>1. CASE board = "none"
  BY <1>1, MemFails DEF SelfTest
<1>2. CASE board # "none"
  <2>1. /\ stage = "test" /\ reu' = Written(reu, ProbeAt, <<Junk, Junk>>) /\ stage' = "gap" /\ entry' = 1
        /\ disk' = disk /\ rpos' = rpos
    BY <1>2 DEF SelfTest
  <2>2. \A i \in 1 .. 8 : Got(i) = 0
    BY <2>1, NotBegun
  <2>3. \A i \in 1 .. 8 : Got(i)' = 0
    BY <2>1 DEF Passed, Reading, Over, Got
  <2>4. DOMAIN reu = 0 .. ReuBytes - 1 /\ Live
    BY <2>1 DEF MemInv, Live, Underway
  <2>5. /\ ProbeAt \in Nat /\ ProbeAt + 1 < HeapBytes /\ HeapBytes \in Nat /\ ReuBytes \in Nat
        /\ HeapBytes <= ReuBytes
    BY BundleAssumption
  <2> DEFINE bytes == <<Junk, Junk>>
  <2>6. DOMAIN bytes = 1 .. 2 /\ bytes[1] = Junk /\ bytes[2] = Junk
    OBVIOUS
  <2> HIDE DEF bytes
  <2>7. /\ DOMAIN reu' = 0 .. ReuBytes - 1
        /\ \A a \in 0 .. ReuBytes - 1 : a < ProbeAt \/ a >= ProbeAt + 2 => reu'[a] = reu[a]
        /\ \A k \in 0 .. 2 - 1 : ProbeAt + k \in 0 .. ReuBytes - 1 => reu'[ProbeAt + k] = bytes[k + 1]
    <3>1. reu' = Written(reu, ProbeAt, bytes)
      BY <2>1 DEF bytes
    <3> DEFINE two == 2
    <3>2. two \in Nat /\ DOMAIN bytes = 1 .. two
      BY <2>6
    <3> HIDE DEF two
    <3>3. /\ DOMAIN reu' = 0 .. ReuBytes - 1
          /\ \A a \in 0 .. ReuBytes - 1 : a < ProbeAt \/ a >= ProbeAt + two => reu'[a] = reu[a]
          /\ \A k \in 0 .. two - 1 : ProbeAt + k \in 0 .. ReuBytes - 1 => reu'[ProbeAt + k] = bytes[k + 1]
      <4> DEFINE mem == Written(reu, ProbeAt, bytes)
      <4>1. /\ DOMAIN mem = 0 .. ReuBytes - 1
            /\ \A a \in 0 .. ReuBytes - 1 : a < ProbeAt \/ a >= ProbeAt + two => mem[a] = reu[a]
            /\ \A k \in 0 .. two - 1 : ProbeAt + k \in 0 .. ReuBytes - 1 => mem[ProbeAt + k] = bytes[k + 1]
        <5>1. Stands(mem, reu, ProbeAt, two, bytes)
          BY <2>4, <2>5, <3>2, Writing
        <5> QED
          BY <5>1 DEF Stands
      <4>2. reu' = mem
        BY <3>1
      <4> HIDE DEF mem
      <4> QED
        BY <4>1, <4>2
    <3> QED
      BY <3>3 DEF two
  <2>8. ASSUME NEW a \in 0 .. HeapBytes - 1 PROVE reu'[a] \in {Dirty, Junk}
    <3>1. reu[a] \in {Dirty, Junk}
      BY <2>2, <2>4, <2>5 DEF MemInv
    <3>2. CASE a < ProbeAt \/ a >= ProbeAt + 2
      BY <2>5, <2>7, <3>1, <3>2
    <3>3. CASE a = ProbeAt \/ a = ProbeAt + 1
      <4>1. reu'[ProbeAt + 0] = bytes[0 + 1] /\ reu'[ProbeAt + 1] = bytes[1 + 1]
        BY <2>5, <2>7
      <4> QED
        BY <2>5, <2>6, <3>3, <4>1
    <3> QED
      BY <2>5, <3>2, <3>3
  <2>9. \A i \in Streamed : There(i)'
    BY <2>3 DEF There, Streamed
  <2> QED
    BY <2>1, <2>3, <2>7, <2>8, <2>9 DEF MemInv
<1> QED
  BY <1>1, <1>2

\* A section that begins has its place in the REU.
LEMMA BeginMem ==
  ASSUME LoadInv, MemInv, Fits, BeginSection
  PROVE  MemInv'
<1>1. disk \in Disks /\ stage = "gap" /\ entry \in 1 .. Count
  <2>1. Count \in {7, 8}
    BY Form DEF LoadInv, Types
  <2> QED
    BY <2>1 DEF LoadInv, Types, BeginSection, Control
<1>2. /\ section.length = Size(entry) /\ section.kind = Kinds[entry] /\ Size(entry) \in Nat
      /\ Count \in {7, 8} /\ entry \in 1 .. 8
  BY <1>1, AtSection
<1>3. Live
  BY <1>1 DEF Live, Underway
<1>4. CASE Size(entry) = 0
  <2>1. stage' = "gap" /\ entry' = entry + 1 /\ disk' = disk /\ rpos' = rpos /\ reu' = reu
    BY <1>2, <1>4 DEF BeginSection, NextSection
  <2>2. \A i \in 1 .. 8 : Got(i)' = Got(i)
    BY <1>1, <1>2, <1>4, <2>1, SameDisk DEF Passed, Reading, Over, Got
  <2> QED
    BY <1>3, <2>1, <2>2, MemKept DEF MemInv, Streamed
<1>5. CASE Size(entry) # 0 /\ TooMany
  <2>1. Fail
    BY <1>2, <1>5 DEF BeginSection
  <2> QED
    BY <2>1, MemFails
<1>6. CASE Size(entry) # 0 /\ ~ TooMany
  <2>1. /\ stage' = "section" /\ remain' = Size(entry) /\ rpos' = Place /\ entry' = entry
        /\ disk' = disk /\ reu' = reu
    BY <1>2, <1>6 DEF BeginSection
  <2>2. \A i \in 1 .. 8 : Got(i)' = Got(i)
    BY <1>1, <1>2, <2>1, SameDisk DEF Passed, Reading, Over, Got
  <2>3. entry \in Streamed => Place = Spot(entry)
    <3>1. info.exports_at = ExportsSpot
      BY <1>1 DEF LoadInv, Known
    <3>2. entry = 4 => info.initializers_at = InitializersSpot
      BY <1>1 DEF LoadInv, Known, Passed
    <3>3. entry = 8 => RoDataAt = RoDataSpot
      BY <1>1, RoDataPlace DEF LoadInv
    <3> QED
      BY <1>2, <3>1, <3>2, <3>3, KindIs DEF Place, Spot, Streamed
  <2>4. entry \notin Streamed => Place = 0
    BY <1>2, KindIs DEF Place, Streamed
  <2>5. Place \in 0 .. ReuBytes
    BY <1>1, <2>3, <2>4, Room
  <2>6. Got(entry) = 0 /\ Got(entry)' = 0
    <3>1. Got(entry) = 0
      BY <1>1, <1>2 DEF Passed, Reading, Over, Got
    <3>2. Got(entry)' = Size(entry) - remain'
      BY <1>1, <1>2, <2>1, SameDisk DEF Passed, Reading, Over, Got
    <3> QED
      BY <1>2, <2>1, <3>1, <3>2
  <2>7. entry' \in Streamed => rpos' = (Spot(entry) + Got(entry))'
    <3>1. Spot(entry)' = Spot(entry)
      BY <2>1, SameDisk DEF Spot
    <3>2. entry \in Streamed => Spot(entry) \in Nat
      BY <1>1, Room
    <3> QED
      BY <2>1, <2>3, <2>6, <3>1, <3>2
  <2> QED
    BY <1>3, <2>1, <2>2, <2>5, <2>7, MemKept DEF Streamed
<1> QED
  BY <1>4, <1>5, <1>6

\* A piece of a section goes to the REU behind what is there of the section.
LEMMA StreamMem ==
  ASSUME LoadInv, MemInv, Fits, StreamChunk
  PROVE  MemInv'
<1> DEFINE n == Least(Chunk, remain)
           r == Received(n)
<1>1. stage = "section" /\ remain > 0
  BY DEF StreamChunk
<1>2. /\ disk \in Disks /\ entry \in 1 .. Count /\ entry \in 1 .. 8 /\ Offset(entry) \in Nat
      /\ Size(entry) \in Nat /\ remain \in 0 .. Size(entry) /\ section.kind = Kinds[entry]
      /\ Underway /\ Got(entry) = Size(entry) - remain /\ NextByte = Offset(entry) + Got(entry)
      /\ NextByte \in Nat /\ Got(entry) \in 0 .. Size(entry)
  <2>1. entry \in 1 .. Count /\ disk \in Disks
    BY <1>1, Inside
  <2> QED
    BY <1>1, <2>1, Inside, Form
<1>3. n \in Nat \ {0} /\ n <= remain
  BY <1>1, <1>2, BundleAssumption DEF Least
<1>4. entry \in Streamed /\ Live
  BY <1>2, KindIs DEF StreamChunk, Streamed, Live
<1> HIDE DEF n
<1>5. CASE Lost(r)
  BY <1>5, MemFails DEF StreamChunk, n
<1>6. CASE ~ Lost(r)
  <2>1. /\ reu' = Written(reu, rpos, r.bytes) /\ rpos' = rpos + r.count /\ remain' = remain - r.count
        /\ disk' = disk /\ stage' = stage /\ entry' = entry
    BY <1>6 DEF StreamChunk, n
  <2>2. /\ r.count \in 1 .. n /\ DOMAIN r.bytes = 1 .. r.count
        /\ r.bytes = [k \in 1 .. r.count |-> FileByte(NextByte + k - 1)]
    <3>1. Types /\ Aligned /\ ~ r.error
      BY <1>6 DEF LoadInv, Lost
    <3> QED
      BY <1>2, <1>3, <3>1, Reads
  <2> DEFINE count == r.count
             bytes == r.bytes
             at == rpos
             got == Got(entry)
  <2>3. /\ at = Spot(entry) + got /\ Spot(entry) \in Nat /\ Spot(entry) + Size(entry) <= ReuBytes
        /\ ReuBytes \in Nat /\ HeapBytes \in Nat /\ DOMAIN reu = 0 .. ReuBytes - 1
    BY <1>1, <1>2, <1>4, Room DEF MemInv
  <2>4. count \in Nat /\ got \in Nat /\ got + count <= Size(entry) /\ at \in Nat
        /\ at + count <= ReuBytes
    <3>1. count \in Nat /\ count <= n
      BY <1>3, <2>2
    <3>2. got \in Nat /\ got = Size(entry) - remain
      BY <1>2
    <3> HIDE DEF count, got, at
    <3>3. got + count <= Size(entry)
      BY <1>2, <1>3, <3>1, <3>2
    <3>4. at \in Nat
      BY <2>3, <3>2
    <3>5. at + count <= ReuBytes
      <4>1. Size(entry) \in Nat
        BY <1>2
      <4> QED
        BY <2>3, <3>1, <3>2, <3>3, <4>1
    <3> QED
      BY <3>1, <3>2, <3>3, <3>4, <3>5
  <2>5. \A k \in 1 .. count : bytes[k] = FileByte(Offset(entry) + (got + k - 1))
    <3>1. ASSUME NEW k \in 1 .. count PROVE bytes[k] = FileByte(Offset(entry) + (got + k - 1))
      <4>1. NextByte + k - 1 = Offset(entry) + (got + k - 1)
        BY <1>2, <2>4
      <4> QED
        BY <2>2, <4>1
    <3> QED
      BY <3>1
  <2>6. /\ \A i \in 1 .. 8 : Got(i)' = IF i = entry THEN got + count ELSE Got(i)
        /\ Got(entry)' = got + count
    <3>1. \A i \in 1 .. 8 : Got(i)' = IF i = entry THEN Size(i) - remain' ELSE Got(i)
      BY <1>1, <1>2, <2>1, SameDisk DEF Got, Passed, Reading, Over
    <3>2. Got(entry)' = Size(entry) - remain'
      BY <1>1, <1>2, <2>1, SameDisk DEF Got, Passed, Reading, Over
    <3>3. Size(entry) - remain' = got + count
      BY <1>2, <2>1, <2>4
    <3> QED
      BY <3>1, <3>2, <3>3
  <2> HIDE DEF count, bytes, at, got
  <2>7. /\ DOMAIN reu' = 0 .. ReuBytes - 1
        /\ \A a \in 0 .. ReuBytes - 1 : a < at \/ a >= at + count => reu'[a] = reu[a]
        /\ \A k \in 0 .. count - 1 : at + k \in 0 .. ReuBytes - 1 => reu'[at + k] = bytes[k + 1]
    <3>1. reu' = Written(reu, at, bytes) /\ DOMAIN bytes = 1 .. count
      BY <2>1, <2>2 DEF at, bytes, count
    <3>2. /\ at \in Nat /\ count \in Nat /\ ReuBytes \in Nat
          /\ DOMAIN bytes = 1 .. count /\ DOMAIN reu = 0 .. ReuBytes - 1
      BY <2>3, <2>4, <3>1
    <3> DEFINE mem == Written(reu, at, bytes)
    <3>3. /\ DOMAIN mem = 0 .. ReuBytes - 1
          /\ \A a \in 0 .. ReuBytes - 1 : a < at \/ a >= at + count => mem[a] = reu[a]
          /\ \A k \in 0 .. count - 1 : at + k \in 0 .. ReuBytes - 1 => mem[at + k] = bytes[k + 1]
      <4>1. Stands(mem, reu, at, count, bytes)
        BY <3>2, Writing
      <4> QED
        BY <4>1 DEF Stands
    <3>4. reu' = mem
      BY <3>1
    <3> QED
      BY <3>3, <3>4
  <2>8. \A i : Spot(i)' = Spot(i)
    BY <2>1, SameDisk DEF Spot
  <2>9. \A i \in Streamed : There(i) /\ Got(i) \in Nat /\ Got(i) <= Size(i)
    <3>1. \A i \in Streamed : Got(i) = Size(i) \/ Got(i) = 0 \/ i = entry
      BY DEF Got, Reading
    <3>2. \A i \in Streamed : Size(i) \in Nat
      BY <1>2, Room
    <3> QED
      BY <1>2, <1>4, <3>1, <3>2 DEF MemInv
  <2>10. ASSUME NEW i \in Streamed, i # entry, NEW k \in 0 .. Got(i)' - 1
         PROVE  reu'[Spot(i)' + k] = FileByte(Offset(i) + k)
    <3>0. i \in 1 .. 8
      BY DEF Streamed
    <3>1. Got(i)' = Got(i)
      BY <2>6, <2>10, <3>0
    <3>2. reu[Spot(i) + k] = FileByte(Offset(i) + k)
      BY <2>9, <3>1 DEF There
    <3>3. /\ Spot(i) \in Nat /\ Size(i) \in Nat /\ Spot(i) + Size(i) <= ReuBytes
          /\ (Spot(i) + Size(i) <= Spot(entry) \/ Spot(entry) + Size(entry) <= Spot(i))
      BY <1>2, <1>4, <2>10, Room
    <3>4. k \in Nat /\ k < Size(i)
      BY <2>9, <3>1, <3>3
    <3>5. Spot(i) + k \in 0 .. ReuBytes - 1 /\ (Spot(i) + k < at \/ Spot(i) + k >= at + count)
      <4>1. Size(entry) \in Nat
        BY <1>2
      <4>2. Spot(i) + k \in 0 .. ReuBytes - 1
        BY <2>3, <3>3, <3>4
      <4>3. Spot(i) + Size(i) <= Spot(entry) => Spot(i) + k < at
        BY <2>3, <2>4, <3>3, <3>4
      <4>4. Spot(entry) + Size(entry) >= at + count
        BY <2>3, <2>4, <4>1
      <4>5. Spot(entry) + Size(entry) <= Spot(i) => Spot(i) + k >= at + count
        BY <2>3, <2>4, <3>3, <3>4, <4>1, <4>4
      <4> QED
        BY <3>3, <4>2, <4>3, <4>5
    <3> QED
      BY <2>7, <2>8, <3>2, <3>5
  <2>11. ASSUME NEW k \in 0 .. (got + count) - 1
         PROVE  reu'[Spot(entry) + k] = FileByte(Offset(entry) + k)
    <3>1. CASE k < got
      <4>1. reu[Spot(entry) + k] = FileByte(Offset(entry) + k)
        BY <1>4, <2>4, <2>9, <3>1 DEF There, got
      <4>2. Spot(entry) + k < at
        BY <2>3, <2>4, <2>11, <3>1
      <4>3. Spot(entry) + k \in 0 .. ReuBytes - 1
        BY <2>3, <2>4, <2>11, <4>2
      <4> QED
        BY <2>7, <4>1, <4>2, <4>3
    <3>2. CASE k >= got
      <4>1. PICK j \in 0 .. count - 1 : k = got + j
        <5>1. k - got \in 0 .. count - 1 /\ k = got + (k - got)
          BY <2>4, <2>11, <3>2
        <5> QED
          BY <5>1
      <4>2. at + j \in 0 .. ReuBytes - 1 /\ Spot(entry) + k = at + j
        BY <2>3, <2>4, <4>1
      <4>3. j + 1 \in 1 .. count /\ got + (j + 1) - 1 = k
        BY <2>4, <4>1
      <4>4. bytes[j + 1] = FileByte(Offset(entry) + k)
        BY <2>5, <4>3
      <4> QED
        BY <2>7, <4>1, <4>2, <4>4
    <3> QED
      BY <2>4, <2>11, <3>1, <3>2
  <2>12. \A i \in Streamed : There(i)'
    <3>1. ASSUME NEW i \in Streamed, NEW k \in 0 .. Got(i)' - 1
          PROVE  reu'[Spot(i)' + k] = FileByte(Offset(i) + k)
      <4>1. CASE i # entry
        BY <2>10, <4>1
      <4>2. CASE i = entry
        <5>1. Got(i)' = got + count
          BY <1>2, <2>6, <4>2
        <5>2. reu'[Spot(entry) + k] = FileByte(Offset(entry) + k)
          BY <2>11, <5>1
        <5> QED
          BY <2>8, <4>2, <5>2
      <4> QED
        BY <4>1, <4>2
    <3>2. \A i : Offset(i)' = Offset(i)
      BY <2>1, SameDisk
    <3>3. \A k : FileByte(k)' = FileByte(k)
      BY <2>1, SameDisk
    <3> QED
      BY <3>1, <3>2, <3>3 DEF There
  <2>13. ASSUME NEW a \in Got(6)' .. HeapBytes - 1
         PROVE  reu'[a] \in {Dirty, Junk}
    <3>1. 6 \in Streamed /\ 6 \in 1 .. 8 /\ Spot(6) = 0 /\ HeapBytes <= ReuBytes
      BY <1>2, Room DEF Streamed
    <3>2. Got(6) \in Nat /\ Got(6)' \in Nat /\ Got(6) <= Got(6)'
          /\ (entry = 6 => a >= at + count) /\ (entry # 6 => a < at)
      <4>1. CASE entry = 6
        <5>1. Got(6) = got /\ Got(6)' = got + count /\ at = got
          BY <2>3, <2>4, <2>6, <3>1, <4>1 DEF got
        <5> QED
          BY <2>3, <2>4, <4>1, <5>1
      <4>2. CASE entry # 6
        <5>1. Spot(entry) >= HeapBytes
          BY <1>2, <1>4, <4>2, Room
        <5>2. Got(6)' = Got(6) /\ Got(6) \in Nat
          BY <2>6, <2>9, <3>1, <4>2
        <5>3. at >= HeapBytes
          BY <2>3, <2>4, <5>1
        <5> QED
          BY <2>3, <2>4, <4>2, <5>2, <5>3
      <4> QED
        BY <4>1, <4>2
    <3>3. a \in Got(6) .. HeapBytes - 1 /\ a \in 0 .. ReuBytes - 1
      BY <2>3, <3>1, <3>2
    <3>4. reu[a] \in {Dirty, Junk}
      BY <1>4, <3>3 DEF MemInv
    <3>5. reu'[a] = reu[a]
      BY <2>7, <3>2, <3>3
    <3> QED
      BY <3>4, <3>5
  <2>14. rpos' \in 0 .. ReuBytes /\ (entry' \in Streamed => rpos' = (Spot(entry) + Got(entry))')
    <3>1. rpos' = at + count /\ Spot(entry)' = Spot(entry) /\ Got(entry)' = got + count
      BY <2>1, <2>6, SameDisk DEF at, count, Spot
    <3> QED
      BY <2>3, <2>4, <3>1
  <2> QED
    BY <2>7, <2>12, <2>13, <2>14 DEF MemInv
<1> QED
  BY <1>5, <1>6


\* Steps that read nothing for the REU.
LEMMA QuietMem ==
  ASSUME LoadInv, MemInv, Fits,
         \/ ReadHeader \/ ReadEntry \/ OutOfOrder \/ SkipGap \/ SkipSection \/ EndSection \/ EndOfSections
         \/ ReadRecord("modules", ModuleBytes, "modules", bundle.modules)
         \/ ReadRecord("globals", 2, "words", bundle.words)
  PROVE  MemInv'
<1>1. Count \in {7, 8} /\ disk \in Disks /\ \A i \in Streamed : i \in 1 .. 8
  BY Form DEF LoadInv, Types, Streamed
<1>2. CASE Fail
  BY <1>2, MemFails
<1>3. CASE ~ Fail /\ (ReadHeader \/ ReadEntry)
  <2>1. /\ stage \in {"header", "directory"} /\ stage' \in {"directory", "test"}
        /\ disk' = disk /\ reu' = reu /\ rpos' = rpos
    BY <1>3 DEF ReadHeader, ReadEntry
  <2>2. \A i \in 1 .. 8 : Got(i) = 0 /\ Got(i)' = 0
    BY <2>1 DEF Got, Passed, Reading, Over
  <2>3. Live /\ stage' # "section"
    BY <2>1 DEF Live, Underway
  <2> QED
    BY <1>1, <2>1, <2>2, <2>3, MemKept DEF MemInv
<1>4. CASE ~ Fail /\ (OutOfOrder \/ SkipGap)
  <2>1. /\ stage = "gap" /\ stage' = "gap" /\ entry' = entry
        /\ disk' = disk /\ reu' = reu /\ rpos' = rpos
    BY <1>4 DEF OutOfOrder, SkipGap
  <2>2. \A i \in 1 .. 8 : Got(i)' = Got(i)
    BY <2>1, SameDisk DEF Got, Passed, Reading, Over
  <2>3. Live
    BY <2>1 DEF Live, Underway
  <2> QED
    BY <1>1, <2>1, <2>2, <2>3, MemKept DEF MemInv
<1>5. ASSUME ~ Fail,
             \/ SkipSection \/ ReadRecord("modules", ModuleBytes, "modules", bundle.modules)
             \/ ReadRecord("globals", 2, "words", bundle.words)
      PROVE  MemInv'
  <2>1. /\ stage = "section" /\ stage' = "section" /\ entry' = entry
        /\ disk' = disk /\ reu' = reu /\ rpos' = rpos
        /\ section.kind \in {"summary", "modules", "globals"}
    BY <1>5 DEF SkipSection, ReadRecord
  <2>2. section.kind = Kinds[entry] /\ entry \in 1 .. 8
    BY <2>1, Inside
  <2>3. entry \in {1, 2, 5}
    BY <2>1, <2>2 DEF Kinds
  <2>4. \A i \in Streamed : Got(i)' = Got(i)
    BY <1>1, <2>1, <2>3, SameDisk DEF Got, Passed, Reading, Over, Streamed
  <2>5. Live /\ entry' \notin Streamed
    BY <2>1, <2>3 DEF Live, Underway, Streamed
  <2> QED
    BY <2>1, <2>4, <2>5, MemKept DEF MemInv
<1>6. CASE EndSection
  <2>1. /\ stage = "section" /\ remain = 0 /\ stage' = "gap" /\ entry' = entry + 1
        /\ disk' = disk /\ reu' = reu /\ rpos' = rpos
    BY <1>6 DEF EndSection, NextSection
  <2>2. entry \in 1 .. 8 /\ Size(entry) \in Nat
    BY <2>1, Inside
  <2>3. \A i \in 1 .. 8 : Got(i)' = Got(i)
    <3>1. \A i \in 1 .. 8 : Got(i) = IF entry > i THEN Size(i) ELSE IF i = entry THEN Size(i) - 0 ELSE 0
      BY <2>1, <2>2 DEF Got, Passed, Reading, Over
    <3>2. \A i \in 1 .. 8 : Got(i)' = IF entry + 1 > i THEN Size(i) ELSE 0
      BY <2>1, <2>2, SameDisk DEF Got, Passed, Reading, Over
    <3> QED
      BY <2>2, <3>1, <3>2
  <2>4. Live
    BY <2>1 DEF Live, Underway
  <2> QED
    BY <1>1, <2>1, <2>3, <2>4, MemKept DEF MemInv
<1>7. CASE EndOfSections
  <2>1. /\ stage = "gap" /\ entry = Count + 1 /\ stage' = "loaded" /\ entry' = entry
        /\ disk' = disk /\ reu' = reu /\ rpos' = rpos
    BY <1>7 DEF EndOfSections
  <2>2. Count = 7 => Size(8) = 0
    BY <1>1, Form
  <2>3. \A i \in 1 .. 8 : Got(i)' = Got(i)
    BY <1>1, <2>1, <2>2, SameDisk DEF Got, Passed, Reading, Over
  <2>4. Live
    BY <2>1 DEF Live, Underway
  <2> QED
    BY <1>1, <2>1, <2>3, <2>4, MemKept DEF MemInv
<1> QED
  BY <1>2, <1>3, <1>4, <1>5, <1>6, <1>7

\* The loader keeps the REU true.
LEMMA LoadNextMem ==
  ASSUME LoadInv, MemInv, Fits, LoadNext
  PROVE  MemInv'
BY QuietMem, SelfTestMem, BeginMem, StreamMem DEF LoadNext

-----------------------------------------------------------------------------
(* The REU of a machine that runs.                                          *)

\* The domain stays that of the REU through everything that is written to it.
LEMMA Domains ==
  /\ \A mem : \A at : \A bytes : DOMAIN Written(mem, at, bytes) = DOMAIN mem
  /\ \A mem : \A at : DOMAIN Seeded(mem, at) = DOMAIN mem
  /\ \A mem : \A at : \A n : DOMAIN Cleared(mem, at, n) = DOMAIN mem
  /\ DOMAIN SeededRam = DOMAIN reu
  /\ \A mem : \A place : DOMAIN GlobalsStored(mem, place) = DOMAIN mem
<1>1. \A mem : \A at : \A bytes : DOMAIN Written(mem, at, bytes) = DOMAIN mem
  BY DEF Written
<1>2. \A mem : \A at : DOMAIN Seeded(mem, at) = DOMAIN mem
  BY DEF Seeded
<1>3. \A mem : \A at : \A n : DOMAIN Cleared(mem, at, n) = DOMAIN mem
  BY <1>1 DEF Cleared
<1>4. DOMAIN SeededRam = DOMAIN reu
  BY <1>2, <1>3 DEF SeededRam
<1>5. \A mem : \A place : DOMAIN GlobalsStored(mem, place) = DOMAIN mem
  BY DEF GlobalsStored
<1> QED
  BY <1>1, <1>2, <1>3, <1>4, <1>5

\* Every step keeps the REU true while the loader runs, and its size for good.
LEMMA MemSteps ==
  ASSUME LoadInv, MemInv, Fits, [Next]_vars
  PROVE  MemInv'
<1>1. CASE LoadNext
  BY <1>1, LoadNextMem
<1>2. CASE VmInit
  <2>1. stage' \in {"ready", "refused"} /\ rpos' = rpos
    BY <1>2 DEF VmInit
  <2>2. DOMAIN reu' = DOMAIN reu
    BY <1>2, Domains DEF VmInit
  <2> QED
    BY <2>1, <2>2 DEF MemInv, Live, Underway
<1>3. CASE Run
  <2>1. stage = "ready" /\ stage' = "ready" /\ rpos' = rpos
    BY <1>3 DEF Run, CodeByte, DropCode, ReadExport, ReadInitializer, ReadGlobal, WriteGlobal,
         SpillLocals, StoreSnapshot, Store, loadVars
  <2>2. DOMAIN reu' = DOMAIN reu
    <3>1. \/ reu' = reu
          \/ \E at : \E bytes : reu' = Written(reu, at, bytes)
      BY <1>3 DEF Run, CodeByte, DropCode, ReadExport, ReadInitializer, ReadGlobal, WriteGlobal,
           SpillLocals, StoreSnapshot, Store, loadVars, WordStored
    <3> QED
      BY <3>1, Domains
  <2> QED
    BY <2>1, <2>2 DEF MemInv, Live, Underway
<1>4. CASE UNCHANGED vars
  <2>1. UNCHANGED <<disk, stage, entry, remain, rpos, reu>>
    BY <1>4 DEF vars, loadVars
  <2>2. CASE Live
    <3>1. \A i \in Streamed : Got(i)' = Got(i)
      BY <2>1, SameDisk DEF Got, Passed, Reading, Over
    <3>2. stage' = "section" /\ entry' \in Streamed => rpos' = (Spot(entry) + Got(entry))'
      <4>1. Spot(entry)' = Spot(entry) /\ Got(entry)' = Got(entry)
        BY <2>1, SameDisk DEF Spot, Got, Passed, Reading, Over, Size
      <4> QED
        BY <2>1, <4>1 DEF MemInv
    <3> QED
      BY <2>1, <2>2, <3>1, <3>2, MemKept DEF MemInv
  <2>3. CASE ~ Live
    BY <2>1, <2>3 DEF MemInv, Live, Underway
  <2> QED
    BY <2>2, <2>3
<1> QED
  BY <1>1, <1>2, <1>3, <1>4 DEF Next, Load

\* At the start the REU is as it was found.
LEMMA MemStarts ==
  ASSUME Init
  PROVE  MemInv
<1>1. /\ disk \in Disks /\ stage = "header" /\ entry = 0 /\ rpos = 0
      /\ reu = [a \in 0 .. ReuBytes - 1 |-> Dirty]
  BY DEF Init, LoadInit
<1>2. \A i \in 1 .. 8 : Got(i) = 0
  BY <1>1, NotBegun
<1>3. ReuBytes \in Nat /\ HeapBytes \in Nat /\ HeapBytes < ReuBytes
  BY BundleAssumption
<1>4. \A i \in Streamed : There(i)
  BY <1>2 DEF There, Streamed
<1>5. \A a \in Got(6) .. HeapBytes - 1 : reu[a] \in {Dirty, Junk}
  BY <1>1, <1>2, <1>3
<1> QED
  BY <1>1, <1>3, <1>4, <1>5 DEF MemInv

\* The REU is true throughout, if it is large enough.
LEMMA MemoryTrue ==
  ASSUME Fits
  PROVE  Spec => []MemInv
<1>1. Init => MemInv
  BY MemStarts
<1>2. LoadInv /\ MemInv /\ [Next]_vars => MemInv'
  BY MemSteps
<1> QED
  BY <1>1, <1>2, Loading, PTL DEF Spec

\* A section is where it says from the moment that all is loaded.
LEMMA SectionHeld ==
  ASSUME LoadInv, MemInv, stage = "loaded", NEW i \in Streamed, NEW kind, NEW at,
         kind = Kinds[i], Size(i) > 0 => at = Spot(i)
  PROVE  HoldsSection(kind, at)
<1>1. disk \in Disks /\ Count \in {7, 8} /\ \A j \in 1 .. Count : Got(j) = Size(j)
  BY AllRead DEF Over
<1>2. ASSUME NEW j \in 1 .. Count, bundle.sections[j].kind = kind,
             NEW k \in 0 .. bundle.sections[j].length - 1
      PROVE  reu[at + k] = FileByte(bundle.sections[j].offset + k)
  <2>1. /\ bundle.sections[j].kind = Kinds[j] /\ bundle.sections[j].length = Size(j)
        /\ bundle.sections[j].offset = Offset(j) /\ Size(j) \in Nat
    BY <1>1, Form
  <2>2. j = i
    <3>1. i \in 1 .. 8 /\ j \in 1 .. 8 /\ Kinds[j] = Kinds[i]
      BY <1>1, <1>2, <2>1 DEF Streamed
    <3> QED
      BY <3>1 DEF Kinds
  <2>3. k \in 0 .. Got(i) - 1 /\ Size(i) > 0
    BY <1>1, <1>2, <2>1, <2>2
  <2>4. reu[Spot(i) + k] = FileByte(Offset(i) + k)
    BY <2>3 DEF MemInv, Live, There
  <2> QED
    BY <2>1, <2>2, <2>3, <2>4
<1> QED
  BY <1>2 DEF HoldsSection

\* LoadsLikePosix: for every bundle that fits in the REU, every point where its file
\* is cut and every drive, what loads is what the file holds, section by section,
\* and only a form that the POSIX build rejects, a limit or the drive is refused.
THEOREM LoadsAsPosix ==
  ASSUME Fits
  PROVE  Spec => []LoadsLikePosix
<1>1. ASSUME LoadInv, MemInv, stage = "loaded"
      PROVE  /\ HoldsSection("ram", 0) /\ HoldsSection("code", HeapBytes)
             /\ HoldsSection("exports", info.exports_at)
             /\ HoldsSection("initializers", info.initializers_at)
             /\ HoldsSection("rodata", info.rodata_at)
  <2>1. 3 \in Streamed /\ 4 \in Streamed /\ 6 \in Streamed /\ 7 \in Streamed /\ 8 \in Streamed
    BY DEF Streamed
  <2>2. /\ Spot(3) = ExportsSpot /\ Spot(4) = InitializersSpot /\ Spot(6) = 0
        /\ Spot(7) = HeapBytes /\ Spot(8) = RoDataSpot
    BY DEF Spot
  <2>3. \A i : Passed(i) /\ Begun(i)
    BY <1>1 DEF Passed, Begun, Over
  <2>4. /\ info.exports_at = ExportsSpot /\ info.initializers_at = InitializersSpot
        /\ (Size(8) > 0 => info.rodata_at = RoDataSpot)
    BY <1>1, <2>3 DEF LoadInv, Known
  <2>5. HoldsSection("ram", 0)
    BY <1>1, <2>1, <2>2, KindIs, SectionHeld
  <2>6. HoldsSection("code", HeapBytes)
    BY <1>1, <2>1, <2>2, KindIs, SectionHeld
  <2>7. HoldsSection("exports", info.exports_at)
    BY <1>1, <2>1, <2>2, <2>4, KindIs, SectionHeld
  <2>8. HoldsSection("initializers", info.initializers_at)
    BY <1>1, <2>1, <2>2, <2>4, KindIs, SectionHeld
  <2>9. HoldsSection("rodata", info.rodata_at)
    BY <1>1, <2>1, <2>2, <2>4, KindIs, SectionHeld
  <2> QED
    BY <2>5, <2>6, <2>7, <2>8, <2>9
<1>2. LoadInv /\ MemInv => LoadsLikePosix
  BY <1>1, FormIsChecked DEF LoadsLikePosix, FormChecked
<1>3. Spec => []MemInv
  BY MemoryTrue
<1> QED
  BY <1>2, <1>3, Loading, PTL


\* The byte of a section is that of the file at its offset.
LEMMA SectionBytes ==
  ASSUME disk \in Disks, NEW i \in 1 .. Count, NEW k
  PROVE  SectionByte(Kinds[i], k) = FileByte(Offset(i) + k)
<1>1. Count \in {7, 8} /\ \A j \in 1 .. Count : bundle.sections[j].kind = Kinds[j]
  BY Form
<1>2. \A j \in 1 .. Count : Kinds[j] = Kinds[i] => j = i
  BY <1>1 DEF Kinds
<1>3. (CHOOSE j \in 1 .. Count : bundle.sections[j].kind = Kinds[i]) = i
  BY <1>1, <1>2
<1> QED
  BY <1>3, Form DEF SectionByte

\* What lp128_vm_init shares out fits in the REU.
LEMMA LayoutFits ==
  ASSUME Fits, LoadInv, Over, LayoutOk
  PROVE  /\ NewLayout.globals \in 0 .. ReuBytes /\ NewLayout.spill \in 0 .. ReuBytes
         /\ NewLayout.slots \in 0 .. ReuBytes
         /\ NewLayout.slots + SlotCap * SlotBytes <= ReuBytes
<1>1. /\ disk \in Disks /\ Count \in {7, 8}
      /\ \A i \in 1 .. Count : Begun(i) /\ Passed(i) /\ Got(i) = Size(i)
  BY AllRead
<1>2. info \in InfoType /\ ReuAlign \in Nat \ {0} /\ ReuBytes \in Nat
  BY BundleAssumption DEF LoadInv, Types
<1> DEFINE all == Before[ModuleCount + 1]
           spilled == CallCap * LocalBytes
           kept == SlotCap * SlotBytes
           globalsAt == AlignUp(RoDataSpot + Size(8), ReuAlign)
           spillAt == AlignUp(globalsAt + Size(5), ReuAlign)
           slotsAt == AlignUp(spillAt + spilled, ReuAlign)
<1>3. slotsAt + kept <= ReuBytes
  BY <1>1 DEF Fits, AreaEnd, Size, RoDataSpot, InitializersSpot, ExportsSpot, bundle
<1>4. /\ RoDataSpot \in Nat /\ Size(8) \in Nat /\ all \in Nat /\ spilled \in Nat /\ kept \in Nat
      /\ NewLayout.globals \in Nat /\ NewLayout.spill \in Nat /\ NewLayout.slots \in Nat
      /\ InitializersSpot \in Nat /\ Size(4) \in Nat
      /\ InitializersSpot + Size(4) <= RoDataSpot
  BY AreasInOrder
<1>5. 2 * all <= Size(5) /\ Size(5) \in Nat
  <2>1. 5 \in 1 .. Count
    BY <1>1
  <2>2. Len(info.words) \in Nat /\ Size(5) = 2 * Len(info.words)
    BY <1>1, <1>2, <2>1, LenProperties DEF LoadInv, Tables, InfoType, Over
  <2>3. Len(info.words) >= 2 + ModuleCount + ProgramGlobals + all
    BY DEF LayoutOk
  <2>4. ModuleCount \in Nat /\ ProgramGlobals \in Nat
    BY <1>2, BeforeGrows
  <2> HIDE DEF all
  <2> QED
    BY <1>4, <2>2, <2>3, <2>4
<1>6. NewLayout.globals <= globalsAt /\ globalsAt \in Nat
  <2>1. /\ info.exports_at = ExportsSpot /\ info.initializers_at = InitializersSpot
        /\ info.initializers * InitializerBytes = Size(4)
        /\ info.rodata = Size(8) /\ info.rodata_at = IF Size(8) > 0 THEN RoDataSpot ELSE 0
    BY AreasInOrder
  <2>2. TablesEnd \in Nat /\ TablesEnd <= RoDataSpot + Size(8) /\ RoDataSpot + Size(8) \in Nat
    BY <1>4, <2>1 DEF TablesEnd
  <2>3. NewLayout.globals = AlignUp(TablesEnd, ReuAlign)
    BY DEF NewLayout
  <2> QED
    BY <1>2, <2>2, <2>3, Aligning, AligningInOrder
<1>7. NewLayout.spill = AlignUp(NewLayout.globals + 2 * all, ReuAlign)
      /\ NewLayout.slots = AlignUp(NewLayout.spill + spilled, ReuAlign)
  BY DEF NewLayout
<1> HIDE DEF all, spilled, kept, globalsAt
<1>8. NewLayout.spill <= spillAt /\ spillAt \in Nat
  <2>1. /\ NewLayout.globals + 2 * all \in Nat /\ globalsAt + Size(5) \in Nat
        /\ NewLayout.globals + 2 * all <= globalsAt + Size(5)
    BY <1>4, <1>5, <1>6
  <2> QED
    BY <1>2, <1>7, <2>1, Aligning, AligningInOrder
<1> HIDE DEF spillAt
<1>9. NewLayout.slots <= slotsAt /\ slotsAt \in Nat
  <2>1. /\ NewLayout.spill + spilled \in Nat /\ spillAt + spilled \in Nat
        /\ NewLayout.spill + spilled <= spillAt + spilled
    BY <1>4, <1>8
  <2> QED
    BY <1>2, <1>7, <2>1, Aligning, AligningInOrder
<1> HIDE DEF slotsAt
<1>10. NewLayout.slots + kept <= ReuBytes
  BY <1>2, <1>3, <1>4, <1>9
<1>11. NewLayout.globals + 2 * all <= NewLayout.spill /\ NewLayout.spill + spilled <= NewLayout.slots
  BY AreasInOrder DEF all, spilled
<1>12. /\ NewLayout.slots <= ReuBytes /\ NewLayout.spill <= NewLayout.slots
       /\ NewLayout.globals <= NewLayout.spill
  BY <1>2, <1>4, <1>10, <1>11
<1> QED
  BY <1>2, <1>4, <1>10, <1>12 DEF kept

\* The number of a global among those of all modules
Nth(d) == Before[d[1]] + d[2]

\* The globals of the modules are numbered without a gap or a clash.
LEMMA Numbering ==
  ASSUME info \in InfoType, LayoutOk
  PROVE  /\ \A d \in Domain : /\ Nth(d) \in Nat /\ Nth(d) + 1 <= Before[ModuleCount + 1]
                              /\ \A place : GlobalAt(place, d[1], d[2]) = place.globals + 2 * Nth(d)
         /\ \A d \in Domain : \A e \in Domain : Nth(d) = Nth(e) => d = e
<1>1. /\ ModuleCount \in Nat
      /\ \A m \in 1 .. ModuleCount : GlobalCount(m) \in Nat
      /\ \A m \in 1 .. ModuleCount + 1 : Before[m] \in Nat
      /\ \A k \in 1 .. ModuleCount + 1 : \A m \in 1 .. ModuleCount :
           m < k => Before[m] + GlobalCount(m) <= Before[k]
  BY BeforeGrows
<1>2. \A d \in Domain : /\ d = <<d[1], d[2]>> /\ d[1] \in 1 .. ModuleCount /\ d[2] \in Nat
                        /\ d[2] < GlobalCount(d[1])
  BY BootAssumption DEF Domain
<1>3. ASSUME NEW d \in Domain
      PROVE  /\ Nth(d) \in Nat /\ Nth(d) + 1 <= Before[ModuleCount + 1]
             /\ \A place : GlobalAt(place, d[1], d[2]) = place.globals + 2 * Nth(d)
  <2>1. d[1] \in 1 .. ModuleCount /\ d[2] \in Nat /\ d[2] < GlobalCount(d[1])
    BY <1>2
  <2>2. /\ d[1] \in 1 .. ModuleCount + 1 /\ ModuleCount + 1 \in 1 .. ModuleCount + 1
        /\ d[1] < ModuleCount + 1
    BY <1>1, <2>1
  <2>3. Before[d[1]] \in Nat /\ GlobalCount(d[1]) \in Nat /\ Before[ModuleCount + 1] \in Nat
        /\ Before[d[1]] + GlobalCount(d[1]) <= Before[ModuleCount + 1]
    BY <1>1, <2>1, <2>2
  <2> QED
    BY <2>1, <2>3 DEF Nth, GlobalAt
<1>4. ASSUME NEW d \in Domain, NEW e \in Domain, d[1] < e[1]
      PROVE  Nth(d) < Nth(e)
  <2>1. /\ d[1] \in 1 .. ModuleCount /\ d[2] \in Nat /\ d[2] < GlobalCount(d[1])
        /\ e[1] \in 1 .. ModuleCount /\ e[2] \in Nat
    BY <1>2
  <2>2. d[1] \in 1 .. ModuleCount + 1 /\ e[1] \in 1 .. ModuleCount + 1
    BY <1>1, <2>1
  <2>3. Before[d[1]] \in Nat /\ GlobalCount(d[1]) \in Nat /\ Before[e[1]] \in Nat
        /\ Before[d[1]] + GlobalCount(d[1]) <= Before[e[1]]
    BY <1>1, <1>4, <2>1, <2>2
  <2> QED
    BY <2>1, <2>3 DEF Nth
<1>5. ASSUME NEW d \in Domain, NEW e \in Domain, Nth(d) = Nth(e)
      PROVE  d = e
  <2>1. /\ d = <<d[1], d[2]>> /\ e = <<e[1], e[2]>> /\ d[1] \in 1 .. ModuleCount
        /\ e[1] \in 1 .. ModuleCount /\ d[2] \in Nat /\ e[2] \in Nat
    BY <1>2
  <2>2. Nth(d) \in Nat /\ Nth(e) \in Nat
    BY <1>3
  <2>3. ~ (d[1] < e[1]) /\ ~ (e[1] < d[1])
    BY <1>4, <1>5, <2>2
  <2>4. d[1] = e[1]
    BY <1>1, <2>1, <2>3
  <2>5. Before[d[1]] \in Nat
    <3>1. d[1] \in 1 .. ModuleCount + 1
      BY <1>1, <2>1
    <3> QED
      BY <1>1, <3>1
  <2>6. d[2] = e[2]
    BY <1>5, <2>1, <2>4, <2>5 DEF Nth
  <2> QED
    BY <2>1, <2>4, <2>6
<1> QED
  BY <1>3, <1>5


\* The bytes of section i are all at its place in the REU.
Held(i) == \A k \in 0 .. Size(i) - 1 : reu[Spot(i) + k] = FileByte(Offset(i) + k)

\* What HeapAsSeeded says of byte a
SeededByte(a) ==
  IF \/ a - SegmentBytes \in SentinelBytes
     \/ a - LowArena \in SentinelBytes /\ LowArena + 10 <= SegmentBytes
    THEN {Seed}
  ELSE IF a < info.ram THEN {SectionByte("ram", a)}
  ELSE IF board = "plain" THEN {Zero} ELSE {Dirty, Junk}

\* The two bytes of global d
GlobalHeld(d) ==
  /\ reu[GlobalAt(layout, d[1], d[2])] = globals[d]
  /\ reu[GlobalAt(layout, d[1], d[2]) + 1] = globals[d]

\* A machine that runs finds its code, its tables, its globals and its heap.
RunMem ==
  stage = "ready" => /\ \A i \in {3, 4, 7} : Held(i)
                     /\ DOMAIN globals = Domain /\ \A d \in Domain : GlobalHeld(d)
                     /\ \A a \in 0 .. HeapBytes - 1 : reu[a] \in SeededByte(a)

\* The layout has room in the REU.
LayoutBound ==
  /\ DOMAIN layout = {"globals", "spill", "slots"}
  /\ layout.globals \in 0 .. ReuBytes /\ layout.spill \in 0 .. ReuBytes
  /\ layout.slots \in 0 .. ReuBytes

\* What lp128_vm_init seeds is the low part of the heap.
LEMMA SeededHeap ==
  ASSUME Fits, LoadInv, MemInv, stage = "loaded", info.ram <= SegmentBytes
  PROVE  /\ \A a \in HeapBytes .. ReuBytes - 1 : SeededRam[a] = reu[a]
         /\ \A a \in 0 .. HeapBytes - 1 : SeededRam[a] \in SeededByte(a)
<1>1. /\ disk \in Disks /\ Count \in {7, 8}
      /\ \A i \in 1 .. Count : Begun(i) /\ Passed(i) /\ Got(i) = Size(i)
  BY AllRead DEF Over
<1>2. /\ HeapBytes \in Nat /\ ReuBytes \in Nat /\ HeapBytes <= ReuBytes
      /\ HeapBytes = 2 * SegmentBytes /\ SegmentBytes >= 10 /\ SegmentBytes \in Nat
      /\ DOMAIN reu = 0 .. ReuBytes - 1
  BY BundleAssumption, BootAssumption DEF MemInv
<1>3. 6 \in 1 .. Count /\ 6 \in Streamed /\ Spot(6) = 0
  <2>1. Count \in {7, 8}
    BY <1>1
  <2>2. 6 \in 1 .. Count
    BY <2>1
  <2>3. 6 \in Streamed /\ Spot(6) = 0
    BY DEF Streamed, Spot
  <2> QED
    BY <2>2, <2>3
<1>4. info.ram = Size(6) /\ Size(6) \in Nat /\ Got(6) = Size(6)
  BY <1>1, <1>3, Form DEF LoadInv, Known
<1>5. \A a \in 0 .. Size(6) - 1 : reu[a] = SectionByte("ram", a)
  <2>1. ASSUME NEW a \in 0 .. Size(6) - 1 PROVE reu[a] = SectionByte("ram", a)
    <3>1. reu[Spot(6) + a] = FileByte(Offset(6) + a)
      BY <1>3, <1>4 DEF MemInv, Live, There
    <3>2. SectionByte("ram", a) = FileByte(Offset(6) + a)
      BY <1>1, <1>3, KindIs, SectionBytes
    <3>3. Spot(6) + a = a
      BY <1>3, <1>4
    <3> QED
      BY <3>1, <3>2, <3>3
  <2> QED
    BY <2>1
<1>6. \A a \in Size(6) .. HeapBytes - 1 : reu[a] \in {Dirty, Junk}
  BY <1>4 DEF MemInv, Live
<1> DEFINE blank == Cleared(reu, info.ram, HeapBytes - info.ram)
           low == IF LowArena + 10 <= SegmentBytes THEN Seeded(blank, LowArena) ELSE blank
<1>7. /\ DOMAIN blank = 0 .. ReuBytes - 1
      /\ \A a \in 0 .. ReuBytes - 1 :
           blank[a] = IF board = "plain" /\ a >= info.ram /\ a < HeapBytes THEN Zero ELSE reu[a]
  <2>1. CASE board = "plain"
    <3> DEFINE n == HeapBytes - info.ram
               bytes == [k \in 1 .. n |-> Zero]
               at == info.ram
    <3>1. n \in Nat /\ info.ram \in Nat /\ info.ram + n = HeapBytes /\ at \in Nat
      BY <1>2, <1>4
    <3>2. blank = Written(reu, at, bytes)
      BY <2>1 DEF Cleared
    <3> HIDE DEF n, blank
    <3>3. DOMAIN bytes = 1 .. n
      OBVIOUS
    <3> HIDE DEF bytes, at
    <3>9. /\ DOMAIN Written(reu, at, bytes) = 0 .. ReuBytes - 1
          /\ \A a \in 0 .. ReuBytes - 1 :
               a < at \/ a >= at + n => Written(reu, at, bytes)[a] = reu[a]
          /\ \A k \in 0 .. n - 1 :
               at + k \in 0 .. ReuBytes - 1 => Written(reu, at, bytes)[at + k] = bytes[k + 1]
      <4>1. DOMAIN reu = 0 .. ReuBytes - 1 /\ ReuBytes \in Nat /\ at \in Nat /\ n \in Nat
        BY <1>2, <3>1
      <4> DEFINE mem == Written(reu, at, bytes)
      <4>2. /\ DOMAIN mem = 0 .. ReuBytes - 1
            /\ \A a \in 0 .. ReuBytes - 1 : a < at \/ a >= at + n => mem[a] = reu[a]
            /\ \A k \in 0 .. n - 1 : at + k \in 0 .. ReuBytes - 1 => mem[at + k] = bytes[k + 1]
        <5>1. Stands(mem, reu, at, n, bytes)
          BY <3>3, <4>1, Writing
        <5> QED
          BY <5>1 DEF Stands
      <4> QED
        BY <4>2
    <3>4. /\ DOMAIN blank = 0 .. ReuBytes - 1
          /\ \A a \in 0 .. ReuBytes - 1 : a < info.ram \/ a >= info.ram + n => blank[a] = reu[a]
          /\ \A k \in 0 .. n - 1 : info.ram + k \in 0 .. ReuBytes - 1 => blank[info.ram + k] = bytes[k + 1]
      BY <3>2, <3>9 DEF at
    <3>5. ASSUME NEW a \in 0 .. ReuBytes - 1, a >= info.ram, a < HeapBytes
          PROVE  blank[a] = Zero
      <4>1. PICK k \in 0 .. n - 1 : a = info.ram + k
        <5>1. a - info.ram \in 0 .. n - 1 /\ a = info.ram + (a - info.ram)
          BY <1>2, <3>1, <3>5
        <5> QED
          BY <5>1
      <4>2. k + 1 \in 1 .. n
        BY <3>1, <4>1
      <4>3. bytes[k + 1] = Zero
        BY <4>2 DEF bytes
      <4>4. blank[info.ram + k] = bytes[k + 1]
        BY <3>4, <4>1
      <4> QED
        BY <4>1, <4>3, <4>4
    <3>6. ASSUME NEW a \in 0 .. ReuBytes - 1, a < info.ram \/ a >= HeapBytes
          PROVE  blank[a] = reu[a]
      BY <3>1, <3>4, <3>6
    <3>7. \A a \in 0 .. ReuBytes - 1 : (a >= info.ram /\ a < HeapBytes) \/ (a < info.ram \/ a >= HeapBytes)
      BY <1>2, <3>1
    <3> QED
      BY <2>1, <3>4, <3>5, <3>6, <3>7
  <2>2. CASE board # "plain"
    BY <1>2, <2>2 DEF Cleared
  <2> QED
    BY <2>1, <2>2
<1> HIDE DEF blank
<1>8. LowArena \in Nat
  BY <1>4 DEF LowArena
<1>9. /\ DOMAIN low = 0 .. ReuBytes - 1
      /\ \A a \in 0 .. ReuBytes - 1 :
           low[a] = IF a - LowArena \in SentinelBytes /\ LowArena + 10 <= SegmentBytes THEN Seed ELSE blank[a]
  BY <1>7 DEF Seeded
<1> HIDE DEF low
<1>10. SeededRam = Seeded(low, SegmentBytes)
  BY DEF SeededRam, low, blank
<1>11. \A a \in 0 .. ReuBytes - 1 :
         SeededRam[a] = IF a - SegmentBytes \in SentinelBytes THEN Seed ELSE low[a]
  BY <1>9, <1>10 DEF Seeded
<1>12. ASSUME NEW a \in HeapBytes .. ReuBytes - 1 PROVE SeededRam[a] = reu[a]
  <2>1. a \in 0 .. ReuBytes - 1 /\ ~ (a < HeapBytes)
    BY <1>2
  <2>2. a - SegmentBytes \notin SentinelBytes
    BY <1>2 DEF SentinelBytes
  <2>3. LowArena + 10 <= SegmentBytes => a - LowArena \notin SentinelBytes
    BY <1>2, <1>8 DEF SentinelBytes
  <2> QED
    BY <1>7, <1>9, <1>11, <2>1, <2>2, <2>3
<1>13. ASSUME NEW a \in 0 .. HeapBytes - 1
       PROVE  SeededRam[a] \in SeededByte(a)
  <2>1. a \in 0 .. ReuBytes - 1 /\ a < HeapBytes
    BY <1>2
  <2>2. CASE \/ a - SegmentBytes \in SentinelBytes
             \/ a - LowArena \in SentinelBytes /\ LowArena + 10 <= SegmentBytes
    BY <1>9, <1>11, <2>1, <2>2 DEF SeededByte
  <2>3. CASE ~ (\/ a - SegmentBytes \in SentinelBytes
                \/ a - LowArena \in SentinelBytes /\ LowArena + 10 <= SegmentBytes)
    <3>1. SeededRam[a] = blank[a]
      BY <1>9, <1>11, <2>1, <2>3
    <3>2. CASE a < info.ram
      <4>1. a \in 0 .. Size(6) - 1 /\ ~ (a >= info.ram)
        BY <1>4, <3>2
      <4>2. blank[a] = SectionByte("ram", a)
        BY <1>5, <1>7, <2>1, <4>1
      <4> QED
        BY <2>3, <3>1, <3>2, <4>2 DEF SeededByte
    <3>3. CASE ~ (a < info.ram)
      <4>1. a \in Size(6) .. HeapBytes - 1 /\ a >= info.ram
        BY <1>2, <1>4, <3>3
      <4>2. CASE board = "plain"
        BY <1>7, <2>1, <2>3, <3>1, <3>3, <4>1, <4>2 DEF SeededByte
      <4>3. CASE board # "plain"
        <5>1. blank[a] = reu[a] /\ reu[a] \in {Dirty, Junk}
          BY <1>6, <1>7, <2>1, <4>1, <4>3
        <5> QED
          BY <2>3, <3>1, <3>3, <4>3, <5>1 DEF SeededByte
      <4> QED
        BY <4>2, <4>3
    <3> QED
      BY <3>2, <3>3
  <2> QED
    BY <2>2, <2>3
<1> QED
  BY <1>12, <1>13

\* The globals get their first values, and what lies before them is kept.
LEMMA StoringGlobals ==
  ASSUME info \in InfoType, LayoutOk, NEW place, place.globals \in Nat,
         NEW mem, DOMAIN mem = 0 .. ReuBytes - 1, ReuBytes \in Nat
  PROVE  /\ DOMAIN GlobalsStored(mem, place) = 0 .. ReuBytes - 1
         /\ \A a \in 0 .. ReuBytes - 1 : a < place.globals => GlobalsStored(mem, place)[a] = mem[a]
         /\ \A d \in Domain : \A b \in {0, 1} :
              LET a == GlobalAt(place, d[1], d[2]) + b IN
              a \in 0 .. ReuBytes - 1 => GlobalsStored(mem, place)[a] = InitialGlobal(d[1], d[2])
<1> DEFINE first == place.globals
           at(d) == GlobalAt(place, d[1], d[2])
           stored == GlobalsStored(mem, place)
<1>1. /\ \A d \in Domain : Nth(d) \in Nat /\ at(d) = first + 2 * Nth(d)
      /\ \A d \in Domain : \A e \in Domain : Nth(d) = Nth(e) => d = e
  BY Numbering
<1>2. DOMAIN stored = 0 .. ReuBytes - 1
  BY Domains
<1>3. \A a \in 0 .. ReuBytes - 1 :
        stored[a] = IF \E d \in Domain : a - at(d) \in {0, 1}
                      THEN LET d == CHOOSE d \in Domain : a - at(d) \in {0, 1}
                           IN  InitialGlobal(d[1], d[2])
                      ELSE mem[a]
  BY DEF GlobalsStored
<1> HIDE DEF stored, at
<1>4. ASSUME NEW a \in 0 .. ReuBytes - 1, a < first PROVE stored[a] = mem[a]
  <2>1. \A d \in Domain : a - at(d) \notin {0, 1}
    <3>1. ASSUME NEW d \in Domain PROVE a - at(d) \notin {0, 1}
      <4>1. Nth(d) \in Nat /\ at(d) = first + 2 * Nth(d)
        BY <1>1
      <4> HIDE DEF first
      <4>2. first \in Nat
        BY DEF first
      <4> QED
        BY <1>4, <4>1, <4>2
    <3> QED
      BY <3>1
  <2> QED
    BY <1>3, <2>1
<1>5. ASSUME NEW d \in Domain, NEW b \in {0, 1}, at(d) + b \in 0 .. ReuBytes - 1
      PROVE  stored[at(d) + b] = InitialGlobal(d[1], d[2])
  <2> DEFINE a == at(d) + b
  <2>1. ASSUME NEW e \in Domain, a - at(e) \in {0, 1} PROVE e = d
    <3>1. Nth(d) \in Nat /\ at(d) = first + 2 * Nth(d) /\ Nth(e) \in Nat /\ at(e) = first + 2 * Nth(e)
      BY <1>1
    <3>2. first \in Nat
      OBVIOUS
    <3> HIDE DEF first
    <3>3. Nth(d) = Nth(e)
      BY <2>1, <3>1, <3>2
    <3> QED
      BY <1>1, <3>3
  <2>2. a - at(d) \in {0, 1}
    <3>1. Nth(d) \in Nat /\ at(d) = first + 2 * Nth(d) /\ first \in Nat
      BY <1>1
    <3> QED
      BY <3>1
  <2> HIDE DEF a
  <2>3. (CHOOSE e \in Domain : a - at(e) \in {0, 1}) = d
    BY <2>1, <2>2
  <2>4. a \in 0 .. ReuBytes - 1
    BY <1>5 DEF a
  <2>5. stored[a] = InitialGlobal(d[1], d[2])
    BY <1>3, <2>2, <2>3, <2>4
  <2> QED
    BY <2>5 DEF a
<1> QED
  BY <1>2, <1>4, <1>5 DEF stored, at


\* What is worked out of the bundle and its record stays with them.
LEMMA SameSeeds ==
  ASSUME disk' = disk, board' = board, info' = info
  PROVE  /\ \A a : SeededByte(a)' = SeededByte(a)
         /\ \A i : Spot(i)' = Spot(i)
<1>1. LowArena' = LowArena
  BY DEF LowArena
<1>2. \A a : SectionByte("ram", a)' = SectionByte("ram", a)
  BY SameDisk DEF SectionByte
<1>3. \A i : Spot(i)' = Spot(i)
  BY SameDisk DEF Spot
<1> QED
  BY <1>1, <1>2, <1>3 DEF SeededByte

\* The code and the tables lie between the heap and the globals.
LEMMA BelowGlobals ==
  ASSUME LoadInv, Over, LayoutOk
  PROVE  /\ NewLayout.globals \in Nat /\ HeapBytes \in Nat /\ HeapBytes <= NewLayout.globals
         /\ \A i \in {3, 4, 7} : /\ Spot(i) \in Nat /\ Size(i) \in Nat /\ HeapBytes <= Spot(i)
                                 /\ Spot(i) + Size(i) <= NewLayout.globals
<1>1. /\ \A i \in {3, 4, 7} : Size(i) \in Nat
      /\ HeapBytes \in Nat /\ ExportsSpot \in Nat /\ InitializersSpot \in Nat
      /\ HeapBytes + Size(7) <= ExportsSpot /\ ExportsSpot + Size(3) <= InitializersSpot
      /\ InitializersSpot + Size(4) <= NewLayout.globals /\ NewLayout.globals \in Nat
  BY AreasInOrder
<1>2. Spot(3) = ExportsSpot /\ Spot(4) = InitializersSpot /\ Spot(7) = HeapBytes
  BY DEF Spot
<1>3. Size(3) \in Nat /\ Size(4) \in Nat /\ Size(7) \in Nat
  BY <1>1
<1>4. /\ HeapBytes <= Spot(3) /\ HeapBytes <= Spot(4) /\ HeapBytes <= Spot(7)
      /\ HeapBytes <= NewLayout.globals
  BY <1>1, <1>2, <1>3
<1>5. /\ Spot(3) + Size(3) <= NewLayout.globals /\ Spot(4) + Size(4) <= NewLayout.globals
      /\ Spot(7) + Size(7) <= NewLayout.globals
  BY <1>1, <1>2, <1>3
<1> QED
  BY <1>1, <1>2, <1>4, <1>5

\* When lp128_vm_init succeeds everything is in place, and it changes nothing
\* that a machine relies on when it does not.
LEMMA VmInitMem ==
  ASSUME Fits, LoadInv, MemInv, LayoutBound, VmInit
  PROVE  RunMem' /\ LayoutBound'
<1>1. /\ stage = "loaded" /\ Over /\ disk' = disk /\ board' = board /\ info' = info
      /\ stage' \in {"ready", "refused"}
  BY DEF VmInit, Over
<1>2. /\ disk \in Disks /\ Count \in {7, 8}
      /\ \A i \in 1 .. Count : Begun(i) /\ Passed(i) /\ Got(i) = Size(i)
  BY <1>1, AllRead
<1>3. DOMAIN reu = 0 .. ReuBytes - 1 /\ ReuBytes \in Nat /\ info \in InfoType
  BY BundleAssumption DEF MemInv, LoadInv, Types
<1>4. CASE ~ (info.ram <= SegmentBytes) \/ ~ LayoutOk
  <2>1. stage' # "ready" /\ layout' = layout
    <3>1. info.ram > SegmentBytes \/ ~ LayoutOk
      <4>1. info.ram \in Nat /\ SegmentBytes \in Nat
        BY <1>3, BootAssumption DEF InfoType
      <4> QED
        BY <1>4, <4>1
    <3> QED
      BY <3>1 DEF VmInit, runVars
  <2> QED
    BY <2>1 DEF RunMem, LayoutBound
<1>5. CASE info.ram <= SegmentBytes /\ LayoutOk
  <2>1. /\ layout' = NewLayout /\ reu' = GlobalsStored(SeededRam, NewLayout)
        /\ globals' = [d \in Domain |-> InitialGlobal(d[1], d[2])]
    <3>1. ~ (info.ram > SegmentBytes)
      <4>1. info.ram \in Nat /\ SegmentBytes \in Nat
        BY <1>3, BootAssumption DEF InfoType
      <4> QED
        BY <1>5, <4>1
    <3> QED
      BY <1>5, <3>1 DEF VmInit
  <2>2. /\ \A a \in HeapBytes .. ReuBytes - 1 : SeededRam[a] = reu[a]
        /\ \A a \in 0 .. HeapBytes - 1 : SeededRam[a] \in SeededByte(a)
    BY <1>1, <1>5, SeededHeap
  <2>3. NewLayout.globals \in Nat /\ DOMAIN SeededRam = 0 .. ReuBytes - 1
    BY <1>1, <1>3, <1>5, BelowGlobals, Domains
  <2>4. /\ \A a \in 0 .. ReuBytes - 1 : a < NewLayout.globals => reu'[a] = SeededRam[a]
        /\ \A d \in Domain : \A b \in {0, 1} :
             LET a == GlobalAt(NewLayout, d[1], d[2]) + b IN
             a \in 0 .. ReuBytes - 1 => reu'[a] = InitialGlobal(d[1], d[2])
    BY <1>3, <1>5, <2>1, <2>3, StoringGlobals
  <2>5. /\ NewLayout.globals \in 0 .. ReuBytes /\ NewLayout.spill \in 0 .. ReuBytes
        /\ NewLayout.slots \in 0 .. ReuBytes
    BY <1>1, <1>5, LayoutFits
  <2>6. LayoutBound'
    BY <2>1, <2>5 DEF LayoutBound, NewLayout
  <2>7. /\ HeapBytes \in Nat /\ HeapBytes <= NewLayout.globals
        /\ \A i \in {3, 4, 7} : /\ Spot(i) \in Nat /\ Size(i) \in Nat /\ HeapBytes <= Spot(i)
                                /\ Spot(i) + Size(i) <= NewLayout.globals
    BY <1>1, <1>5, BelowGlobals
  <2>8. ASSUME NEW i \in {3, 4, 7} PROVE Held(i)'
    <3>1. ASSUME NEW k \in 0 .. Size(i) - 1 PROVE reu'[Spot(i) + k] = FileByte(Offset(i) + k)
      <4>1. Spot(i) \in Nat /\ Size(i) \in Nat /\ HeapBytes <= Spot(i)
            /\ Spot(i) + Size(i) <= NewLayout.globals /\ NewLayout.globals <= ReuBytes
        BY <2>5, <2>7
      <4>2. Spot(i) + k \in HeapBytes .. ReuBytes - 1 /\ Spot(i) + k < NewLayout.globals
            /\ Spot(i) + k \in 0 .. ReuBytes - 1
        <5> DEFINE at == Spot(i)
                   size == Size(i)
                   first == NewLayout.globals
        <5>1. /\ at \in Nat /\ size \in Nat /\ HeapBytes <= at /\ at + size <= first /\ first <= ReuBytes
              /\ HeapBytes \in Nat /\ ReuBytes \in Nat /\ first \in Nat /\ k \in 0 .. size - 1
          BY <1>3, <2>3, <2>7, <3>1, <4>1
        <5> HIDE DEF at, size, first
        <5>2. at + k \in HeapBytes .. ReuBytes - 1 /\ at + k < first /\ at + k \in 0 .. ReuBytes - 1
          BY <5>1
        <5> QED
          BY <5>2 DEF at, first
      <4>3. reu'[Spot(i) + k] = reu[Spot(i) + k]
        BY <2>2, <2>4, <4>2
      <4>4. reu[Spot(i) + k] = FileByte(Offset(i) + k)
        <5>1. i \in Streamed /\ i \in 1 .. Count
          BY <1>2 DEF Streamed
        <5> QED
          BY <1>1, <1>2, <3>1, <5>1 DEF MemInv, Live, There
      <4> QED
        BY <4>3, <4>4
    <3> QED
      BY <1>1, <3>1, SameSeeds, SameDisk DEF Held
  <2>9. Domain' = Domain /\ Before' = Before
    BY <1>1, SameInfo
  <2>10. ASSUME stage' = "ready", NEW d \in Domain PROVE GlobalHeld(d)'
    <3>1. Nth(d) \in Nat /\ Nth(d) + 1 <= Before[ModuleCount + 1]
          /\ GlobalAt(NewLayout, d[1], d[2]) = NewLayout.globals + 2 * Nth(d)
      BY <1>3, <1>5, Numbering
    <3>2. Before[ModuleCount + 1] \in Nat
          /\ NewLayout.globals + 2 * Before[ModuleCount + 1] <= NewLayout.spill
      BY <1>1, <1>5, AreasInOrder
    <3> DEFINE at == GlobalAt(NewLayout, d[1], d[2])
    <3>3. at \in 0 .. ReuBytes - 1 /\ at + 1 \in 0 .. ReuBytes - 1 /\ at + 0 = at
      <4> DEFINE all == Before[ModuleCount + 1]
                 nth == Nth(d)
                 first == NewLayout.globals
                 spill == NewLayout.spill
      <4>1. /\ nth \in Nat /\ nth + 1 <= all /\ at = first + 2 * nth /\ all \in Nat
            /\ first + 2 * all <= spill /\ spill \in 0 .. ReuBytes /\ first \in Nat
        BY <2>3, <2>5, <3>1, <3>2
      <4> HIDE DEF all, nth, first, spill, at
      <4> QED
        BY <1>3, <4>1
    <3>4. reu'[at] = InitialGlobal(d[1], d[2]) /\ reu'[at + 1] = InitialGlobal(d[1], d[2])
      <4> HIDE DEF at
      <4>1. \A b \in {0, 1} : at + b \in 0 .. ReuBytes - 1 => reu'[at + b] = InitialGlobal(d[1], d[2])
        BY <2>4 DEF at
      <4>2. reu'[at + 0] = InitialGlobal(d[1], d[2]) /\ reu'[at + 1] = InitialGlobal(d[1], d[2])
        BY <3>3, <4>1
      <4> QED
        BY <3>3, <4>2
    <3>5. globals'[d] = InitialGlobal(d[1], d[2])
      BY <2>1
    <3>6. GlobalAt(layout, d[1], d[2])' = at
      BY <2>1, <2>9 DEF GlobalAt
    <3> QED
      BY <3>4, <3>5, <3>6 DEF GlobalHeld
  <2>11. ASSUME NEW a \in 0 .. HeapBytes - 1 PROVE reu'[a] \in SeededByte(a)'
    <3>1. a \in 0 .. ReuBytes - 1 /\ a < NewLayout.globals
      BY <1>3, <2>3, <2>5, <2>7
    <3>2. SeededByte(a)' = SeededByte(a)
      BY <1>1, SameSeeds
    <3> QED
      BY <2>2, <2>4, <3>1, <3>2
  <2>12. DOMAIN globals' = Domain'
    BY <2>1, <2>9
  <2> QED
    BY <2>6, <2>8, <2>9, <2>10, <2>11, <2>12 DEF RunMem
<1> QED
  BY <1>4, <1>5


\* What is written from the globals on leaves the heap, the code and the tables.
LEMMA StoreBeyond ==
  ASSUME LoadInv, Laid, MemInv, RunMem, stage = "ready",
         disk' = disk, board' = board, info' = info,
         \A a \in 0 .. ReuBytes - 1 : a < layout.globals => reu'[a] = reu[a],
         layout.globals <= ReuBytes
  PROVE  /\ \A i \in {3, 4, 7} : Held(i)'
         /\ \A a \in 0 .. HeapBytes - 1 : reu'[a] \in SeededByte(a)'
<1>1. Over /\ LayoutOk /\ layout = NewLayout /\ ReuBytes \in Nat
  BY BundleAssumption DEF Over, Laid
<1>2. /\ NewLayout.globals \in Nat /\ HeapBytes \in Nat /\ HeapBytes <= NewLayout.globals
      /\ \A i \in {3, 4, 7} : /\ Spot(i) \in Nat /\ Size(i) \in Nat /\ HeapBytes <= Spot(i)
                              /\ Spot(i) + Size(i) <= NewLayout.globals
  BY <1>1, BelowGlobals
<1>3. ASSUME NEW i \in {3, 4, 7} PROVE Held(i)'
  <2>1. ASSUME NEW k \in 0 .. Size(i) - 1 PROVE reu'[Spot(i) + k] = FileByte(Offset(i) + k)
    <3> DEFINE at == Spot(i)
               size == Size(i)
               first == layout.globals
    <3>1. /\ at \in Nat /\ size \in Nat /\ at + size <= first /\ first <= ReuBytes
          /\ ReuBytes \in Nat /\ first \in Nat /\ k \in 0 .. size - 1
      BY <1>1, <1>2, <2>1
    <3> HIDE DEF at, size, first
    <3>2. at + k < first /\ at + k \in 0 .. ReuBytes - 1
      BY <3>1
    <3>3. reu'[at + k] = reu[at + k]
      BY <3>2 DEF first
    <3>4. reu[at + k] = FileByte(Offset(i) + k)
      BY <2>1 DEF RunMem, Held, at
    <3> QED
      BY <3>3, <3>4 DEF at
  <2> QED
    BY <2>1, SameSeeds, SameDisk DEF Held
<1>4. ASSUME NEW a \in 0 .. HeapBytes - 1 PROVE reu'[a] \in SeededByte(a)'
  <2>1. a \in 0 .. ReuBytes - 1 /\ a < layout.globals
    BY <1>1, <1>2
  <2>2. reu[a] \in SeededByte(a) /\ SeededByte(a)' = SeededByte(a)
    BY SameSeeds DEF RunMem
  <2> QED
    BY <2>1, <2>2
<1> QED
  BY <1>3, <1>4

\* Where the globals lie in the layout of a machine that runs
LEMMA GlobalPlaces ==
  ASSUME LoadInv, Laid, stage = "ready", LayoutBound
  PROVE  /\ layout.globals \in Nat /\ layout.spill \in Nat /\ layout.slots \in Nat
         /\ layout.spill <= ReuBytes /\ layout.globals <= ReuBytes /\ layout.slots <= ReuBytes
         /\ layout.globals <= layout.spill /\ layout.spill <= layout.slots
         /\ \A d \in Domain : /\ GlobalAt(layout, d[1], d[2]) \in Nat /\ Nth(d) \in Nat
                              /\ GlobalAt(layout, d[1], d[2]) = layout.globals + 2 * Nth(d)
                              /\ GlobalAt(layout, d[1], d[2]) + 2 <= layout.spill
         /\ \A d \in Domain : \A e \in Domain : Nth(d) = Nth(e) => d = e
<1>1. Over /\ LayoutOk /\ layout = NewLayout /\ info \in InfoType /\ ReuBytes \in Nat
  BY BundleAssumption DEF Over, Laid, LoadInv, Types
<1>2. /\ \A d \in Domain : /\ Nth(d) \in Nat /\ Nth(d) + 1 <= Before[ModuleCount + 1]
                           /\ \A place : GlobalAt(place, d[1], d[2]) = place.globals + 2 * Nth(d)
      /\ \A d \in Domain : \A e \in Domain : Nth(d) = Nth(e) => d = e
  BY <1>1, Numbering
<1>3. /\ NewLayout.globals \in Nat /\ NewLayout.spill \in Nat /\ NewLayout.slots \in Nat
      /\ Before[ModuleCount + 1] \in Nat
      /\ NewLayout.globals + 2 * Before[ModuleCount + 1] <= NewLayout.spill
      /\ CallCap * LocalBytes \in Nat
      /\ NewLayout.spill + CallCap * LocalBytes <= NewLayout.slots
  BY <1>1, AreasInOrder
<1>4. /\ layout.spill <= ReuBytes /\ layout.globals <= ReuBytes /\ layout.slots <= ReuBytes
  BY <1>1 DEF LayoutBound
<1> DEFINE all == Before[ModuleCount + 1]
           first == layout.globals
           spill == layout.spill
           spilled == CallCap * LocalBytes
           slots == layout.slots
<1>5. /\ first \in Nat /\ spill \in Nat /\ slots \in Nat /\ all \in Nat /\ first + 2 * all <= spill
      /\ spilled \in Nat /\ spill + spilled <= slots
  BY <1>1, <1>3
<1>6. first <= spill /\ spill <= slots
  <2> HIDE DEF all, first, spill, spilled, slots
  <2> QED
    BY <1>5
<1>7. ASSUME NEW d \in Domain
      PROVE  /\ GlobalAt(layout, d[1], d[2]) \in Nat /\ Nth(d) \in Nat
             /\ GlobalAt(layout, d[1], d[2]) = layout.globals + 2 * Nth(d)
             /\ GlobalAt(layout, d[1], d[2]) + 2 <= layout.spill
  <2> DEFINE nth == Nth(d)
             at == GlobalAt(layout, d[1], d[2])
  <2>1. nth \in Nat /\ nth + 1 <= all /\ at = first + 2 * nth
    BY <1>2
  <2> HIDE DEF all, first, spill, nth, at
  <2>2. at \in Nat /\ at + 2 <= spill
    BY <1>5, <2>1
  <2> QED
    BY <2>1, <2>2 DEF first, spill, nth, at
<1> QED
  BY <1>2, <1>4, <1>5, <1>6, <1>7

\* A store among the globals changes one of them, in the REU and in the history.
LEMMA WriteGlobalMem ==
  ASSUME LoadInv, Laid, MemInv, RunMem, LayoutBound, NEW d \in Domain, WriteGlobal(d)
  PROVE  RunMem'
<1>1. /\ stage = "ready" /\ stage' = stage /\ disk' = disk /\ board' = board /\ info' = info
      /\ layout' = layout /\ globals' = [globals EXCEPT ![d] = Mark]
      /\ reu' = Written(reu, GlobalAt(layout, d[1], d[2]), <<Mark, Mark>>)
  BY DEF WriteGlobal, Store, WordStored
<1> DEFINE at == GlobalAt(layout, d[1], d[2])
<1>2. /\ layout.globals \in Nat /\ layout.globals <= ReuBytes /\ ReuBytes \in Nat
      /\ at \in Nat /\ at >= layout.globals /\ at + 2 <= ReuBytes
  <2>1. /\ layout.globals \in Nat /\ layout.spill \in Nat /\ Nth(d) \in Nat /\ layout.spill <= ReuBytes
        /\ at \in Nat /\ at = layout.globals + 2 * Nth(d) /\ at + 2 <= layout.spill
        /\ layout.globals <= ReuBytes /\ ReuBytes \in Nat
    BY <1>1, GlobalPlaces, BundleAssumption
  <2> HIDE DEF at
  <2> QED
    BY <2>1
<1>6. reu' = Written(reu, at, <<Mark, Mark>>)
  BY <1>1
<1> HIDE DEF at
<1>7. /\ \A a \in 0 .. ReuBytes - 1 : a < at \/ a >= at + 2 => reu'[a] = reu[a]
      /\ reu'[at] = Mark /\ reu'[at + 1] = Mark
  <2>1. DOMAIN reu = 0 .. ReuBytes - 1
    BY DEF MemInv
  <2> DEFINE mem == Written(reu, at, <<Mark, Mark>>)
  <2>2. /\ \A a \in 0 .. ReuBytes - 1 : a < at \/ a >= at + 2 => mem[a] = reu[a]
        /\ mem[at] = Mark /\ mem[at + 1] = Mark
    BY <1>2, <2>1, WordWritten
  <2> HIDE DEF mem
  <2> QED
    BY <1>6, <2>2 DEF mem
<1>8. \A a \in 0 .. ReuBytes - 1 : a < layout.globals => reu'[a] = reu[a]
  <2>1. \A a \in 0 .. ReuBytes - 1 : a < layout.globals => a < at
    BY <1>2
  <2> QED
    BY <1>7, <2>1
<1>9. /\ \A i \in {3, 4, 7} : Held(i)'
      /\ \A a \in 0 .. HeapBytes - 1 : reu'[a] \in SeededByte(a)'
  BY <1>1, <1>2, <1>8, StoreBeyond
<1>10. Domain' = Domain /\ Before' = Before
  BY <1>1, SameInfo
<1>11. DOMAIN globals = Domain /\ \A e \in Domain : GlobalHeld(e)
  BY <1>1 DEF RunMem
<1>12. ASSUME NEW e \in Domain PROVE GlobalHeld(e)'
  <2> DEFINE place == GlobalAt(layout, e[1], e[2])
  <2>1. GlobalAt(layout, e[1], e[2])' = place
    BY <1>1, <1>10 DEF GlobalAt
  <2>2. reu[place] = globals[e] /\ reu[place + 1] = globals[e]
    BY <1>11 DEF GlobalHeld
  <2>3. CASE e = d
    <3>1. place = at /\ globals'[e] = Mark
      BY <1>1, <1>11, <2>3 DEF at
    <3> QED
      BY <1>7, <2>1, <3>1 DEF GlobalHeld
  <2>4. CASE e # d
    <3>1. /\ place \in Nat /\ Nth(e) \in Nat /\ place = layout.globals + 2 * Nth(e)
          /\ place + 2 <= layout.spill /\ Nth(d) \in Nat /\ at = layout.globals + 2 * Nth(d)
          /\ Nth(d) # Nth(e) /\ layout.spill \in Nat /\ layout.spill <= ReuBytes
      BY <1>1, <2>4, GlobalPlaces DEF at
    <3>2. place + 2 <= at \/ at + 2 <= place
      <4> DEFINE n == Nth(d)
                 m == Nth(e)
                 first == layout.globals
      <4>1. n \in Nat /\ m \in Nat /\ n # m /\ first \in Nat /\ place = first + 2 * m /\ at = first + 2 * n
        BY <1>2, <3>1
      <4> HIDE DEF n, m, first, place
      <4> QED
        BY <4>1
    <3>3. place \in 0 .. ReuBytes - 1 /\ place + 1 \in 0 .. ReuBytes - 1
      <4> DEFINE spill == layout.spill
      <4>1. place \in Nat /\ place + 2 <= spill /\ spill \in Nat /\ spill <= ReuBytes /\ ReuBytes \in Nat
        BY <1>2, <3>1
      <4> HIDE DEF place, spill
      <4> QED
        BY <4>1
    <3>4. (place < at \/ place >= at + 2) /\ (place + 1 < at \/ place + 1 >= at + 2)
      <4>1. at \in Nat /\ place \in Nat
        BY <1>2, <3>1
      <4> HIDE DEF place
      <4> QED
        BY <3>2, <4>1
    <3>5. reu'[place] = reu[place] /\ reu'[place + 1] = reu[place + 1]
      BY <1>7, <3>3, <3>4
    <3>6. globals'[e] = globals[e]
      BY <1>1, <1>11, <2>4
    <3> QED
      BY <2>1, <2>2, <3>5, <3>6 DEF GlobalHeld
  <2> QED
    BY <2>3, <2>4
<1>13. DOMAIN globals' = Domain'
  BY <1>1, <1>10, <1>11
<1> QED
  BY <1>9, <1>10, <1>12, <1>13 DEF RunMem


\* A store behind the globals: the spilled locals or a snapshot.
LEMMA StoreBehind ==
  ASSUME LoadInv, Laid, MemInv, RunMem, LayoutBound, NEW at \in Nat, NEW n \in Nat,
         layout.spill <= at, Store(Written(reu, at, [k \in 1 .. n |-> Mark])), UNCHANGED globals
  PROVE  RunMem'
<1>1. /\ stage = "ready" /\ stage' = stage /\ disk' = disk /\ board' = board /\ info' = info
      /\ layout' = layout /\ globals' = globals
      /\ reu' = Written(reu, at, [k \in 1 .. n |-> Mark])
  BY DEF Store
<1>2. /\ layout.globals \in Nat /\ layout.spill \in Nat /\ layout.globals <= layout.spill
      /\ layout.globals <= ReuBytes /\ layout.spill <= ReuBytes /\ ReuBytes \in Nat
      /\ \A d \in Domain : /\ GlobalAt(layout, d[1], d[2]) \in Nat
                           /\ GlobalAt(layout, d[1], d[2]) + 2 <= layout.spill
  BY <1>1, GlobalPlaces, BundleAssumption
<1>3. \A a \in 0 .. ReuBytes - 1 : a < layout.spill => reu'[a] = reu[a]
  <2> DEFINE bytes == [k \in 1 .. n |-> Mark]
             mem == Written(reu, at, bytes)
  <2>1. DOMAIN bytes = 1 .. n /\ DOMAIN reu = 0 .. ReuBytes - 1 /\ ReuBytes \in Nat
    BY <1>2 DEF MemInv
  <2> HIDE DEF bytes
  <2>2. /\ DOMAIN mem = 0 .. ReuBytes - 1
        /\ \A a \in 0 .. ReuBytes - 1 : a < at \/ a >= at + n => mem[a] = reu[a]
        /\ \A k \in 0 .. n - 1 : at + k \in 0 .. ReuBytes - 1 => mem[at + k] = bytes[k + 1]
    <3>1. Stands(mem, reu, at, n, bytes)
      BY <2>1, Writing
    <3> QED
      BY <3>1 DEF Stands
  <2>3. reu' = mem
    BY <1>1 DEF bytes
  <2>4. \A a \in 0 .. ReuBytes - 1 : a < layout.spill => a < at
    BY <1>2
  <2> QED
    BY <2>2, <2>3, <2>4
<1>4. \A a \in 0 .. ReuBytes - 1 : a < layout.globals => reu'[a] = reu[a]
  <2>1. \A a \in 0 .. ReuBytes - 1 : a < layout.globals => a < layout.spill
    BY <1>2
  <2> QED
    BY <1>3, <2>1
<1>5. /\ \A i \in {3, 4, 7} : Held(i)'
      /\ \A a \in 0 .. HeapBytes - 1 : reu'[a] \in SeededByte(a)'
  BY <1>1, <1>2, <1>4, StoreBeyond
<1>6. Domain' = Domain /\ Before' = Before
  BY <1>1, SameInfo
<1>7. ASSUME NEW d \in Domain PROVE GlobalHeld(d)'
  <2> DEFINE place == GlobalAt(layout, d[1], d[2])
  <2>1. GlobalAt(layout, d[1], d[2])' = place
    BY <1>1, <1>6 DEF GlobalAt
  <2>2. place \in Nat /\ place + 2 <= layout.spill
    BY <1>2
  <2>3. reu[place] = globals[d] /\ reu[place + 1] = globals[d]
    BY <1>1 DEF RunMem, GlobalHeld
  <2> HIDE DEF place
  <2>4. /\ place \in 0 .. ReuBytes - 1 /\ place + 1 \in 0 .. ReuBytes - 1
        /\ place < layout.spill /\ place + 1 < layout.spill
    BY <1>2, <2>2
  <2>5. reu'[place] = reu[place] /\ reu'[place + 1] = reu[place + 1]
    BY <1>3, <2>4
  <2> QED
    BY <1>1, <2>1, <2>3, <2>5 DEF GlobalHeld
<1> QED
  BY <1>1, <1>5, <1>6, <1>7 DEF RunMem

\* Steps that change nothing of the REU and its areas.
LEMMA RunMemKept ==
  ASSUME RunMem, UNCHANGED <<disk, board, stage, reu, info, layout, globals>>
  PROVE  RunMem'
<1>1. Domain' = Domain /\ Before' = Before
  BY SameInfo
<1>2. \A i \in {3, 4, 7} : Held(i)' <=> Held(i)
  BY SameSeeds, SameDisk DEF Held
<1>3. \A d \in Domain : GlobalHeld(d)' <=> GlobalHeld(d)
  BY <1>1 DEF GlobalHeld, GlobalAt
<1>4. \A a : SeededByte(a)' = SeededByte(a)
  BY SameSeeds
<1> QED
  BY <1>1, <1>2, <1>3, <1>4 DEF RunMem

\* Every step of the machine keeps the code, the tables, the globals and what it
\* has not been told to change of the heap.
LEMMA RunMemSteps ==
  ASSUME Fits, LoadInv, Laid, MemInv, RunMem, LayoutBound, [Next]_vars
  PROVE  RunMem' /\ LayoutBound'
<1>1. CASE LoadNext /\ UNCHANGED runVars
  <2>1. stage' # "ready"
    BY <1>1 DEF LoadInv, LoadNext, ReadHeader, ReadEntry, SelfTest, OutOfOrder, SkipGap, BeginSection,
         NextSection, ReadRecord, StreamChunk, SkipSection, EndSection, EndOfSections, Fail
  <2>2. layout' = layout
    BY <1>1 DEF runVars
  <2> QED
    BY <2>1, <2>2 DEF RunMem, LayoutBound
<1>2. CASE VmInit
  BY <1>2, VmInitMem
<1>3. CASE \/ \E x \in 0 .. info.code - 1 : CodeByte(x)
           \/ DropCode
           \/ \E i \in 0 .. info.exports - 1 : ReadExport(i)
           \/ \E i \in 0 .. info.initializers - 1 : ReadInitializer(i)
           \/ \E d \in DOMAIN globals : ReadGlobal(d)
           \/ UNCHANGED vars
  <2>1. UNCHANGED <<disk, board, stage, reu, info, layout, globals>>
    BY <1>3 DEF CodeByte, DropCode, ReadExport, ReadInitializer, ReadGlobal, vars, loadVars, runVars
  <2> QED
    BY <2>1, RunMemKept DEF LayoutBound
<1>4. CASE \E d \in DOMAIN globals : WriteGlobal(d)
  <2>1. PICK d \in DOMAIN globals : WriteGlobal(d)
    BY <1>4
  <2>2. d \in Domain /\ layout' = layout
    BY <2>1 DEF RunMem, WriteGlobal, Store
  <2> QED
    BY <2>1, <2>2, WriteGlobalMem DEF LayoutBound
<1>5. CASE \E depth \in 0 .. CallCap - 1 : SpillLocals(depth)
  <2>1. PICK depth \in 0 .. CallCap - 1 : SpillLocals(depth)
    BY <1>5
  <2>2. layout.spill \in Nat /\ LocalBytes \in Nat /\ depth * LocalBytes \in Nat
    <3>1. stage = "ready"
      BY <2>1 DEF SpillLocals, Store
    <3> QED
      BY <3>1, GlobalPlaces, BootAssumption
  <2> DEFINE far == depth * LocalBytes
             at == layout.spill + far
  <2>3. at \in Nat /\ layout.spill <= at
    <3> HIDE DEF far
    <3> QED
      BY <2>2 DEF far
  <2>4. layout' = layout
    BY <2>1 DEF SpillLocals, Store
  <2> HIDE DEF at
  <2>5. Store(Written(reu, at, [k \in 1 .. LocalBytes |-> Mark])) /\ UNCHANGED globals
    BY <2>1 DEF SpillLocals, at
  <2> QED
    BY <2>2, <2>3, <2>4, <2>5, StoreBehind DEF LayoutBound
<1>6. CASE \E slot \in 0 .. SlotCap - 1 : StoreSnapshot(slot)
  <2>1. PICK slot \in 0 .. SlotCap - 1 : StoreSnapshot(slot)
    BY <1>6
  <2>2. /\ layout.slots \in Nat /\ layout.spill \in Nat /\ layout.spill <= layout.slots
        /\ SlotBytes \in Nat /\ slot * SlotBytes \in Nat
    <3>1. stage = "ready"
      BY <2>1 DEF StoreSnapshot, Store
    <3> QED
      BY <3>1, GlobalPlaces, BootAssumption
  <2> DEFINE far == slot * SlotBytes
             at == layout.slots + far
  <2>3. at \in Nat /\ layout.spill <= at
    <3> HIDE DEF far
    <3> QED
      BY <2>2 DEF far
  <2>4. layout' = layout
    BY <2>1 DEF StoreSnapshot, Store
  <2> HIDE DEF at
  <2>5. Store(Written(reu, at, [k \in 1 .. SlotBytes |-> Mark])) /\ UNCHANGED globals
    BY <2>1 DEF StoreSnapshot, at
  <2> QED
    BY <2>2, <2>3, <2>4, <2>5, StoreBehind DEF LayoutBound
<1> QED
  BY <1>1, <1>2, <1>3, <1>4, <1>5, <1>6 DEF Next, Load, Run

\* What a running machine finds in the REU is true throughout, if it is large enough.
LEMMA Running ==
  ASSUME Fits
  PROVE  Spec => [](RunMem /\ LayoutBound)
<1>1. Init => RunMem /\ LayoutBound
  <2>1. ReuBytes \in Nat
    BY BundleAssumption
  <2> QED
    BY <2>1 DEF Init, LoadInit, RunMem, LayoutBound
<1>2. LoadInv /\ Laid /\ MemInv /\ RunMem /\ LayoutBound /\ [Next]_vars => RunMem' /\ LayoutBound'
  BY RunMemSteps
<1> QED
  BY <1>1, <1>2, Loading, AlwaysLaid, MemoryTrue, PTL DEF Spec

\* HeapAsSeeded: for every bundle that fits in the REU, the machine starts on the
\* RAM of the image, the two sentinels and what seed_initial_ram left, and nothing
\* that it writes outside the heap afterwards reaches into it.
THEOREM HeapStaysSeeded ==
  ASSUME Fits
  PROVE  Spec => []HeapAsSeeded
<1>1. RunMem => HeapAsSeeded
  BY DEF RunMem, HeapAsSeeded, SeededByte
<1> QED
  BY <1>1, Running, PTL


-----------------------------------------------------------------------------
(* The caches of a machine that runs.                                       *)

\* A valid slot of the code page cache holds the bytes of the file, as far as the code goes.
SlotTrue(s) ==
  code[s].valid =>
    /\ stage = "ready" /\ code[s].base \in Nat /\ Len(code[s].bytes) = PageBytes
    /\ \A k \in 1 .. PageBytes :
         code[s].base + (k - 1) < Size(7) =>
           code[s].bytes[k] = FileByte(Offset(7) + (code[s].base + (k - 1)))

\* Record n of section i, whose records have `size` bytes
RecordOf(i, n, size) == [k \in 1 .. size |-> FileByte(Offset(i) + (n * size + (k - 1)))]

\* A valid entry of the other two caches holds the record of the file.
ExportTrue(e) ==
  exports[e].valid =>
    /\ stage = "ready" /\ exports[e].index \in Nat /\ exports[e].index < info.exports
    /\ exports[e].record = RecordOf(3, exports[e].index, ExportBytes)

InitializerTrue(e) ==
  initializers[e].valid =>
    /\ stage = "ready" /\ initializers[e].index \in Nat /\ initializers[e].index < info.initializers
    /\ initializers[e].record = RecordOf(4, initializers[e].index, InitializerBytes)

Caches ==
  /\ current \in {0, 1} /\ DOMAIN code = {0, 1} /\ \A s \in {0, 1} : SlotTrue(s)
  /\ DOMAIN exports = 0 .. ExportEntries - 1
  /\ \A e \in 0 .. ExportEntries - 1 : ExportTrue(e)
  /\ DOMAIN initializers = 0 .. InitializerEntries - 1
  /\ \A e \in 0 .. InitializerEntries - 1 : InitializerTrue(e)
  /\ stage # "ready" => out.what = "none"

\* What is read from the REU into a slot is what SlotTrue asks for.
LEMMA PageFetched ==
  ASSUME LoadInv, Laid, RunMem, stage = "ready", NEW base \in Nat
  PROVE  /\ Len(Fetched(HeapBytes + base, PageBytes)) = PageBytes
         /\ \A k \in 1 .. PageBytes :
              base + (k - 1) < Size(7) =>
                Fetched(HeapBytes + base, PageBytes)[k] = FileByte(Offset(7) + (base + (k - 1)))
<1>1. Over /\ LayoutOk
  BY DEF Over, Laid
<1>2. HeapBytes \in Nat /\ Size(7) \in Nat /\ Spot(7) = HeapBytes /\ PageBytes \in Nat
  BY <1>1, BelowGlobals, BootAssumption DEF Spot
<1> DEFINE page == Fetched(HeapBytes + base, PageBytes)
           at == HeapBytes + base
<1>3. page = [k \in 1 .. PageBytes |-> reu[at + k - 1]]
  BY DEF Fetched
<1>4. at \in Nat
  BY <1>2
<1> HIDE DEF page
<1>5. Len(page) = PageBytes
  BY <1>2, <1>3
<1>6. ASSUME NEW k \in 1 .. PageBytes, base + (k - 1) < Size(7)
      PROVE  page[k] = FileByte(Offset(7) + (base + (k - 1)))
  <2>1. at + k - 1 = Spot(7) + (base + (k - 1))
    BY <1>2, <1>6
  <2>2. base + (k - 1) \in 0 .. Size(7) - 1
    BY <1>2, <1>6
  <2>3. reu[Spot(7) + (base + (k - 1))] = FileByte(Offset(7) + (base + (k - 1)))
    BY <2>2 DEF RunMem, Held
  <2>4. page[k] = reu[at + k - 1]
    BY <1>3, <1>6
  <2> QED
    BY <2>1, <2>3, <2>4
<1> QED
  BY <1>5, <1>6 DEF page

\* A record that is read from the REU is that of the file.
LEMMA RecordFetched ==
  ASSUME LoadInv, Laid, RunMem, stage = "ready", NEW i \in {3, 4}, NEW size \in Nat \ {0},
         NEW count \in Nat, count * size = Size(i), NEW n \in Nat, n < count
  PROVE  Fetched(Spot(i) + n * size, size) = RecordOf(i, n, size)
<1>1. Over /\ LayoutOk
  BY DEF Over, Laid
<1>2. Spot(i) \in Nat /\ Size(i) \in Nat
  BY <1>1, BelowGlobals
<1>3. n * size \in Nat /\ n * size + size <= Size(i)
  <2>1. size * n \in Nat /\ size * n + size <= size * count
    BY MultiplesApart
  <2>2. size * n = n * size /\ size * count = count * size
    OBVIOUS
  <2> QED
    BY <2>1, <2>2
<1> DEFINE far == n * size
           at == Spot(i) + far
<1>4. far \in Nat /\ far + size <= Size(i)
  BY <1>3
<1> HIDE DEF far
<1>5. ASSUME NEW k \in 1 .. size
      PROVE  reu[at + k - 1] = FileByte(Offset(i) + (far + (k - 1)))
  <2>1. at + k - 1 = Spot(i) + (far + (k - 1))
    BY <1>2, <1>4
  <2>2. far + (k - 1) \in 0 .. Size(i) - 1
    BY <1>2, <1>4
  <2>3. reu[Spot(i) + (far + (k - 1))] = FileByte(Offset(i) + (far + (k - 1)))
    BY <2>2 DEF RunMem, Held
  <2> QED
    BY <2>1, <2>3
<1> QED
  BY <1>5 DEF Fetched, RecordOf, far

\* Every entry holds on if nothing of the loader changes.
LEMMA SameCaches ==
  ASSUME UNCHANGED <<disk, stage, info>>
  PROVE  /\ \A s : code'[s] = code[s] => (SlotTrue(s)' <=> SlotTrue(s))
         /\ \A e : exports'[e] = exports[e] => (ExportTrue(e)' <=> ExportTrue(e))
         /\ \A e : initializers'[e] = initializers[e] => (InitializerTrue(e)' <=> InitializerTrue(e))
<1>1. \A i : \A n : \A size : RecordOf(i, n, size)' = RecordOf(i, n, size)
  BY SameDisk DEF RecordOf
<1>2. \A s : code'[s] = code[s] => (SlotTrue(s)' <=> SlotTrue(s))
  BY SameDisk DEF SlotTrue
<1>3. \A e : exports'[e] = exports[e] => (ExportTrue(e)' <=> ExportTrue(e))
  BY <1>1 DEF ExportTrue
<1>4. \A e : initializers'[e] = initializers[e] => (InitializerTrue(e)' <=> InitializerTrue(e))
  BY <1>1 DEF InitializerTrue
<1> QED
  BY <1>2, <1>3, <1>4


\* A read of code gets the byte of the file, and leaves the caches true.
LEMMA CodeByteTrue ==
  ASSUME LoadInv, Laid, RunMem, Caches, NEW x \in 0 .. info.code - 1, CodeByte(x)
  PROVE  Caches' /\ out'.got = <<SectionByte("code", x)>>
<1> DEFINE base == PageOf(x)
           other == 1 - current
           load == IF code[current].valid THEN other ELSE current
           at == IF Holds(current, base) THEN current ELSE IF Holds(other, base) THEN other ELSE load
           full == [valid |-> TRUE, base |-> base, bytes |-> Fetched(HeapBytes + base, PageBytes)]
<1>1. /\ stage = "ready" /\ disk' = disk /\ stage' = stage /\ info' = info
      /\ exports' = exports /\ initializers' = initializers
      /\ code' = IF Holds(at, base) THEN code ELSE [code EXCEPT ![at] = full]
      /\ current' = at
      /\ out'.got = <<code'[at].bytes[x - base + 1]>>
  BY DEF CodeByte, loadVars
<1>2. current \in {0, 1} /\ DOMAIN code = {0, 1} /\ \A s \in {0, 1} : SlotTrue(s)
  BY DEF Caches
<1>3. at \in {0, 1}
  <2>1. other \in {0, 1}
    BY <1>2
  <2> QED
    BY <1>2, <2>1
<1>4. x \in Nat /\ base \in Nat /\ base <= x /\ x < base + PageBytes /\ PageBytes \in Nat \ {0}
  <2>1. x \in Nat /\ PageBytes \in Nat \ {0}
    BY BootAssumption
  <2> QED
    BY <2>1, Quotients DEF PageOf
<1>5. info.code = Size(7) /\ Size(7) \in Nat /\ 7 \in 1 .. Count /\ disk \in Disks
  <2>1. Over /\ LayoutOk
    BY <1>1 DEF Over, Laid
  <2> QED
    BY <2>1, AreasInOrder, AllRead
<1> HIDE DEF at, full, base
<1>6. /\ full.valid /\ full.base = base /\ Len(full.bytes) = PageBytes
      /\ \A k \in 1 .. PageBytes :
           base + (k - 1) < Size(7) => full.bytes[k] = FileByte(Offset(7) + (base + (k - 1)))
  BY <1>1, <1>4, PageFetched DEF full
<1>7. /\ code'[at].valid /\ code'[at].base = base /\ Len(code'[at].bytes) = PageBytes
      /\ \A k \in 1 .. PageBytes :
           base + (k - 1) < Size(7) => code'[at].bytes[k] = FileByte(Offset(7) + (base + (k - 1)))
  <2>1. CASE Holds(at, base)
    <3>1. code' = code /\ code[at].valid /\ code[at].base = base
      BY <1>1, <2>1 DEF Holds
    <3>2. SlotTrue(at)
      BY <1>2, <1>3
    <3> QED
      BY <3>1, <3>2 DEF SlotTrue
  <2>2. CASE ~ Holds(at, base)
    <3>1. code'[at] = full
      BY <1>1, <1>2, <1>3, <2>2
    <3> QED
      BY <1>6, <3>1
  <2> QED
    BY <2>1, <2>2
<1>8. DOMAIN code' = {0, 1} /\ \A s \in {0, 1} : s # at => code'[s] = code[s]
  <2>1. CASE Holds(at, base)
    BY <1>1, <1>2, <2>1
  <2>2. CASE ~ Holds(at, base)
    BY <1>1, <1>2, <2>2
  <2> QED
    BY <2>1, <2>2
<1>9. \A s \in {0, 1} : SlotTrue(s)'
  <2>1. ASSUME NEW s \in {0, 1}, s # at PROVE SlotTrue(s)'
    <3>1. code'[s] = code[s] /\ SlotTrue(s)
      BY <1>2, <1>8, <2>1
    <3> QED
      BY <1>1, <3>1, SameCaches
  <2>2. ASSUME NEW s \in {0, 1}, s = at PROVE SlotTrue(s)'
    <3>1. \A k : FileByte(k)' = FileByte(k)
      BY <1>1, SameDisk
    <3>2. Size(7)' = Size(7) /\ Offset(7)' = Offset(7)
      BY <1>1, SameDisk
    <3> QED
      BY <1>1, <1>4, <1>7, <2>2, <3>1, <3>2 DEF SlotTrue
  <2> QED
    BY <2>1, <2>2
<1>10. Caches'
  <2>1. /\ \A e \in 0 .. ExportEntries - 1 : ExportTrue(e)'
        /\ \A e \in 0 .. InitializerEntries - 1 : InitializerTrue(e)'
    BY <1>1, SameCaches DEF Caches
  <2> QED
    BY <1>1, <1>3, <1>8, <1>9, <2>1 DEF Caches
<1>11. out'.got = <<SectionByte("code", x)>>
  <2> DEFINE k == x - base + 1
  <2>1. k \in 1 .. PageBytes /\ base + (k - 1) = x /\ x < Size(7)
    BY <1>4, <1>5
  <2> HIDE DEF k
  <2>2. code'[at].bytes[k] = FileByte(Offset(7) + x)
    BY <1>7, <2>1
  <2>3. SectionByte("code", x) = FileByte(Offset(7) + x)
    BY <1>5, SectionBytes, KindIs
  <2>4. out'.got = <<code'[at].bytes[k]>>
    BY <1>1 DEF k
  <2> QED
    BY <2>2, <2>3, <2>4
<1> QED
  BY <1>10, <1>11

\* An index of a direct-mapped cache is one of its entries.
LEMMA EntryNumber ==
  ASSUME NEW i \in Nat, NEW n \in Nat \ {0}
  PROVE  i % n \in 0 .. n - 1
OBVIOUS

\* A read of an export gets its record.
LEMMA ReadExportTrue ==
  ASSUME LoadInv, Laid, RunMem, Caches, NEW i \in 0 .. info.exports - 1, ReadExport(i)
  PROVE  Caches' /\ out'.got = RecordOf(3, i, ExportBytes)
<1> DEFINE at == i % ExportEntries
           entered == Looked(exports, at, i, info.exports_at, ExportBytes)
<1>1. /\ stage = "ready" /\ disk' = disk /\ stage' = stage /\ info' = info
      /\ code' = code /\ current' = current /\ initializers' = initializers
      /\ exports' = [exports EXCEPT ![at] = entered] /\ out'.got = exports'[at].record
  BY DEF ReadExport, loadVars
<1>2. /\ info.exports \in Nat /\ info.exports * ExportBytes = Size(3)
      /\ info.exports_at = Spot(3) /\ ExportBytes \in Nat \ {0} /\ i \in Nat /\ i < info.exports
  <2>1. Over /\ LayoutOk /\ info \in InfoType
    BY <1>1 DEF Over, Laid, LoadInv, Types
  <2>2. info.exports \in Nat /\ Spot(3) = ExportsSpot
    BY <2>1 DEF InfoType, Spot
  <2> QED
    BY <2>1, <2>2, AreasInOrder, PackAssumption
<1>3. at \in 0 .. ExportEntries - 1
  BY <1>2, BootAssumption, EntryNumber
<1>4. DOMAIN exports = 0 .. ExportEntries - 1 /\ \A e \in 0 .. ExportEntries - 1 : ExportTrue(e)
  BY DEF Caches
<1> HIDE DEF at
<1>5. entered.valid /\ entered.index = i /\ entered.record = RecordOf(3, i, ExportBytes)
  <2>1. CASE exports[at].valid /\ exports[at].index = i
    <3>1. entered = exports[at] /\ ExportTrue(at)
      BY <1>3, <1>4, <2>1 DEF Looked
    <3> QED
      BY <2>1, <3>1 DEF ExportTrue
  <2>2. CASE ~ (exports[at].valid /\ exports[at].index = i)
    <3>1. entered = [valid |-> TRUE, index |-> i, record |-> Fetched(info.exports_at + i * ExportBytes, ExportBytes)]
      BY <2>2 DEF Looked
    <3>2. Fetched(Spot(3) + i * ExportBytes, ExportBytes) = RecordOf(3, i, ExportBytes)
      BY <1>1, <1>2, RecordFetched
    <3> QED
      BY <1>2, <3>1, <3>2
  <2> QED
    BY <2>1, <2>2
<1> HIDE DEF entered
<1>6. /\ DOMAIN exports' = 0 .. ExportEntries - 1 /\ exports'[at] = entered
      /\ \A e \in 0 .. ExportEntries - 1 : e # at => exports'[e] = exports[e]
  BY <1>1, <1>3, <1>4
<1>7. ASSUME NEW e \in 0 .. ExportEntries - 1 PROVE ExportTrue(e)'
  <2>1. CASE e # at
    <3>1. exports'[e] = exports[e] /\ ExportTrue(e)
      BY <1>4, <1>6, <2>1
    <3> QED
      BY <1>1, <3>1, SameCaches
  <2>2. CASE e = at
    <3>1. \A j : \A n : \A size : RecordOf(j, n, size)' = RecordOf(j, n, size)
      BY <1>1, SameDisk DEF RecordOf
    <3>2. RecordOf(3, i, ExportBytes)' = RecordOf(3, i, ExportBytes)
      BY <3>1
    <3>3. exports'[e] = entered
      BY <1>6, <2>2
    <3>4. /\ stage' = "ready" /\ exports'[e].index = i /\ i < info'.exports /\ i \in Nat
          /\ exports'[e].record = RecordOf(3, i, ExportBytes)
      BY <1>1, <1>2, <1>5, <3>3
    <3>5. RecordOf(3, exports[e].index, ExportBytes)' = RecordOf(3, i, ExportBytes)
      BY <1>1, <3>4, SameDisk DEF RecordOf
    <3> QED
      BY <3>4, <3>5 DEF ExportTrue
  <2> QED
    BY <2>1, <2>2
<1>8. /\ \A s \in {0, 1} : SlotTrue(s)'
      /\ \A e \in 0 .. InitializerEntries - 1 : InitializerTrue(e)'
  BY <1>1, SameCaches DEF Caches
<1> QED
  BY <1>1, <1>5, <1>6, <1>7, <1>8 DEF Caches

\* A read of an initializer gets its record.
LEMMA ReadInitializerTrue ==
  ASSUME LoadInv, Laid, RunMem, Caches, NEW i \in 0 .. info.initializers - 1, ReadInitializer(i)
  PROVE  Caches' /\ out'.got = RecordOf(4, i, InitializerBytes)
<1> DEFINE at == i % InitializerEntries
           entered == Looked(initializers, at, i, info.initializers_at, InitializerBytes)
<1>1. /\ stage = "ready" /\ disk' = disk /\ stage' = stage /\ info' = info
      /\ code' = code /\ current' = current /\ exports' = exports
      /\ initializers' = [initializers EXCEPT ![at] = entered] /\ out'.got = initializers'[at].record
  BY DEF ReadInitializer, loadVars
<1>2. /\ info.initializers \in Nat /\ info.initializers * InitializerBytes = Size(4)
      /\ info.initializers_at = Spot(4) /\ InitializerBytes \in Nat \ {0}
      /\ i \in Nat /\ i < info.initializers
  <2>1. Over /\ LayoutOk /\ info \in InfoType
    BY <1>1 DEF Over, Laid, LoadInv, Types
  <2>2. info.initializers \in Nat /\ Spot(4) = InitializersSpot
    BY <2>1 DEF InfoType, Spot
  <2> QED
    BY <2>1, <2>2, AreasInOrder, PackAssumption
<1>3. at \in 0 .. InitializerEntries - 1
  BY <1>2, BootAssumption, EntryNumber
<1>4. /\ DOMAIN initializers = 0 .. InitializerEntries - 1
      /\ \A e \in 0 .. InitializerEntries - 1 : InitializerTrue(e)
  BY DEF Caches
<1> HIDE DEF at
<1>5. entered.valid /\ entered.index = i /\ entered.record = RecordOf(4, i, InitializerBytes)
  <2>1. CASE initializers[at].valid /\ initializers[at].index = i
    <3>1. entered = initializers[at] /\ InitializerTrue(at)
      BY <1>3, <1>4, <2>1 DEF Looked
    <3> QED
      BY <2>1, <3>1 DEF InitializerTrue
  <2>2. CASE ~ (initializers[at].valid /\ initializers[at].index = i)
    <3>1. entered = [valid |-> TRUE, index |-> i,
                     record |-> Fetched(info.initializers_at + i * InitializerBytes, InitializerBytes)]
      BY <2>2 DEF Looked
    <3>2. Fetched(Spot(4) + i * InitializerBytes, InitializerBytes) = RecordOf(4, i, InitializerBytes)
      BY <1>1, <1>2, RecordFetched
    <3> QED
      BY <1>2, <3>1, <3>2
  <2> QED
    BY <2>1, <2>2
<1> HIDE DEF entered
<1>6. /\ DOMAIN initializers' = 0 .. InitializerEntries - 1 /\ initializers'[at] = entered
      /\ \A e \in 0 .. InitializerEntries - 1 : e # at => initializers'[e] = initializers[e]
  BY <1>1, <1>3, <1>4
<1>7. ASSUME NEW e \in 0 .. InitializerEntries - 1 PROVE InitializerTrue(e)'
  <2>1. CASE e # at
    <3>1. initializers'[e] = initializers[e] /\ InitializerTrue(e)
      BY <1>4, <1>6, <2>1
    <3> QED
      BY <1>1, <3>1, SameCaches
  <2>2. CASE e = at
    <3>1. initializers'[e] = entered
      BY <1>6, <2>2
    <3>2. /\ stage' = "ready" /\ initializers'[e].index = i /\ i < info'.initializers /\ i \in Nat
          /\ initializers'[e].record = RecordOf(4, i, InitializerBytes)
      BY <1>1, <1>2, <1>5, <3>1
    <3>3. RecordOf(4, initializers[e].index, InitializerBytes)' = RecordOf(4, i, InitializerBytes)
      BY <1>1, <3>2, SameDisk DEF RecordOf
    <3> QED
      BY <3>2, <3>3 DEF InitializerTrue
  <2> QED
    BY <2>1, <2>2
<1>8. /\ \A s \in {0, 1} : SlotTrue(s)'
      /\ \A e \in 0 .. ExportEntries - 1 : ExportTrue(e)'
  BY <1>1, SameCaches DEF Caches
<1> QED
  BY <1>1, <1>5, <1>6, <1>7, <1>8 DEF Caches


\* What ReadsTrue says of a step
AnswerTrue ==
  /\ out'.what = "code" => out'.got = <<SectionByte("code", out'.at)>>
  /\ out'.what = "exports" =>
       out'.got = [k \in 1 .. ExportBytes |->
                     SectionByte("exports", out'.at * ExportBytes + k - 1)]
  /\ out'.what = "initializers" =>
       out'.got = [k \in 1 .. InitializerBytes |->
                     SectionByte("initializers", out'.at * InitializerBytes + k - 1)]
  /\ out'.what = "global" => out'.got = <<globals[out'.at], globals[out'.at]>>

\* A read of a global gets what was last stored there.
LEMMA ReadGlobalTrue ==
  ASSUME LoadInv, Laid, LayoutBound, RunMem, NEW d \in DOMAIN globals, ReadGlobal(d)
  PROVE  out'.got = <<globals[d], globals[d]>>
<1> DEFINE at == GlobalAt(layout, d[1], d[2])
<1>1. /\ stage = "ready" /\ out'.got = Fetched(at, 2)
  BY DEF ReadGlobal
<1>2. reu[at] = globals[d] /\ reu[at + 1] = globals[d] /\ at \in Nat
  <2>1. d \in Domain /\ GlobalHeld(d)
    BY <1>1 DEF RunMem
  <2> QED
    BY <1>1, <2>1, GlobalPlaces DEF GlobalHeld
<1> QED
  BY <1>1, <1>2 DEF Fetched

\* A step that is no read of code or of a table keeps the caches or empties them.
LEMMA OtherSteps ==
  ASSUME Caches,
         \/ LoadNext /\ UNCHANGED runVars
         \/ VmInit
         \/ DropCode
         \/ \E d \in DOMAIN globals : ReadGlobal(d) \/ WriteGlobal(d)
         \/ \E depth \in 0 .. CallCap - 1 : SpillLocals(depth)
         \/ \E slot \in 0 .. SlotCap - 1 : StoreSnapshot(slot)
         \/ UNCHANGED vars
  PROVE  Caches'
<1>1. CASE stage # "ready"
  <2>1. /\ UNCHANGED <<code, current, exports, initializers, out>>
    BY <1>1 DEF VmInit, DropCode, ReadGlobal, WriteGlobal, SpillLocals, StoreSnapshot, Store,
         runVars, vars
  <2>2. /\ \A s \in {0, 1} : ~ code[s].valid
        /\ \A e \in 0 .. ExportEntries - 1 : ~ exports[e].valid
        /\ \A e \in 0 .. InitializerEntries - 1 : ~ initializers[e].valid
    BY <1>1 DEF Caches, SlotTrue, ExportTrue, InitializerTrue
  <2>3. /\ \A s \in {0, 1} : SlotTrue(s)'
        /\ \A e \in 0 .. ExportEntries - 1 : ExportTrue(e)'
        /\ \A e \in 0 .. InitializerEntries - 1 : InitializerTrue(e)'
    BY <2>1, <2>2 DEF SlotTrue, ExportTrue, InitializerTrue
  <2> QED
    BY <1>1, <2>1, <2>3 DEF Caches
<1>2. CASE stage = "ready"
  <2>1. \/ DropCode
        \/ \E d \in DOMAIN globals : ReadGlobal(d) \/ WriteGlobal(d)
        \/ \E depth \in 0 .. CallCap - 1 : SpillLocals(depth)
        \/ \E slot \in 0 .. SlotCap - 1 : StoreSnapshot(slot)
        \/ UNCHANGED vars
    BY <1>2 DEF VmInit, LoadNext, ReadHeader, ReadEntry, SelfTest, OutOfOrder, SkipGap, BeginSection,
         ReadRecord, StreamChunk, SkipSection, EndSection, EndOfSections
  <2>2. UNCHANGED <<disk, stage, info, exports, initializers>>
    BY <2>1 DEF DropCode, ReadGlobal, WriteGlobal, SpillLocals, StoreSnapshot, Store, loadVars,
         runVars, vars
  <2>3. /\ \A e \in 0 .. ExportEntries - 1 : ExportTrue(e)'
        /\ \A e \in 0 .. InitializerEntries - 1 : InitializerTrue(e)'
    BY <2>2, SameCaches DEF Caches
  <2>4. CASE DropCode
    <3>1. current' = 0 /\ code' = [s \in {0, 1} |-> EmptySlot]
      BY <2>4 DEF DropCode
    <3>2. \A s \in {0, 1} : SlotTrue(s)'
      BY <3>1 DEF SlotTrue, EmptySlot
    <3> QED
      BY <1>2, <2>2, <2>3, <3>1, <3>2 DEF Caches
  <2>5. CASE ~ DropCode
    <3>1. code' = code /\ current' = current
      BY <2>1, <2>5 DEF ReadGlobal, WriteGlobal, SpillLocals, StoreSnapshot, Store, runVars, vars
    <3>2. \A s \in {0, 1} : SlotTrue(s)'
      BY <2>2, <3>1, SameCaches DEF Caches
    <3> QED
      BY <1>2, <2>2, <2>3, <3>1, <3>2 DEF Caches
  <2> QED
    BY <2>4, <2>5
<1> QED
  BY <1>1, <1>2

\* Every step keeps the caches true, and what a step reads is true.
LEMMA CacheSteps ==
  ASSUME LoadInv, Laid, RunMem, LayoutBound, Caches, [Next]_vars
  PROVE  Caches' /\ [AnswerTrue]_vars
<1>1. ASSUME NEW x \in 0 .. info.code - 1, CodeByte(x) PROVE Caches' /\ AnswerTrue
  <2>1. Caches' /\ out'.got = <<SectionByte("code", x)>>
    BY <1>1, CodeByteTrue
  <2>2. out'.what = "code" /\ out'.at = x
    BY <1>1 DEF CodeByte
  <2> QED
    BY <2>1, <2>2 DEF AnswerTrue
<1>2. stage = "ready" => disk \in Disks /\ 3 \in 1 .. Count /\ 4 \in 1 .. Count
  BY AllRead DEF Over
<1>3. ASSUME NEW i \in 0 .. info.exports - 1, ReadExport(i) PROVE Caches' /\ AnswerTrue
  <2>1. Caches' /\ out'.got = RecordOf(3, i, ExportBytes)
    BY <1>3, ReadExportTrue
  <2>2. out'.what = "exports" /\ out'.at = i /\ stage = "ready"
    BY <1>3 DEF ReadExport
  <2>3. \A k : SectionByte("exports", k) = FileByte(Offset(3) + k)
    BY <1>2, <2>2, SectionBytes, KindIs
  <2>4. RecordOf(3, i, ExportBytes)
        = [k \in 1 .. ExportBytes |-> SectionByte("exports", i * ExportBytes + (k - 1))]
    BY <2>3 DEF RecordOf
  <2>5. ExportBytes \in Nat /\ i \in Nat /\ i * ExportBytes \in Nat
    BY PackAssumption
  <2> DEFINE far == i * ExportBytes
  <2> HIDE DEF far
  <2>6. \A k \in 1 .. ExportBytes : far + (k - 1) = far + k - 1
    BY <2>5 DEF far
  <2>7. out'.got = [k \in 1 .. ExportBytes |-> SectionByte("exports", i * ExportBytes + k - 1)]
    BY <2>1, <2>4, <2>6 DEF far
  <2> QED
    BY <2>1, <2>2, <2>7 DEF AnswerTrue
<1>4. ASSUME NEW i \in 0 .. info.initializers - 1, ReadInitializer(i) PROVE Caches' /\ AnswerTrue
  <2>1. Caches' /\ out'.got = RecordOf(4, i, InitializerBytes)
    BY <1>4, ReadInitializerTrue
  <2>2. out'.what = "initializers" /\ out'.at = i /\ stage = "ready"
    BY <1>4 DEF ReadInitializer
  <2>3. \A k : SectionByte("initializers", k) = FileByte(Offset(4) + k)
    BY <1>2, <2>2, SectionBytes, KindIs
  <2>4. RecordOf(4, i, InitializerBytes)
        = [k \in 1 .. InitializerBytes |-> SectionByte("initializers", i * InitializerBytes + (k - 1))]
    BY <2>3 DEF RecordOf
  <2>5. InitializerBytes \in Nat /\ i \in Nat /\ i * InitializerBytes \in Nat
    BY PackAssumption
  <2> DEFINE far == i * InitializerBytes
  <2> HIDE DEF far
  <2>6. \A k \in 1 .. InitializerBytes : far + (k - 1) = far + k - 1
    BY <2>5 DEF far
  <2>7. out'.got = [k \in 1 .. InitializerBytes |->
                      SectionByte("initializers", i * InitializerBytes + k - 1)]
    BY <2>1, <2>4, <2>6 DEF far
  <2> QED
    BY <2>1, <2>2, <2>7 DEF AnswerTrue
<1>5. ASSUME NEW d \in DOMAIN globals, ReadGlobal(d) PROVE Caches' /\ AnswerTrue
  <2>1. out'.got = <<globals[d], globals[d]>> /\ out'.what = "global" /\ out'.at = d
    BY <1>5, ReadGlobalTrue DEF ReadGlobal
  <2> QED
    BY <1>5, <2>1, OtherSteps DEF AnswerTrue
<1>6. CASE \/ DropCode
           \/ \E d \in DOMAIN globals : WriteGlobal(d)
           \/ \E depth \in 0 .. CallCap - 1 : SpillLocals(depth)
           \/ \E slot \in 0 .. SlotCap - 1 : StoreSnapshot(slot)
  <2>1. out' = NoAnswer
    BY <1>6 DEF DropCode, WriteGlobal, SpillLocals, StoreSnapshot, Store
  <2> QED
    BY <1>6, <2>1, OtherSteps DEF AnswerTrue, NoAnswer
<1>7. CASE Load
  <2>1. out' = out /\ stage # "ready"
    BY <1>7 DEF Load, VmInit, LoadNext, ReadHeader, ReadEntry, SelfTest, OutOfOrder, SkipGap,
         BeginSection, ReadRecord, StreamChunk, SkipSection, EndSection, EndOfSections, runVars
  <2>2. out'.what = "none"
    BY <2>1 DEF Caches
  <2> QED
    BY <1>7, <2>2, OtherSteps DEF AnswerTrue, Load
<1>8. CASE UNCHANGED vars
  BY <1>8, OtherSteps
<1> QED
  BY <1>1, <1>3, <1>4, <1>5, <1>6, <1>7, <1>8 DEF Next, Run

\* At the start the caches are empty.
LEMMA CachesStart ==
  ASSUME Init
  PROVE  Caches
<1>1. /\ code = [s \in {0, 1} |-> EmptySlot] /\ current = 0 /\ out = NoAnswer
      /\ exports = [e \in 0 .. ExportEntries - 1 |-> EmptyEntry]
      /\ initializers = [e \in 0 .. InitializerEntries - 1 |-> EmptyEntry]
  BY DEF Init
<1> QED
  BY <1>1 DEF Caches, SlotTrue, ExportTrue, InitializerTrue, EmptySlot, EmptyEntry, NoAnswer

\* The caches show at every moment what the file holds.
LEMMA CachesTrue ==
  ASSUME Fits
  PROVE  Spec => []Caches
<1>1. LoadInv /\ Laid /\ RunMem /\ LayoutBound /\ Caches /\ [Next]_vars => Caches'
  BY CacheSteps
<1> QED
  BY <1>1, CachesStart, Loading, AlwaysLaid, Running, PTL DEF Spec

\* ReadsTrue: for every bundle that fits in the REU, every read of code or of a table
\* gets the bytes of the file, by way of whatever cache, and every read of a module
\* global what was last stored there.
THEOREM EveryReadIsTrue ==
  ASSUME Fits
  PROVE  Spec => ReadsTrue
<1>1. LoadInv /\ Laid /\ RunMem /\ LayoutBound /\ Caches /\ [Next]_vars => [AnswerTrue]_vars
  BY CacheSteps
<1>2. Spec => [][AnswerTrue]_vars
  BY <1>1, CachesTrue, Loading, AlwaysLaid, Running, PTL DEF Spec
<1> QED
  BY <1>2, PTL DEF ReadsTrue, AnswerTrue

\* TypeOK: every variable keeps its type, the areas of the layout lie in the REU,
\* the slots of the code cache are full pages and the entries of the other two hold
\* records that there are.
THEOREM BootTypes ==
  ASSUME Fits
  PROVE  Spec => []TypeOK
<1>1. LoadInv /\ MemInv /\ LayoutBound /\ Caches => TypeOK
  <2> SUFFICES ASSUME LoadInv, MemInv, LayoutBound, Caches PROVE TypeOK
    OBVIOUS
  <2>1. LoadTypeOK
    <3>1. DOMAIN info = DOMAIN NoInfo
      BY DEF LoadInv, Types, InfoType, NoInfo
    <3> QED
      BY <3>1 DEF LoadTypeOK, LoadInv, Types, MemInv
  <2>2. \A f \in DOMAIN layout : layout[f] \in 0 .. ReuBytes
    BY DEF LayoutBound
  <2>3. /\ current \in {0, 1} /\ DOMAIN code = {0, 1}
        /\ \A s \in {0, 1} : code[s].valid => Len(code[s].bytes) = PageBytes
    BY DEF Caches, SlotTrue
  <2>4. /\ \A e \in DOMAIN exports : exports[e].valid => exports[e].index < info.exports
        /\ \A e \in DOMAIN initializers :
             initializers[e].valid => initializers[e].index < info.initializers
    BY DEF Caches, ExportTrue, InitializerTrue
  <2> QED
    BY <2>1, <2>2, <2>3, <2>4 DEF TypeOK
<1> QED
  BY <1>1, Loading, MemoryTrue, Running, CachesTrue, PTL


=============================================================================
