------------------------ MODULE LpstCodeCacheProofs ------------------------
(***************************************************************************)
(* Theorems about LpstCodeCache for every image, number of slots and tick  *)
(* modulus: its types, that no page is in two slots, that the machine      *)
(* executes the bytes of the file, though a read may fail half-way, up to  *)
(* the instruction it halts in, that pins are counted exactly and that the *)
(* least recent page is evicted.                                           *)
(***************************************************************************)
EXTENDS LpstRecency, WellFoundedInduction, TLAPS

-----------------------------------------------------------------------------
(* Choices.                                                                 *)

\* A set of numbers has a least one.
LEMMA LeastNat ==
  ASSUME NEW T \in SUBSET Nat, T # {}
  PROVE  \E x \in T : \A y \in T : x <= y
<1>1. \E x \in T : \A y \in T : ~ (<<y, x>> \in OpToRel(<, Nat))
  BY NatLessThanWellFounded, WFMin
<1>2. PICK x \in T : \A y \in T : ~ (<<y, x>> \in OpToRel(<, Nat))
  BY <1>1
<1>3. \A y \in T : ~ (y < x)
  BY <1>2 DEF OpToRel
<1> QED
  BY <1>3

\* Least picks a member.
LEMMA LeastIn ==
  ASSUME NEW S \in SUBSET Slot, S # {}
  PROVE  Least(S) \in S
<1>1. S \in SUBSET Nat
  BY CacheAssumption DEF Slot
<1>2. \E e \in S : \A f \in S : e <= f
  BY <1>1, LeastNat
<1> QED
  BY <1>2 DEF Least

\* Pages are positive numbers, and every page of a module is a place to go.
LEMMA Pages ==
  /\ Page \subseteq Nat \ {0} /\ Junk \notin Page
  /\ \A m \in Module : PagesOf(m) \subseteq Page /\ PagesOf(m) \subseteq Target(m)
                     /\ Target(m) \subseteq Nat \ {0}
<1>1. \A m \in Module : FirstPage[m] \in Nat \ {0} /\ LastPage[m] \in Nat
  BY ImageAssumption
<1>2. \A m \in Module : PagesOf(m) \subseteq Nat \ {0} /\ PagesOf(m) \subseteq Target(m)
                      /\ Target(m) \subseteq Nat \ {0}
  BY <1>1 DEF PagesOf, Target
<1>3. \A m \in Module : PagesOf(m) \subseteq Page
  BY DEF Page
<1>4. Page \subseteq Nat \ {0}
  BY <1>2 DEF Page
<1>5. Junk \notin Page
  <2>1. SUFFICES ASSUME Junk \in Page PROVE FALSE
    OBVIOUS
  <2>2. Junk \in Nat
    BY <1>4, <2>1
  <2>3. \A i \in Nat : i \in Int
    OBVIOUS
  <2> QED
    BY <2>2, <2>3, CacheAssumption, Zenon
<1> QED
  BY <1>2, <1>3, <1>4, <1>5

\* Some unpinned slot was used no later than the others.
LEMMA OldestExists ==
  ASSUME TypeOK, Unpinned # {}
  PROVE  Oldest # {}
<1> DEFINE ticks == {entries[e].tick : e \in Unpinned}
<1>1. Unpinned \subseteq Slot
  BY DEF Unpinned
<1>2. \A e \in Slot : entries[e].tick \in Nat
  BY CacheAssumption DEF TypeOK, Entry
<1>3. ticks \in SUBSET Nat /\ ticks # {}
  BY <1>1, <1>2
<1>4. PICK x \in ticks : \A y \in ticks : x <= y
  BY <1>3, LeastNat
<1>5. PICK e \in Unpinned : entries[e].tick = x
  BY <1>4
<1>6. \A f \in Unpinned : entries[e].tick <= entries[f].tick
  BY <1>4, <1>5
<1> QED
  BY <1>5, <1>6 DEF Oldest

\* The victim is a slot of the table.
LEMMA VictimInTable ==
  ASSUME TypeOK, VictimExists
  PROVE  Victim \in Slot
<1>1. CASE Empty # {}
  <2>1. Empty \in SUBSET Slot
    BY DEF Empty
  <2> QED
    BY <1>1, <2>1, LeastIn DEF Victim
<1>2. CASE Empty = {}
  <2>1. Unpinned # {}
    BY <1>2 DEF VictimExists
  <2>2. Oldest \in SUBSET Slot
    BY DEF Oldest, Unpinned
  <2>3. Oldest # {}
    BY <2>1, OldestExists
  <2> QED
    BY <1>2, <2>2, <2>3, LeastIn DEF Victim
<1> QED
  BY <1>1, <1>2

\* A load has a slot: the one that holds the page, if there is one.
LEMMA SlotFound ==
  ASSUME TypeOK, NEW p, Holding(p) # {} \/ VictimExists
  PROVE  /\ SlotFor(p) \in Slot
         /\ Holding(p) # {} => SlotFor(p) \in Holding(p)
<1>1. Holding(p) \in SUBSET Slot
  BY DEF Holding
<1>2. CASE Holding(p) # {}
  BY <1>1, <1>2, LeastIn DEF SlotFor
<1>3. CASE Holding(p) = {}
  BY <1>3, VictimInTable DEF SlotFor
<1> QED
  BY <1>2, <1>3

-----------------------------------------------------------------------------
(* The invariant.                                                           *)

\* A slot that passes for a page holds its bytes.
Faithful(e) == entries[e].valid => entries[e].bytes = entries[e].base

\* A failed read has spoiled at most the next victim, and the machine stands
\* before the page it could not load: the next fetch loads it over the same
\* victim, or halts.
Spoiled ==
  /\ ~underway /\ pinning = 0 /\ pc \in PagesOf(module) /\ Holding(pc) = {}
  /\ \A e \in Slot : e = Victim \/ Faithful(e)

Sound == (\A e \in Slot : Faithful(e)) \/ Spoiled

\* In the rest of the instruction it halts in, the machine may read more pages,
\* over slots that are spoiled.
Honest == halted \/ Sound

\* No slot holds the bytes of another page, even then.
OwnBytes == \A e \in Slot : entries[e].valid => entries[e].bytes \in {entries[e].base, Junk}

\* The fast path reads a slot that passes for the page it is bound to.
BoundHolds == bound.slot # 0 => bound.slot \in Holding(bound.base)

\* PINM is the last thing its instruction does, the machine has not halted, and
\* there is room to count it.
PinRoom == pinning # 0 => ~underway /\ ~halted /\ pinned[module] < MaxPinned

CacheInv ==
  TypeOK /\ PagesOnce /\ BoundHolds /\ OwnBytes /\ Honest /\ PinRoom /\ FetchedBytesTrue

\* An empty cache is as the invariant says.
LEMMA InitCache ==
  Init => CacheInv
<1> SUFFICES ASSUME Init PROVE CacheInv
  OBVIOUS
<1>1. entries \in [Slot -> Entry]
  BY CacheAssumption DEF Init, Entry
<1>2. \A e \in Slot : ~entries[e].valid
  BY DEF Init
<1>3. pc \in Target(module) /\ module \in Module
  BY Pages DEF Init
<1>4. code_cache_tick \in 0 .. TickMod - 1 /\ bound \in [slot : 0 .. Slots, base : Nat]
  BY CacheAssumption DEF Init
<1>5. pinned \in [Module -> 0 .. MaxPinned] /\ fetched \in [page : Nat, bytes : Page \cup {0, Junk}]
  BY CacheAssumption DEF Init
<1>6. TypeOK
  BY <1>1, <1>2, <1>3, <1>4, <1>5 DEF Init, TypeOK
<1>7. PagesOnce /\ BoundHolds /\ FetchedBytesTrue /\ PinRoom
  BY <1>2 DEF Init, PagesOnce, BoundHolds, FetchedBytesTrue, PinRoom
<1>8. Honest /\ OwnBytes
  BY <1>2 DEF Honest, Sound, Faithful, OwnBytes
<1> QED
  BY <1>6, <1>7, <1>8 DEF CacheInv

-----------------------------------------------------------------------------
(* Loads.                                                                   *)

\* What a load that succeeds does to the table: its slot gets the page, unless
\* it has it, and the rest keep theirs.
LEMMA LoadsTable ==
  ASSUME TypeOK, NEW m \in Module, NEW p, NEW pins, Loads(m, p, pins)
  PROVE  /\ p \in PagesOf(m) /\ p \in Page /\ SlotFor(p) \in Slot
         /\ Holding(p) # {} => SlotFor(p) \in Holding(p)
         /\ entries' \in [Slot -> Entry]
         /\ \A f \in Slot \ {SlotFor(p)} :
              /\ entries'[f].valid = entries[f].valid /\ entries'[f].base = entries[f].base
              /\ entries'[f].bytes = entries[f].bytes
         /\ entries'[SlotFor(p)].valid /\ entries'[SlotFor(p)].base = p
         /\ entries'[SlotFor(p)].bytes =
              IF Holding(p) # {} THEN entries[SlotFor(p)].bytes ELSE p
         /\ \A f \in Slot \ {SlotFor(p)} : entries'[f].pin = entries[f].pin
         /\ entries'[SlotFor(p)].pin =
              IF pins /\ entries[SlotFor(p)].pin < PinMax THEN entries[SlotFor(p)].pin + 1
              ELSE entries[SlotFor(p)].pin
         /\ code_cache_tick' \in 0 .. TickMod - 1
<1> DEFINE e == SlotFor(p)
           one == Filled(p, e)
           two == Touched(one, e)
<1>1. p \in PagesOf(m) /\ p \in Page /\ p \in Nat
  BY Pages DEF Loads
<1>2. e \in Slot /\ (Holding(p) # {} => e \in Holding(p))
  BY SlotFound DEF Loads
<1>3. entries \in [Slot -> Entry]
  BY DEF TypeOK
<1>4. NextTick \in 0 .. TickMod - 1
  BY CacheAssumption DEF NextTick, TypeOK
<1>5. entries' = [two EXCEPT ![e].pin =
                    IF pins /\ entries[e].pin < PinMax THEN entries[e].pin + 1 ELSE entries[e].pin]
  BY DEF Loads
<1> HIDE DEF e
<1>6. /\ one \in [Slot -> Entry]
      /\ \A f \in Slot \ {e} : one[f] = entries[f]
      /\ Holding(p) # {} => one = entries
      /\ Holding(p) = {} => one[e].valid /\ one[e].base = p /\ one[e].bytes = p
  <2>1. CASE Holding(p) # {}
    BY <1>3, <2>1 DEF Filled
  <2>2. CASE Holding(p) = {}
    <3>1. one = [entries EXCEPT ![e].valid = TRUE, ![e].base = p, ![e].bytes = p]
      BY <2>2 DEF Filled
    <3>2. entries[e] \in Entry
      BY <1>2, <1>3
    <3>3. one = [entries EXCEPT ![e] = [entries[e] EXCEPT !.valid = TRUE, !.base = p, !.bytes = p]]
      BY <1>2, <1>3, <3>1, <3>2 DEF Entry
    <3>4. [entries[e] EXCEPT !.valid = TRUE, !.base = p, !.bytes = p] \in Entry
      BY <1>1, <3>2 DEF Entry
    <3> QED
      BY <1>2, <1>3, <2>2, <3>2, <3>3, <3>4 DEF Entry
  <2> QED
    BY <2>1, <2>2
<1>7. one[e].valid /\ one[e].base = p
      /\ one[e].bytes = IF Holding(p) # {} THEN entries[e].bytes ELSE p
  BY <1>2, <1>6 DEF Holding
<1> HIDE DEF one
<1>8. /\ two \in [Slot -> Entry]
      /\ \A f \in Slot : /\ two[f].valid = one[f].valid /\ two[f].base = one[f].base
                         /\ two[f].bytes = one[f].bytes /\ two[f].pin = one[f].pin
  <2>1. \A f \in Slot : two[f] \in {one[f], [one[f] EXCEPT !.tick = NextTick],
                                    [one[f] EXCEPT !.tick = 0]}
    BY DEF Touched
  <2>2. DOMAIN two = Slot
    BY DEF Touched
  <2>3. two = [f \in Slot |-> two[f]]
    BY DEF Touched
  <2>4. \A f \in Slot : one[f] \in Entry
    BY <1>6
  <2>5. 0 \in 0 .. TickMod - 1
    BY CacheAssumption
  <2>6. \A f \in Slot : /\ two[f] \in Entry
                        /\ two[f].valid = one[f].valid /\ two[f].base = one[f].base
                        /\ two[f].bytes = one[f].bytes /\ two[f].pin = one[f].pin
    BY <1>4, <2>1, <2>4, <2>5 DEF Entry
  <2> HIDE DEF two
  <2> QED
    BY <2>3, <2>6
<1> HIDE DEF two
<1>9. /\ entries' \in [Slot -> Entry]
      /\ \A f \in Slot : /\ entries'[f].valid = two[f].valid /\ entries'[f].base = two[f].base
                         /\ entries'[f].bytes = two[f].bytes
                         /\ f # e => entries'[f].pin = two[f].pin
      /\ entries'[e].pin =
           IF pins /\ entries[e].pin < PinMax THEN entries[e].pin + 1 ELSE entries[e].pin
  <2>1. (IF pins /\ entries[e].pin < PinMax THEN entries[e].pin + 1 ELSE entries[e].pin)
          \in 0 .. PinMax
    BY <1>2, <1>3, CacheAssumption DEF Entry
  <2>2. PICK pin \in 0 .. PinMax :
          /\ entries' = [two EXCEPT ![e].pin = pin]
          /\ pin = IF pins /\ entries[e].pin < PinMax THEN entries[e].pin + 1 ELSE entries[e].pin
    BY <1>5, <2>1
  <2>3. two[e] \in Entry
    BY <1>2, <1>8
  <2>4. entries' = [two EXCEPT ![e] = [two[e] EXCEPT !.pin = pin]]
    BY <1>2, <1>8, <2>2
  <2> DEFINE new == [two[e] EXCEPT !.pin = pin]
  <2>6. /\ new \in Entry /\ new.valid = two[e].valid /\ new.base = two[e].base
        /\ new.bytes = two[e].bytes /\ new.pin = pin
    BY <2>3 DEF Entry
  <2>7. entries' = [two EXCEPT ![e] = new]
    BY <2>4
  <2> HIDE DEF new
  <2>8. entries' \in [Slot -> Entry] /\ entries'[e] = new
        /\ \A f \in Slot \ {e} : entries'[f] = two[f]
    BY <1>2, <1>8, <2>6, <2>7
  <2> QED
    BY <2>2, <2>6, <2>8
<1>10. code_cache_tick' \in 0 .. TickMod - 1
  BY <1>4 DEF Loads
<1> QED
  BY <1>1, <1>2, <1>6, <1>7, <1>8, <1>9, <1>10 DEF e

\* What it does to the invariant: all slots are as faithful as before, and the
\* page whose read had failed is now there.
LEMMA LoadsKeeps ==
  ASSUME TypeOK, PagesOnce, OwnBytes, NEW m \in Module, NEW p, NEW pins, Loads(m, p, pins)
  PROVE  /\ entries' \in [Slot -> Entry] /\ code_cache_tick' \in 0 .. TickMod - 1
         /\ \A e \in Slot : entries'[e].valid => entries'[e].base \in Page
         /\ bound' \in [slot : 0 .. Slots, base : Nat]
         /\ PagesOnce' /\ BoundHolds' /\ OwnBytes'
         /\ entries'[SlotFor(p)].bytes \in {p, Junk} /\ p \in PagesOf(m)
         /\ (\A e \in Slot : Faithful(e)) \/ (Spoiled /\ p = pc) =>
              (\A e \in Slot : Faithful(e)') /\ entries'[SlotFor(p)].bytes = p
<1> DEFINE s == SlotFor(p)
<1>1. /\ p \in PagesOf(m) /\ p \in Page /\ s \in Slot
      /\ Holding(p) # {} => s \in Holding(p)
      /\ entries' \in [Slot -> Entry]
      /\ \A f \in Slot \ {s} :
           /\ entries'[f].valid = entries[f].valid /\ entries'[f].base = entries[f].base
           /\ entries'[f].bytes = entries[f].bytes
      /\ entries'[s].valid /\ entries'[s].base = p
      /\ entries'[s].bytes = IF Holding(p) # {} THEN entries[s].bytes ELSE p
      /\ code_cache_tick' \in 0 .. TickMod - 1
  BY LoadsTable
<1>2. bound' = [slot |-> s, base |-> p]
  BY DEF Loads, Bound
<1>3. Holding(p) = {} => s = Victim
  BY DEF SlotFor
<1> HIDE DEF s
<1>4. s \in 1 .. Slots /\ p \in Nat /\ s # 0
  BY <1>1, Pages, CacheAssumption DEF Slot
<1>5. bound' \in [slot : 0 .. Slots, base : Nat]
  BY <1>2, <1>4, CacheAssumption
<1>6. BoundHolds'
  BY <1>1, <1>2 DEF BoundHolds, Holding
<1>7. \A f \in Slot \ {s} : ~(entries[f].valid /\ entries[f].base = p)
  BY <1>1 DEF Holding, PagesOnce
<1>8. PagesOnce'
  BY <1>1, <1>7 DEF PagesOnce
<1>9. entries'[s].bytes \in {p, Junk}
  BY <1>1 DEF OwnBytes, Holding
<1>10. OwnBytes'
  BY <1>1, <1>9 DEF OwnBytes
<1>11. ASSUME (\A e \in Slot : Faithful(e)) \/ (Spoiled /\ p = pc)
       PROVE  (\A e \in Slot : Faithful(e)') /\ entries'[s].bytes = p
  <2>1. entries'[s].bytes = p
    <3>1. CASE Holding(p) = {}
      BY <1>1, <3>1
    <3>2. CASE Holding(p) # {}
      <4>1. \A e \in Slot : Faithful(e)
        BY <1>11, <3>2 DEF Spoiled
      <4> QED
        BY <1>1, <3>2, <4>1 DEF Faithful, Holding
    <3> QED
      BY <3>1, <3>2
  <2>2. \A f \in Slot \ {s} : Faithful(f)
    <3>1. CASE \A e \in Slot : Faithful(e)
      BY <3>1
    <3>2. CASE Spoiled /\ p = pc
      BY <1>3, <3>2 DEF Spoiled
    <3> QED
      BY <1>11, <3>1, <3>2
  <2> QED
    BY <1>1, <2>1, <2>2 DEF Faithful
<1>12. \A e \in Slot : entries'[e].valid => entries'[e].base \in Page
  BY <1>1 DEF TypeOK
<1> QED
  BY <1>1, <1>5, <1>6, <1>8, <1>9, <1>10, <1>11, <1>12 DEF s

\* What a load that fails does: the victim may hold the bytes of no page, but
\* is the victim still.
LEMMA LoadFailsKeeps ==
  ASSUME TypeOK, PagesOnce, BoundHolds, OwnBytes, NEW m \in Module, NEW p, LoadFails(m, p)
  PROVE  /\ entries' \in [Slot -> Entry] /\ UNCHANGED <<code_cache_tick, bound>>
         /\ \A e \in Slot : entries'[e].valid => entries'[e].base \in Page
         /\ PagesOnce' /\ BoundHolds' /\ OwnBytes'
         /\ (\A e \in Slot : Faithful(e)) =>
              \/ \A e \in Slot : Faithful(e)'
              \/ /\ p \in PagesOf(m) /\ Holding(p)' = {}
                 /\ \A e \in Slot : e = Victim' \/ Faithful(e)'
<1>1. UNCHANGED <<code_cache_tick, bound>>
  BY DEF LoadFails
<1>2. CASE UNCHANGED entries
  <2>1. \A e \in Slot : Faithful(e)' = Faithful(e)
    BY <1>2 DEF Faithful
  <2> QED
    BY <1>1, <1>2, <2>1 DEF TypeOK, PagesOnce, BoundHolds, Holding, OwnBytes
<1>3. CASE /\ p \in PagesOf(m) /\ Holding(p) = {} /\ VictimExists
           /\ entries' = [entries EXCEPT ![Victim].bytes = Junk]
  <2>1. Victim \in Slot
    BY <1>3, VictimInTable
  <2>2. entries \in [Slot -> Entry]
    BY DEF TypeOK
  <2>3. entries' = [entries EXCEPT ![Victim] = [entries[Victim] EXCEPT !.bytes = Junk]]
    BY <1>3, <2>1, <2>2
  <2>4. entries[Victim] \in Entry
    BY <2>1, <2>2
  <2>5. /\ entries' \in [Slot -> Entry]
        /\ \A f \in Slot :
             /\ entries'[f].valid = entries[f].valid /\ entries'[f].base = entries[f].base
             /\ entries'[f].tick = entries[f].tick /\ entries'[f].pin = entries[f].pin
             /\ f # Victim => entries'[f].bytes = entries[f].bytes
             /\ entries'[f].bytes \in {entries[f].bytes, Junk}
    <3> DEFINE v == Victim
    <3> HIDE DEF v
    <3>1. [entries[v] EXCEPT !.bytes = Junk] \in Entry
      BY <2>4 DEF Entry, v
    <3>2. v \in Slot /\ entries' = [entries EXCEPT ![v] = [entries[v] EXCEPT !.bytes = Junk]]
      BY <2>1, <2>3 DEF v
    <3>3. \A f \in Slot :
             /\ entries'[f].valid = entries[f].valid /\ entries'[f].base = entries[f].base
             /\ entries'[f].tick = entries[f].tick /\ entries'[f].pin = entries[f].pin
             /\ f # v => entries'[f].bytes = entries[f].bytes
             /\ entries'[f].bytes \in {entries[f].bytes, Junk}
      BY <2>2, <2>4, <3>2 DEF Entry, v
    <3> QED
      BY <2>2, <3>1, <3>2, <3>3 DEF v
  <2>6. Empty' = Empty /\ Unpinned' = Unpinned /\ \A q : Holding(q)' = Holding(q)
    BY <2>5 DEF Empty, Unpinned, Holding
  <2>7. Unpinned \subseteq Slot
    BY DEF Unpinned
  <2>8. Oldest' = Oldest
    BY <2>5, <2>6, <2>7 DEF Oldest
  <2>9. Victim' = Victim
    BY <2>6, <2>8 DEF Victim
  <2>10. PagesOnce'
    BY <2>5 DEF PagesOnce
  <2>11. BoundHolds'
    BY <1>1, <2>6 DEF BoundHolds
  <2>12. \A e \in Slot : entries'[e].valid => entries'[e].base \in Page
    BY <2>5 DEF TypeOK
  <2>13. (\A e \in Slot : Faithful(e)) => \A e \in Slot : e = Victim' \/ Faithful(e)'
    BY <2>5, <2>9 DEF Faithful
  <2>14. OwnBytes'
    BY <2>5 DEF OwnBytes
  <2> QED
    BY <1>1, <1>3, <2>5, <2>6, <2>10, <2>11, <2>12, <2>13, <2>14
<1> QED
  BY <1>2, <1>3 DEF LoadFails

-----------------------------------------------------------------------------
(* Steps.                                                                   *)

\* A step that leaves the table alone, and that an instruction under way or a
\* PINM takes, keeps the invariant.
LEMMA TableKept ==
  ASSUME CacheInv, UNCHANGED <<entries, bound>>,
         halted' \/ (\A e \in Slot : Faithful(e)),
         code_cache_tick' \in 0 .. TickMod - 1,
         module' \in Module, pc' \in Target(module'), underway' \in BOOLEAN,
         pinning' # 0 => pinning' \in Target(module'), halted' \in BOOLEAN,
         pinned' \in [Module -> 0 .. MaxPinned], PinRoom',
         fetched' \in [page : Nat, bytes : Page \cup {0, Junk}], FetchedBytesTrue'
  PROVE  CacheInv'
<1>1. TypeOK /\ PagesOnce /\ BoundHolds /\ OwnBytes
  BY DEF CacheInv
<1>2. TypeOK'
  BY <1>1 DEF TypeOK
<1>3. PagesOnce' /\ BoundHolds' /\ OwnBytes'
  BY <1>1 DEF PagesOnce, BoundHolds, Holding, OwnBytes
<1>4. Honest'
  BY DEF Honest, Sound, Faithful
<1> QED
  BY <1>2, <1>3, <1>4 DEF CacheInv

\* A load that succeeds, in whatever instruction.
LEMMA LoadedKeeps ==
  ASSUME CacheInv, NEW p, NEW pins, Loads(module, p, pins) \/ Loads(module', p, pins),
         halted' \/ (\A e \in Slot : Faithful(e)) \/ (Spoiled /\ p = pc),
         module' \in Module, pc' \in Target(module'), underway' \in BOOLEAN,
         pinning' # 0 => pinning' \in Target(module'), halted' \in BOOLEAN,
         pinned' \in [Module -> 0 .. MaxPinned], PinRoom',
         fetched' \in [page : Nat, bytes : Page \cup {0, Junk}], FetchedBytesTrue'
  PROVE  CacheInv'
<1>1. TypeOK /\ PagesOnce /\ OwnBytes /\ module \in Module
  BY DEF CacheInv, TypeOK
<1>2. PICK m \in Module : Loads(m, p, pins)
  BY <1>1
<1>3. /\ entries' \in [Slot -> Entry] /\ code_cache_tick' \in 0 .. TickMod - 1
      /\ \A e \in Slot : entries'[e].valid => entries'[e].base \in Page
      /\ bound' \in [slot : 0 .. Slots, base : Nat]
      /\ PagesOnce' /\ BoundHolds' /\ OwnBytes'
      /\ halted' \/ \A e \in Slot : Faithful(e)'
  BY <1>1, <1>2, LoadsKeeps
<1>4. TypeOK'
  BY <1>3 DEF TypeOK
<1>5. Honest'
  BY <1>3 DEF Honest, Sound
<1> QED
  BY <1>3, <1>4, <1>5 DEF CacheInv

\* A load that fails, if the machine halts or comes to stand before the page.
LEMMA FailedKeeps ==
  ASSUME CacheInv, NEW m \in Module, NEW p, LoadFails(m, p),
         halted' \/ ((\A e \in Slot : Faithful(e)) /\ ~underway' /\ pinning' = 0
                     /\ pc' = p /\ module' = m),
         module' \in Module, pc' \in Target(module'), underway' \in BOOLEAN,
         pinning' # 0 => pinning' \in Target(module'), halted' \in BOOLEAN,
         pinned' \in [Module -> 0 .. MaxPinned], PinRoom',
         fetched' \in [page : Nat, bytes : Page \cup {0, Junk}], FetchedBytesTrue'
  PROVE  CacheInv'
<1>1. TypeOK /\ PagesOnce /\ BoundHolds /\ OwnBytes
  BY DEF CacheInv
<1>2. /\ entries' \in [Slot -> Entry] /\ UNCHANGED <<code_cache_tick, bound>>
      /\ \A e \in Slot : entries'[e].valid => entries'[e].base \in Page
      /\ PagesOnce' /\ BoundHolds' /\ OwnBytes'
      /\ (\A e \in Slot : Faithful(e)) =>
           \/ \A e \in Slot : Faithful(e)'
           \/ /\ p \in PagesOf(m) /\ Holding(p)' = {}
              /\ \A e \in Slot : e = Victim' \/ Faithful(e)'
  BY <1>1, LoadFailsKeeps
<1>3. TypeOK'
  BY <1>1, <1>2 DEF TypeOK
<1>4. Honest'
  <2>1. CASE halted'
    BY <2>1 DEF Honest
  <2>2. CASE \A e \in Slot : Faithful(e)'
    BY <2>2 DEF Honest, Sound
  <2>3. CASE /\ ~underway' /\ pinning' = 0 /\ pc' = p /\ module' = m
             /\ p \in PagesOf(m) /\ Holding(p)' = {}
             /\ \A e \in Slot : e = Victim' \/ Faithful(e)'
    <3>1. pc' \in PagesOf(module')
      BY <2>3
    <3>2. Holding(pc)' = {}
      BY <2>3 DEF Holding
    <3> QED
      BY <2>3, <3>1, <3>2 DEF Honest, Sound, Spoiled, PagesOf
  <2> QED
    BY <1>2, <2>1, <2>2, <2>3
<1> QED
  BY <1>2, <1>3, <1>4 DEF CacheInv

\* UNPINM changes pin counts only.
LEMMA UnpinKeeps ==
  ASSUME CacheInv, \A e \in Slot : Faithful(e), pinning = 0, Unpin
  PROVE  CacheInv'
<1>1. TypeOK /\ PagesOnce /\ BoundHolds /\ OwnBytes /\ FetchedBytesTrue
  BY DEF CacheInv
<1>2. \A e \in Slot : entries[e] \in Entry
  BY <1>1 DEF TypeOK
<1>3. \A e \in Slot : entries'[e] \in {entries[e], [entries[e] EXCEPT !.pin = @ - 1]}
                    /\ (entries'[e] # entries[e] => entries[e].pin > 0)
  BY DEF Unpin
<1>4. \A e \in Slot : /\ entries'[e] \in Entry /\ entries'[e].valid = entries[e].valid
                      /\ entries'[e].base = entries[e].base /\ entries'[e].bytes = entries[e].bytes
  <2>1. SUFFICES ASSUME NEW e \in Slot
        PROVE  /\ entries'[e] \in Entry /\ entries'[e].valid = entries[e].valid
               /\ entries'[e].base = entries[e].base /\ entries'[e].bytes = entries[e].bytes
    OBVIOUS
  <2>2. CASE entries'[e] = entries[e]
    BY <1>2, <2>2
  <2>3. CASE entries'[e] = [entries[e] EXCEPT !.pin = @ - 1] /\ entries[e].pin > 0
    BY <1>2, <2>3, CacheAssumption DEF Entry
  <2> QED
    BY <1>3, <2>2, <2>3
<1>5. entries' = [e \in Slot |-> entries'[e]]
  BY DEF Unpin
<1>6. entries' \in [Slot -> Entry]
  BY <1>4, <1>5
<1>7. pinned' \in [Module -> 0 .. MaxPinned]
  BY <1>1, CacheAssumption DEF Unpin, TypeOK
<1>8. /\ UNCHANGED <<code_cache_tick, bound, module, pc, pinning, halted, fetched>>
      /\ underway' = FALSE
  BY DEF Unpin
<1>9. TypeOK'
  BY <1>1, <1>4, <1>6, <1>7, <1>8 DEF TypeOK
<1>10. PagesOnce' /\ BoundHolds' /\ OwnBytes' /\ FetchedBytesTrue' /\ PinRoom'
  BY <1>1, <1>4, <1>8 DEF PagesOnce, BoundHolds, Holding, OwnBytes, FetchedBytesTrue, PinRoom
<1>11. Honest'
  BY <1>4 DEF Honest, Sound, Faithful
<1> QED
  BY <1>9, <1>10, <1>11 DEF CacheInv

\* A byte is read, whether the machine has halted or not.
LEMMA ByteReadKeeps ==
  ASSUME CacheInv, pinning = 0, NEW p, ByteRead(p),
         halted \/ (\A e \in Slot : Faithful(e)) \/ (Spoiled /\ p = pc),
         UNCHANGED <<module, pinning, pinned>>, pc' \in Target(module), underway' \in BOOLEAN
  PROVE  CacheInv'
<1>1. /\ TypeOK /\ PagesOnce /\ OwnBytes /\ module \in Module /\ halted \in BOOLEAN
      /\ pinned \in [Module -> 0 .. MaxPinned]
  BY DEF CacheInv, TypeOK
<1>2. /\ Loads(module, p, FALSE) /\ halted' = halted
      /\ fetched' = [page |-> p, bytes |-> entries'[SlotFor(p)].bytes]
  BY DEF ByteRead
<1>3. /\ p \in PagesOf(module) /\ entries'[SlotFor(p)].bytes \in {p, Junk}
      /\ halted \/ entries'[SlotFor(p)].bytes = p
  BY <1>1, <1>2, LoadsKeeps
<1>4. fetched' \in [page : Nat, bytes : Page \cup {0, Junk}] /\ FetchedBytesTrue'
  BY <1>1, <1>2, <1>3, Pages DEF FetchedBytesTrue
<1>5. PinRoom'
  BY DEF PinRoom
<1> QED
  BY <1>1, <1>2, <1>4, <1>5, LoadedKeeps

\* A byte cannot be read, and the machine halts if it had not.
LEMMA ByteLostKeeps ==
  ASSUME CacheInv, pinning = 0, NEW p \in Nat, ByteLost(p),
         UNCHANGED <<module, pinning, pinned>>, pc' \in Target(module), underway' \in BOOLEAN
  PROVE  CacheInv'
<1>1. module \in Module /\ pinned \in [Module -> 0 .. MaxPinned]
  BY DEF CacheInv, TypeOK
<1>2. LoadFails(module, p) /\ fetched' = [page |-> p, bytes |-> 0] /\ halted' = TRUE
  BY DEF ByteLost
<1>3. fetched' \in [page : Nat, bytes : Page \cup {0, Junk}] /\ FetchedBytesTrue'
  BY <1>2 DEF FetchedBytesTrue
<1>4. PinRoom'
  BY DEF PinRoom
<1> QED
  BY <1>1, <1>2, <1>3, <1>4, FailedKeeps

\* What goes on after a byte could not be read as well as before.
LEMMA WithOperandsKeeps ==
  ASSUME CacheInv, pinning = 0, WithOperands
  PROVE  CacheInv'
<1>1. /\ TypeOK /\ PagesOnce /\ BoundHolds /\ OwnBytes /\ FetchedBytesTrue
      /\ halted \/ (\A e \in Slot : Faithful(e)) \/ Spoiled
      /\ underway => halted \/ \A e \in Slot : Faithful(e)
  BY DEF CacheInv, Honest, Sound, Spoiled
<1>2. /\ module \in Module /\ pc \in Target(module) /\ Target(module) \subseteq Nat
      /\ fetched \in [page : Nat, bytes : Page \cup {0, Junk}] /\ underway \in BOOLEAN
      /\ pinned \in [Module -> 0 .. MaxPinned] /\ halted \in BOOLEAN
      /\ code_cache_tick \in 0 .. TickMod - 1
  BY <1>1, Pages DEF TypeOK
<1>3. CASE FetchFast
  <2>1. bound.slot \in Holding(pc)
    BY <1>1, <1>3 DEF FetchFast, OnFastPath, BoundHolds
  <2>2. halted \/ \A e \in Slot : Faithful(e)
    BY <1>1, <2>1 DEF Spoiled
  <2>3. /\ entries[bound.slot].bytes \in {pc, Junk} /\ pc \in Page
        /\ halted \/ entries[bound.slot].bytes = pc
    BY <1>1, <2>1, <2>2 DEF Holding, Faithful, OwnBytes, TypeOK
  <2>4. /\ UNCHANGED <<entries, bound, code_cache_tick, module, pinning, halted, pinned>>
        /\ pc' \in Target(module') /\ underway' = TRUE
    BY <1>3 DEF FetchFast, cacheVars, Advance
  <2>5. fetched' \in [page : Nat, bytes : Page \cup {0, Junk}] /\ FetchedBytesTrue'
    BY <1>3, <2>3, <2>4, Pages DEF FetchFast, FetchedBytesTrue
  <2>6. PinRoom'
    BY <2>4 DEF PinRoom
  <2> QED
    BY <1>2, <2>2, <2>4, <2>5, <2>6, TableKept
<1>4. CASE FetchSlow
  <2>1. /\ ByteRead(pc) /\ UNCHANGED <<module, pinning, pinned>>
        /\ pc' \in Target(module) /\ underway' = TRUE
    BY <1>4 DEF FetchSlow, Advance
  <2> QED
    BY <1>1, <2>1, ByteReadKeeps
<1>5. CASE FetchFails
  <2>1. /\ ByteLost(pc) /\ UNCHANGED <<module, underway, pinning, pinned>>
        /\ pc' \in Target(module)
    BY <1>5 DEF FetchFails, Advance
  <2> QED
    BY <1>2, <2>1, ByteLostKeeps
<1>6. ASSUME NEW p \in Target(module), ReadHeader(p) PROVE CacheInv'
  <2>1. /\ underway /\ UNCHANGED <<module, pc, underway, pinning, pinned>>
        /\ ByteRead(p) \/ ByteLost(p)
    BY <1>6 DEF ReadHeader
  <2>2. CASE ByteRead(p)
    BY <1>1, <1>2, <2>1, <2>2, ByteReadKeeps
  <2>3. CASE ByteLost(p)
    BY <1>2, <2>1, <2>3, ByteLostKeeps
  <2> QED
    BY <2>1, <2>2, <2>3
<1>7. ASSUME NEW m \in Module, NEW p \in Target(m), Transfer(m, p) PROVE CacheInv'
  <2>1. /\ underway /\ underway' = FALSE /\ module' = m /\ pc' = p
        /\ UNCHANGED <<entries, code_cache_tick, bound, pinning, halted, fetched, pinned>>
    BY <1>7 DEF Transfer, Leave, cacheVars
  <2>2. FetchedBytesTrue' /\ PinRoom'
    BY <1>1, <2>1 DEF FetchedBytesTrue, PinRoom
  <2> QED
    BY <1>1, <1>2, <2>1, <2>2, TableKept
<1> QED
  BY <1>3, <1>4, <1>5, <1>6, <1>7 DEF WithOperands

\* Every instruction outside PINM.
LEMMA InstructionKeeps ==
  ASSUME CacheInv, ~halted, pinning = 0, Instruction
  PROVE  CacheInv'
<1>1. /\ TypeOK /\ FetchedBytesTrue
      /\ underway => \A e \in Slot : Faithful(e)
  BY DEF CacheInv, Honest, Sound, Spoiled
<1>2. /\ module \in Module /\ pc \in Target(module)
      /\ fetched \in [page : Nat, bytes : Page \cup {0, Junk}]
      /\ pinned \in [Module -> 0 .. MaxPinned] /\ halted \in BOOLEAN
      /\ code_cache_tick \in 0 .. TickMod - 1
  BY <1>1 DEF TypeOK
<1>3. CASE WithOperands
  BY <1>3, WithOperandsKeeps
<1>4. CASE PinStart
  <2>1. /\ underway /\ underway' = FALSE /\ pinning' = FirstPage[module]
        /\ UNCHANGED <<entries, code_cache_tick, bound, module, pc, halted, fetched, pinned>>
    BY <1>4 DEF PinStart, cacheVars
  <2>2. FirstPage[module] \in Target(module)
    BY <1>2, ImageAssumption DEF Target
  <2>3. FetchedBytesTrue'
    BY <1>1, <2>1 DEF FetchedBytesTrue
  <2>4. PinRoom'
    BY <1>4, <2>1 DEF PinRoom, PinStart
  <2> QED
    BY <1>1, <1>2, <2>1, <2>2, <2>3, <2>4, TableKept
<1>5. CASE Unpin
  BY <1>1, <1>5, UnpinKeeps DEF Unpin
<1>6. ASSUME NEW m \in Module, NEW p \in Target(m), Leave(m, p), LoadAttempt(m, p)
      PROVE  CacheInv'
  <2>1. /\ underway /\ underway' = FALSE /\ module' = m /\ pc' = p
        /\ UNCHANGED <<pinning, halted, fetched, pinned>>
    BY <1>6 DEF Leave
  <2>2. FetchedBytesTrue' /\ PinRoom'
    BY <1>1, <2>1 DEF FetchedBytesTrue, PinRoom
  <2>3. CASE Loads(m, p, FALSE)
    BY <1>1, <1>2, <2>1, <2>2, <2>3, LoadedKeeps
  <2>4. CASE LoadFails(m, p)
    BY <1>1, <1>2, <2>1, <2>2, <2>4, FailedKeeps
  <2> QED
    BY <1>6, <2>3, <2>4 DEF LoadAttempt
<1>7. ASSUME NEW p \in {pc, pc + 1}, NextBlock(p) PROVE CacheInv'
  <2>1. p \in Target(module) /\ Leave(module, p) /\ LoadAttempt(module, p)
    BY <1>7 DEF NextBlock
  <2> QED
    BY <1>2, <1>6, <2>1
<1>8. ASSUME NEW m \in Module, NEW p \in Target(m), LongJmp(m, p) PROVE CacheInv'
  BY <1>6, <1>8 DEF LongJmp
<1> QED
  BY <1>3, <1>4, <1>5, <1>7, <1>8 DEF Instruction

\* PINM, page by page.
LEMMA PinningKeeps ==
  ASSUME CacheInv, pinning # 0, PinPage \/ PinFails \/ PinDone
  PROVE  CacheInv'
<1>1. TypeOK /\ FetchedBytesTrue /\ PinRoom /\ ~halted /\ \A e \in Slot : Faithful(e)
  BY DEF CacheInv, Honest, Sound, Spoiled, PinRoom
<1>2. /\ module \in Module /\ pc \in Target(module) /\ underway \in BOOLEAN
      /\ fetched \in [page : Nat, bytes : Page \cup {0, Junk}]
      /\ pinned \in [Module -> 0 .. MaxPinned] /\ halted \in BOOLEAN
  BY <1>1 DEF TypeOK
<1>3. CASE PinPage
  <2>1. /\ pinning \in PagesOf(module) /\ Loads(module, pinning, TRUE) /\ pinning' = pinning + 1
        /\ UNCHANGED <<module, pc, underway, halted, fetched, pinned>>
    BY <1>3 DEF PinPage
  <2>2. pinning + 1 \in Target(module)
    BY <1>2, <2>1, ImageAssumption DEF PagesOf, Target
  <2>3. FetchedBytesTrue' /\ PinRoom'
    BY <1>1, <2>1 DEF FetchedBytesTrue, PinRoom
  <2> QED
    BY <1>1, <1>2, <2>1, <2>2, <2>3, LoadedKeeps
<1>4. CASE PinFails
  <2>1. /\ LoadFails(module, pinning) /\ pinning' = 0 /\ halted' = TRUE
        /\ UNCHANGED <<module, pc, underway, fetched, pinned>>
    BY <1>4 DEF PinFails
  <2>2. PinRoom' /\ FetchedBytesTrue'
    BY <1>1, <2>1 DEF PinRoom, FetchedBytesTrue
  <2> QED
    BY <1>2, <2>1, <2>2, FailedKeeps
<1>5. CASE PinDone
  <2>1. /\ LoadAttempt(module, pc) /\ pinning' = 0
        /\ pinned' = [pinned EXCEPT ![module] = @ + 1]
        /\ UNCHANGED <<module, pc, underway, halted, fetched>>
    BY <1>5 DEF PinDone
  <2>2. pinned' \in [Module -> 0 .. MaxPinned]
    BY <1>1, <1>2, <2>1, CacheAssumption DEF PinRoom
  <2>3. FetchedBytesTrue' /\ PinRoom' /\ ~underway
    BY <1>1, <2>1 DEF FetchedBytesTrue, PinRoom
  <2>4. CASE Loads(module, pc, FALSE)
    BY <1>1, <1>2, <2>1, <2>2, <2>3, <2>4, LoadedKeeps
  <2>5. CASE LoadFails(module, pc)
    BY <1>1, <1>2, <2>1, <2>2, <2>3, <2>5, FailedKeeps
  <2> QED
    BY <2>1, <2>4, <2>5 DEF LoadAttempt
<1> QED
  BY <1>3, <1>4, <1>5

\* Every step.
LEMMA CacheStepKeeps ==
  CacheInv /\ [Next]_vars => CacheInv'
<1> SUFFICES ASSUME CacheInv, [Next]_vars PROVE CacheInv'
  OBVIOUS
<1>1. CASE Next
  <2>1. CASE pinning # 0
    BY <1>1, <2>1, PinningKeeps DEF Next
  <2>2. CASE pinning = 0 /\ ~halted
    BY <1>1, <2>2, InstructionKeeps DEF Next
  <2>3. CASE pinning = 0 /\ halted
    BY <1>1, <2>3, WithOperandsKeeps DEF Next
  <2> QED
    BY <2>1, <2>2, <2>3
<1>2. CASE UNCHANGED vars
  <2>1. UNCHANGED <<entries, code_cache_tick, bound, module, pc, underway, pinning, halted,
                    fetched, pinned>>
    BY <1>2 DEF vars
  <2>2. TypeOK' /\ PagesOnce' /\ FetchedBytesTrue' /\ PinRoom' /\ BoundHolds' /\ OwnBytes'
    BY <2>1 DEF CacheInv, TypeOK, PagesOnce, FetchedBytesTrue, PinRoom, BoundHolds, Holding,
                OwnBytes
  <2>3. Holding(pc)' = Holding(pc) /\ Victim' = Victim
    BY <2>1 DEF Holding, Victim, Empty, Oldest, Unpinned
  <2>4. Spoiled => Spoiled'
    BY <2>1, <2>3 DEF Spoiled, Faithful
  <2>5. Honest'
    BY <2>1, <2>4 DEF CacheInv, Honest, Sound, Faithful
  <2> QED
    BY <2>2, <2>5 DEF CacheInv
<1> QED
  BY <1>1, <1>2

\* The invariant holds in every behaviour of the cache.
THEOREM CacheInvariant == Spec => []CacheInv
<1> QED
  BY InitCache, CacheStepKeeps, PTL DEF Spec

\* Entries, ticks, pins and the fast path keep their types: the tick wraps
\* within its width and no pin count leaves its own.
THEOREM CacheTypes == Spec => []TypeOK
<1>1. CacheInv => TypeOK
  BY DEF CacheInv
<1> QED
  BY <1>1, CacheInvariant, PTL

\* No page is in two slots, so find_code_cache_entry may stop at the first.
THEOREM NoPageTwice == Spec => []PagesOnce
<1>1. CacheInv => PagesOnce
  BY DEF CacheInv
<1> QED
  BY <1>1, CacheInvariant, PTL

\* Every byte that read_code_byte_at and fetch_byte answer while the machine
\* runs is the file's, whichever reads have failed half-way and whether their
\* callers looked at the result or not.  In the rest of the instruction in which
\* a byte cannot be read, which is executed to its end, they answer the file's
\* byte, a 0 or one from a slot that the failed read has spoiled, and never the
\* byte of another page.
THEOREM OnlyFileBytes == Spec => []FetchedBytesTrue
<1>1. CacheInv => FetchedBytesTrue
  BY DEF CacheInv
<1> QED
  BY <1>1, CacheInvariant, PTL

-----------------------------------------------------------------------------
(* Pin counts.                                                              *)

Owner(p) == CHOOSE n \in Module : p \in PagesOf(n)

\* Every page has one module.
LEMMA OwnerIs ==
  ASSUME NEW p \in Page
  PROVE  /\ Owner(p) \in Module
         /\ \A m \in Module : p \in PagesOf(m) <=> m = Owner(p)
<1>1. \E n \in Module : p \in PagesOf(n)
  BY DEF Page
<1>2. Owner(p) \in Module /\ p \in PagesOf(Owner(p))
  BY <1>1 DEF Owner
<1>3. \A m, n \in Module : p \in PagesOf(m) /\ p \in PagesOf(n) => m = n
  BY ImageAssumption DEF PagesOf
<1> QED
  BY <1>2, <1>3

\* The pins a page is due are the PINMs of its module.
LEMMA PinsDueIs ==
  \A p : PinsDue(p) = pinned[Owner(p)] + (IF Owner(p) = module /\ p < pinning THEN 1 ELSE 0)
BY DEF PinsDue, Owner

\* Each slot counts the pins its page is due, and a pinned page has a slot.
Counted ==
  /\ \A e \in Slot : entries[e].pin = IF entries[e].valid THEN PinsDue(entries[e].base) ELSE 0
  /\ \A p \in Page : PinsDue(p) > 0 => Holding(p) # {}

\* A count is a number.
LEMMA PinsDueRange ==
  ASSUME TypeOK, NEW p \in Page
  PROVE  PinsDue(p) \in Nat
<1>1. pinned[Owner(p)] \in Nat
  BY OwnerIs, CacheAssumption DEF TypeOK
<1> QED
  BY <1>1, PinsDueIs

\* A load finds its page pinned as often as the page is due.
LEMMA LoadsPins ==
  ASSUME TypeOK, PagesOnce, Counted, NEW m \in Module, NEW p, NEW pins, Loads(m, p, pins)
  PROVE  /\ p \in Page /\ SlotFor(p) \in Slot
         /\ entries'[SlotFor(p)].valid /\ entries'[SlotFor(p)].base = p
         /\ entries'[SlotFor(p)].pin =
              IF pins /\ PinsDue(p) < PinMax THEN PinsDue(p) + 1 ELSE PinsDue(p)
         /\ \A e \in Slot \ {SlotFor(p)} :
              /\ entries'[e].valid = entries[e].valid /\ entries'[e].base = entries[e].base
              /\ entries'[e].pin = entries[e].pin
              /\ entries[e].valid => entries[e].base # p
         /\ \A q \in Page : PinsDue(q) > 0 => q = p \/ Holding(q)' # {}
<1> DEFINE s == SlotFor(p)
<1>1. /\ p \in Page /\ s \in Slot
      /\ Holding(p) # {} => s \in Holding(p)
      /\ \A f \in Slot \ {s} :
           /\ entries'[f].valid = entries[f].valid /\ entries'[f].base = entries[f].base
      /\ entries'[s].valid /\ entries'[s].base = p
      /\ \A f \in Slot \ {s} : entries'[f].pin = entries[f].pin
      /\ entries'[s].pin =
           IF pins /\ entries[s].pin < PinMax THEN entries[s].pin + 1 ELSE entries[s].pin
  BY LoadsTable
<1>2. Holding(p) = {} => s = Victim /\ VictimExists
  BY DEF SlotFor, Loads
<1> HIDE DEF s
<1>3. Holding(p) = {} => entries[s].pin = 0
  <2>1. SUFFICES ASSUME Holding(p) = {} PROVE entries[s].pin = 0
    OBVIOUS
  <2>2. CASE Empty # {}
    <3>1. Empty \in SUBSET Slot
      BY DEF Empty
    <3>2. s \in Empty
      BY <1>2, <2>1, <2>2, <3>1, LeastIn DEF Victim
    <3> QED
      BY <3>2 DEF Empty, Counted
  <2>3. CASE Empty = {}
    <3>1. Unpinned # {}
      BY <1>2, <2>1, <2>3 DEF VictimExists
    <3>2. Oldest # {} /\ Oldest \in SUBSET Slot
      BY <3>1, OldestExists DEF Oldest, Unpinned
    <3>3. s \in Oldest
      BY <1>2, <2>1, <2>3, <3>2, LeastIn DEF Victim
    <3> QED
      BY <3>3 DEF Oldest, Unpinned
  <2> QED
    BY <2>2, <2>3
<1>4. entries[s].pin = PinsDue(p)
  <2>1. CASE Holding(p) = {}
    BY <1>1, <1>3, <2>1, PinsDueRange DEF Counted
  <2>2. CASE Holding(p) # {}
    BY <1>1, <2>2 DEF Counted, Holding
  <2> QED
    BY <2>1, <2>2
<1>5. \A e \in Slot \ {s} : entries[e].valid => entries[e].base # p
  BY <1>1 DEF Holding, PagesOnce
<1>6. ASSUME NEW q \in Page, PinsDue(q) > 0, q # p PROVE Holding(q)' # {}
  <2>1. PICK e \in Slot : entries[e].valid /\ entries[e].base = q
    BY <1>6 DEF Counted, Holding
  <2>2. e # s
    <3>1. CASE Holding(p) = {}
      <4>1. entries[e].pin = PinsDue(q)
        BY <2>1 DEF Counted
      <4> QED
        BY <1>3, <1>6, <3>1, <4>1
    <3>2. CASE Holding(p) # {}
      BY <1>1, <1>6, <2>1, <3>2 DEF Holding
    <3> QED
      BY <3>1, <3>2
  <2>3. e \in Holding(q)'
    BY <1>1, <2>1, <2>2 DEF Holding
  <2> QED
    BY <2>3
<1> QED
  BY <1>1, <1>4, <1>5, <1>6 DEF s

SamePins ==
  \A e \in Slot : /\ entries'[e].valid = entries[e].valid /\ entries'[e].base = entries[e].base
                  /\ entries'[e].pin = entries[e].pin

\* A load that fails touches no pin.
LEMMA LoadFailsPins ==
  ASSUME TypeOK, NEW m, NEW p, LoadFails(m, p)
  PROVE  SamePins
<1>1. CASE UNCHANGED entries
  BY <1>1 DEF SamePins
<1>2. CASE VictimExists /\ entries' = [entries EXCEPT ![Victim].bytes = Junk]
  <2> DEFINE v == Victim
  <2>1. v \in Slot /\ entries' = [entries EXCEPT ![v].bytes = Junk]
    BY <1>2, VictimInTable
  <2> HIDE DEF v
  <2>2. entries \in [Slot -> Entry] /\ entries[v] \in Entry
    BY <2>1 DEF TypeOK
  <2>3. \A e \in Slot : e # v => entries'[e] = entries[e]
    BY <2>1, <2>2
  <2>4. entries'[v] = [entries[v] EXCEPT !.bytes = Junk]
    BY <2>1, <2>2
  <2>5. /\ entries'[v].valid = entries[v].valid /\ entries'[v].base = entries[v].base
        /\ entries'[v].pin = entries[v].pin
    BY <2>2, <2>4 DEF Entry
  <2> QED
    BY <2>3, <2>5 DEF SamePins
<1> QED
  BY <1>1, <1>2 DEF LoadFails

\* A step that counts no PINM keeps the counts.
LEMMA CountsKept ==
  ASSUME TypeOK, PagesOnce, Counted, \A q \in Page : PinsDue(q)' = PinsDue(q),
         SamePins \/ \E m \in Module, p \in Page : Loads(m, p, FALSE)
  PROVE  Counted'
<1>1. CASE SamePins
  <2>1. \A e \in Slot : entries'[e].valid => entries'[e].base \in Page
    BY <1>1 DEF SamePins, TypeOK
  <2>2. \A q \in Page : Holding(q)' = Holding(q)
    BY <1>1 DEF SamePins, Holding
  <2>3. \A e \in Slot : entries'[e].pin = IF entries'[e].valid THEN PinsDue(entries[e].base) ELSE 0
    BY <1>1 DEF SamePins, Counted
  <2>4. \A e \in Slot : entries'[e].pin =
                       IF entries'[e].valid THEN PinsDue(entries[e].base)' ELSE 0
    <3>1. SUFFICES ASSUME NEW e \in Slot, entries'[e].valid
          PROVE  PinsDue(entries[e].base)' = PinsDue(entries[e].base)
      BY <2>3
    <3>2. entries'[e].base = entries[e].base /\ entries[e].base \in Page
      BY <1>1, <2>1, <3>1 DEF SamePins
    <3> QED
      BY <3>2
  <2>5. \A q \in Page : PinsDue(q)' > 0 => Holding(q)' # {}
    BY <2>2 DEF Counted
  <2> QED
    BY <2>4, <2>5 DEF Counted
<1>2. CASE \E m \in Module, p \in Page : Loads(m, p, FALSE)
  <2>1. PICK m \in Module, p \in Page : Loads(m, p, FALSE)
    BY <1>2
  <2> DEFINE s == SlotFor(p)
  <2>2. /\ p \in Page /\ s \in Slot
        /\ entries'[s].valid /\ entries'[s].base = p /\ entries'[s].pin = PinsDue(p)
        /\ \A e \in Slot \ {s} :
             /\ entries'[e].valid = entries[e].valid /\ entries'[e].base = entries[e].base
             /\ entries'[e].pin = entries[e].pin
        /\ \A q \in Page : PinsDue(q) > 0 => q = p \/ Holding(q)' # {}
    <3>1. /\ p \in Page /\ SlotFor(p) \in Slot
          /\ entries'[SlotFor(p)].valid /\ entries'[SlotFor(p)].base = p
          /\ entries'[SlotFor(p)].pin =
               IF FALSE /\ PinsDue(p) < PinMax THEN PinsDue(p) + 1 ELSE PinsDue(p)
          /\ \A e \in Slot \ {SlotFor(p)} :
               /\ entries'[e].valid = entries[e].valid /\ entries'[e].base = entries[e].base
               /\ entries'[e].pin = entries[e].pin
               /\ entries[e].valid => entries[e].base # p
          /\ \A q \in Page : PinsDue(q) > 0 => q = p \/ Holding(q)' # {}
      BY <2>1, LoadsPins
    <3> QED
      BY <3>1
  <2> HIDE DEF s
  <2>3. Holding(p)' # {}
    BY <2>2 DEF Holding
  <2>4. \A e \in Slot : entries'[e].pin =
                       IF entries'[e].valid THEN PinsDue(entries[e].base)' ELSE 0
    <3>1. SUFFICES ASSUME NEW e \in Slot
          PROVE  entries'[e].pin = IF entries'[e].valid THEN PinsDue(entries[e].base)' ELSE 0
      OBVIOUS
    <3>2. CASE e = s
      BY <2>2, <3>2
    <3>3. CASE e # s
      BY <2>2, <3>3 DEF Counted, TypeOK
    <3> QED
      BY <3>2, <3>3
  <2>5. \A q \in Page : PinsDue(q)' > 0 => Holding(q)' # {}
    BY <2>2, <2>3
  <2> QED
    BY <2>4, <2>5 DEF Counted
<1> QED
  BY <1>1, <1>2

\* PINM counts the page it has loaded, and no other.
LEMMA PinPageCounts ==
  ASSUME CacheInv, Counted, pinning # 0, PinPage
  PROVE  Counted'
<1>1. TypeOK /\ PagesOnce /\ PinRoom /\ module \in Module
  BY DEF CacheInv, TypeOK
<1>2. /\ pinning \in PagesOf(module) /\ Loads(module, pinning, TRUE)
      /\ pinning' = pinning + 1 /\ UNCHANGED <<module, pinned>>
  BY DEF PinPage
<1> DEFINE s == SlotFor(pinning)
<1>3. /\ pinning \in Page /\ s \in Slot
      /\ entries'[s].valid /\ entries'[s].base = pinning
      /\ entries'[s].pin =
           IF TRUE /\ PinsDue(pinning) < PinMax THEN PinsDue(pinning) + 1 ELSE PinsDue(pinning)
      /\ \A e \in Slot \ {s} :
           /\ entries'[e].valid = entries[e].valid /\ entries'[e].base = entries[e].base
           /\ entries'[e].pin = entries[e].pin
           /\ entries[e].valid => entries[e].base # pinning
      /\ \A q \in Page : PinsDue(q) > 0 => q = pinning \/ Holding(q)' # {}
  BY <1>1, <1>2, LoadsPins
<1> HIDE DEF s
<1>4. Owner(pinning) = module /\ pinning \in Nat
  BY <1>1, <1>2, <1>3, OwnerIs, Pages
<1>5. PinsDue(pinning) = pinned[module] /\ PinsDue(pinning) < PinMax
  <2>1. PinsDue(pinning) = pinned[module] + (IF pinning < pinning THEN 1 ELSE 0)
    BY <1>4, PinsDueIs
  <2>2. pinned[module] \in Nat /\ pinned[module] < MaxPinned
    BY <1>1, CacheAssumption DEF TypeOK, PinRoom
  <2> QED
    BY <1>4, <2>1, <2>2, CacheAssumption
<1>6. \A q \in Page : PinsDue(q)' = PinsDue(q) + (IF q = pinning THEN 1 ELSE 0)
  <2>1. \A q \in Page : q \in Nat /\ pinned[Owner(q)] \in Nat
    BY <1>1, OwnerIs, Pages, CacheAssumption DEF TypeOK
  <2>2. \A q : PinsDue(q)' = pinned[Owner(q)] + (IF Owner(q) = module /\ q < pinning + 1 THEN 1 ELSE 0)
    BY <1>2 DEF PinsDue, Owner
  <2> QED
    BY <1>4, <2>1, <2>2, PinsDueIs
<1>7. \A e \in Slot : entries'[e].pin = IF entries'[e].valid THEN PinsDue(entries[e].base)' ELSE 0
  <2>1. SUFFICES ASSUME NEW e \in Slot
        PROVE  entries'[e].pin = IF entries'[e].valid THEN PinsDue(entries[e].base)' ELSE 0
    OBVIOUS
  <2>2. CASE e = s
    BY <1>3, <1>5, <1>6, <2>2
  <2>3. CASE e # s
    <3>1. entries[e].valid => PinsDue(entries[e].base) \in Nat /\ entries[e].base \in Page
      BY <1>1, PinsDueRange DEF TypeOK
    <3> QED
      BY <1>3, <1>6, <2>3, <3>1 DEF Counted
  <2> QED
    BY <2>2, <2>3
<1>8. \A q \in Page : PinsDue(q)' > 0 => Holding(q)' # {}
  <2>1. \A q \in Page : q = pinning => Holding(q)' # {}
    <3>1. s \in {e \in Slot : entries'[e].valid /\ entries'[e].base = pinning}
      BY <1>3
    <3>2. \A q : Holding(q)' = {e \in Slot : entries'[e].valid /\ entries'[e].base = q}
      BY DEF Holding
    <3> QED
      BY <3>1, <3>2
  <2>2. \A q \in Page : PinsDue(q) \in Nat
    BY <1>1, PinsDueRange
  <2> QED
    BY <1>3, <1>6, <2>1, <2>2
<1> QED
  BY <1>7, <1>8 DEF Counted

\* UNPINM takes one pin, where there is one, from each page of the module.
LEMMA UnpinCounts ==
  ASSUME CacheInv, Counted, pinning = 0, Unpin
  PROVE  Counted'
<1>1. TypeOK /\ module \in Module /\ pinned \in [Module -> 0 .. MaxPinned]
  BY DEF CacheInv, TypeOK
<1>2. /\ UNCHANGED <<module, pinning>>
      /\ pinned' = [pinned EXCEPT ![module] = IF @ > 0 THEN @ - 1 ELSE 0]
  BY DEF Unpin
<1>3. \A q \in Page : /\ PinsDue(q) = pinned[Owner(q)] /\ PinsDue(q)' = pinned'[Owner(q)]
                      /\ pinned[Owner(q)] \in Nat
                      /\ Owner(q) = module <=> q \in PagesOf(module)
  <2>1. \A q \in Page : q \in Nat /\ Owner(q) \in Module
                       /\ (Owner(q) = module <=> q \in PagesOf(module))
    BY <1>1, OwnerIs, Pages
  <2>2. \A q : /\ PinsDue(q) = pinned[Owner(q)] + (IF Owner(q) = module /\ q < 0 THEN 1 ELSE 0)
               /\ PinsDue(q)' = pinned'[Owner(q)] + (IF Owner(q) = module /\ q < 0 THEN 1 ELSE 0)
    BY <1>2 DEF PinsDue, Owner
  <2>3. \A n \in Module : pinned[n] \in Nat /\ pinned'[n] \in Nat
    BY <1>1, <1>2, CacheAssumption
  <2> QED
    BY <2>1, <2>2, <2>3
<1>4. \A q \in Page :
        PinsDue(q)' = IF q \in PagesOf(module) /\ PinsDue(q) > 0 THEN PinsDue(q) - 1 ELSE PinsDue(q)
  <2>1. \A n \in Module : pinned'[n] = IF n = module /\ pinned[n] > 0 THEN pinned[n] - 1 ELSE pinned[n]
    <3>1. pinned[module] \in Nat
      BY <1>1, CacheAssumption
    <3> QED
      BY <1>1, <1>2, <3>1
  <2>2. \A q \in Page : pinned'[Owner(q)] = IF Owner(q) = module /\ pinned[Owner(q)] > 0
                                            THEN pinned[Owner(q)] - 1 ELSE pinned[Owner(q)]
    BY <2>1, OwnerIs
  <2> QED
    BY <1>3, <2>2
<1>5. \A e \in Slot : entries[e] \in Entry
  BY <1>1 DEF TypeOK
<1>6. \A e \in Slot :
        entries'[e] = IF entries[e].valid /\ entries[e].pin > 0 /\ entries[e].base \in PagesOf(module)
                        THEN [entries[e] EXCEPT !.pin = @ - 1] ELSE entries[e]
  BY DEF Unpin
<1>7. \A e \in Slot :
        /\ entries'[e].valid = entries[e].valid /\ entries'[e].base = entries[e].base
        /\ entries'[e].pin =
             IF entries[e].valid /\ entries[e].pin > 0 /\ entries[e].base \in PagesOf(module)
               THEN entries[e].pin - 1 ELSE entries[e].pin
  BY <1>5, <1>6 DEF Entry
<1>8. \A e \in Slot : entries'[e].pin = IF entries'[e].valid THEN PinsDue(entries[e].base)' ELSE 0
  <2>1. SUFFICES ASSUME NEW e \in Slot
        PROVE  entries'[e].pin = IF entries'[e].valid THEN PinsDue(entries[e].base)' ELSE 0
    OBVIOUS
  <2>2. CASE entries[e].valid
    <3>1. entries[e].base \in Page /\ entries[e].pin = PinsDue(entries[e].base)
      BY <1>1, <2>2 DEF Counted, TypeOK
    <3> QED
      BY <1>4, <1>7, <2>2, <3>1
  <2>3. CASE ~entries[e].valid
    BY <1>7, <2>3 DEF Counted
  <2> QED
    BY <2>2, <2>3
<1>9. \A q \in Page : PinsDue(q)' > 0 => Holding(q)' # {}
  <2>1. \A q \in Page : Holding(q)' = Holding(q)
    BY <1>7 DEF Holding
  <2>2. \A q \in Page : PinsDue(q)' > 0 => PinsDue(q) > 0
    BY <1>3, <1>4
  <2> QED
    BY <2>1, <2>2 DEF Counted
<1> QED
  BY <1>8, <1>9 DEF Counted

\* While the machine runs, every step keeps the counts.
LEMMA CountStep ==
  ASSUME CacheInv, ~halted, ~halted', Counted, Next
  PROVE  Counted'
<1>1. /\ TypeOK /\ PagesOnce /\ PinRoom /\ module \in Module
      /\ \A q \in Page : q \in Nat /\ Owner(q) \in Module
      /\ pinned \in [Module -> 0 .. MaxPinned]
  BY OwnerIs, Pages DEF CacheInv, TypeOK
<1>2. \A p : \A m \in Module : Loads(m, p, FALSE) => p \in Page
  BY Pages DEF Loads
<1>3. \A m, p : LoadFails(m, p) => SamePins
  BY <1>1, LoadFailsPins
<1>4. UNCHANGED cacheVars => SamePins
  BY DEF cacheVars, SamePins
<1>5. ASSUME pinning = 0, pinning' = 0, UNCHANGED pinned,
             SamePins \/ \E m \in Module, p \in Page : Loads(m, p, FALSE)
      PROVE  Counted'
  <2>1. \A q : /\ PinsDue(q) = pinned[Owner(q)] + (IF Owner(q) = module /\ q < 0 THEN 1 ELSE 0)
               /\ PinsDue(q)' = pinned[Owner(q)] + (IF Owner(q) = module' /\ q < 0 THEN 1 ELSE 0)
    BY <1>5 DEF PinsDue, Owner
  <2>2. \A q \in Page : PinsDue(q)' = PinsDue(q)
    BY <1>1, <2>1
  <2> QED
    BY <1>1, <1>5, <2>2, CountsKept
<1>6. CASE pinning = 0
  <2>1. Instruction
    BY <1>6 DEF Next
  <2>2. CASE FetchFast
    BY <1>4, <1>5, <1>6, <2>2 DEF FetchFast
  <2>3. CASE FetchSlow
    BY <1>1, <1>2, <1>5, <1>6, <2>3 DEF FetchSlow, ByteRead
  <2>4. CASE FetchFails
    BY <2>4 DEF FetchFails, ByteLost
  <2>5. CASE PinStart
    <3>1. /\ pinning' = FirstPage[module] /\ UNCHANGED <<module, pinned>> /\ SamePins
      BY <1>4, <2>5 DEF PinStart
    <3>2. \A q : /\ PinsDue(q) = pinned[Owner(q)] + (IF Owner(q) = module /\ q < 0 THEN 1 ELSE 0)
                 /\ PinsDue(q)' = pinned[Owner(q)]
                      + (IF Owner(q) = module /\ q < FirstPage[module] THEN 1 ELSE 0)
      BY <1>6, <3>1 DEF PinsDue, Owner
    <3>3. \A q \in Page : Owner(q) = module => q >= FirstPage[module]
      BY <1>1, OwnerIs, ImageAssumption DEF PagesOf
    <3>4. FirstPage[module] \in Nat
      BY <1>1, ImageAssumption
    <3>5. \A q \in Page : PinsDue(q)' = PinsDue(q)
      BY <1>1, <3>2, <3>3, <3>4
    <3> QED
      BY <1>1, <3>1, <3>5, CountsKept
  <2>6. CASE Unpin
    BY <1>6, <2>6, UnpinCounts
  <2>7. ASSUME NEW m \in Module, NEW p, Leave(m, p), UNCHANGED cacheVars PROVE Counted'
    BY <1>4, <1>5, <1>6, <2>7 DEF Leave
  <2>8. ASSUME NEW m \in Module, NEW p, NEW mm \in Module, Leave(m, p), LoadAttempt(mm, p)
        PROVE  Counted'
    BY <1>2, <1>3, <1>5, <1>6, <2>8 DEF Leave, LoadAttempt
  <2>9. ASSUME NEW p \in {pc, pc + 1}, NextBlock(p) PROVE Counted'
    BY <1>1, <2>8, <2>9 DEF NextBlock
  <2>10. ASSUME NEW m \in Module, NEW p \in Target(m), Transfer(m, p) \/ LongJmp(m, p)
         PROVE  Counted'
    BY <2>7, <2>8, <2>10 DEF Transfer, LongJmp
  <2>11. ASSUME NEW p \in Target(module), ReadHeader(p) PROVE Counted'
    BY <1>1, <1>2, <1>5, <1>6, <2>11 DEF ReadHeader, ByteRead, ByteLost
  <2> QED
    BY <2>1, <2>2, <2>3, <2>4, <2>5, <2>6, <2>9, <2>10, <2>11 DEF Instruction, WithOperands
<1>7. CASE pinning # 0
  <2>1. PinPage \/ PinFails \/ PinDone
    BY <1>7 DEF Next
  <2>2. CASE PinPage
    BY <1>7, <2>2, PinPageCounts
  <2>3. CASE PinFails
    BY <2>3 DEF PinFails
  <2>4. CASE PinDone
    <3>1. /\ pinning = LastPage[module] + 1 /\ pinning' = 0 /\ UNCHANGED module
          /\ pinned' = [pinned EXCEPT ![module] = @ + 1] /\ LoadAttempt(module, pc)
      BY <2>4 DEF PinDone
    <3>2. \A q : /\ PinsDue(q) = pinned[Owner(q)]
                      + (IF Owner(q) = module /\ q < LastPage[module] + 1 THEN 1 ELSE 0)
                 /\ PinsDue(q)' = pinned'[Owner(q)] + (IF Owner(q) = module /\ q < 0 THEN 1 ELSE 0)
      BY <3>1 DEF PinsDue, Owner
    <3>3. \A q \in Page : Owner(q) = module => q < LastPage[module] + 1
      BY <1>1, OwnerIs, ImageAssumption DEF PagesOf
    <3>4. \A n \in Module : /\ pinned[n] \in Nat
                            /\ pinned'[n] = IF n = module THEN pinned[n] + 1 ELSE pinned[n]
      BY <1>1, <3>1, CacheAssumption
    <3>5. \A q \in Page : PinsDue(q)' = PinsDue(q)
      BY <1>1, <3>2, <3>3, <3>4
    <3>6. SamePins \/ \E m \in Module, p \in Page : Loads(m, p, FALSE)
      BY <1>1, <1>2, <1>3, <3>1 DEF LoadAttempt
    <3> QED
      BY <1>1, <3>5, <3>6, CountsKept
  <2> QED
    BY <2>1, <2>2, <2>3, <2>4
<1> QED
  BY <1>6, <1>7

\* The machine does not go on once its last instruction is at its end.
LEMMA HaltedStays ==
  ASSUME CacheInv, halted, Next
  PROVE  halted'
<1>1. pinning = 0
  BY DEF CacheInv, PinRoom
<1>2. WithOperands
  BY <1>1 DEF Next
<1> QED
  BY <1>2 DEF WithOperands, FetchFast, FetchSlow, FetchFails, ReadHeader, Transfer, Leave,
              ByteRead, ByteLost

\* Every slot counts the PINMs that keep its page, also half-way through a
\* PINM, and no pinned page is evicted: load_code_page, PINM and UNPINM.
THEOREM PinsCounted == Spec => []PinsExact
<1>1. Init => Counted
  <2>1. SUFFICES ASSUME Init PROVE Counted
    OBVIOUS
  <2>2. \A q \in Page : q \in Nat /\ Owner(q) \in Module
    BY OwnerIs, Pages
  <2>3. \A q \in Page : PinsDue(q) = 0
    BY <2>1, <2>2, PinsDueIs DEF Init
  <2> QED
    BY <2>1, <2>3 DEF Init, Counted
<1>2. CacheInv /\ (halted \/ Counted) /\ [Next]_vars => (halted \/ Counted)'
  <2>1. SUFFICES ASSUME CacheInv, halted \/ Counted, [Next]_vars PROVE (halted \/ Counted)'
    OBVIOUS
  <2>2. CASE Next
    BY <2>1, <2>2, CountStep, HaltedStays
  <2>3. CASE UNCHANGED vars
    BY <2>1, <2>3 DEF vars, Counted, PinsDue, Holding
  <2> QED
    BY <2>1, <2>2, <2>3
<1>3. (halted \/ Counted) => PinsExact
  BY DEF PinsExact, Counted
<1> QED
  BY <1>1, <1>2, <1>3, CacheInvariant, PTL DEF Spec

-----------------------------------------------------------------------------
(* Victims.                                                                 *)

\* The ticks of the slots are in the order of the loads, and none is ahead of
\* the clock.
Ordered ==
  /\ \A e \in Slot : entries[e].valid => entries[e].tick <= code_cache_tick
  /\ \A e, f \in Slot : entries[e].valid /\ entries[f].valid =>
       (<<entries[e].base, entries[f].base>> \in before <=> entries[e].tick < entries[f].tick)

\* A load stamps its slot; a tick that wraps is forgotten everywhere else.
LEMMA LoadTicks ==
  ASSUME TypeOK, NEW m \in Module, NEW p, NEW pins, Loads(m, p, pins)
  PROVE  /\ code_cache_tick' = NextTick
         /\ entries'[SlotFor(p)].tick = NextTick
         /\ \A f \in Slot \ {SlotFor(p)} :
              entries'[f].tick = IF code_cache_tick + 1 = TickMod /\ entries[f].valid THEN 0
                                 ELSE entries[f].tick
<1> DEFINE e == SlotFor(p)
           one == Filled(p, e)
           two == Touched(one, e)
           pin == IF pins /\ entries[e].pin < PinMax THEN entries[e].pin + 1 ELSE entries[e].pin
<1>1. e \in Slot
  BY SlotFound DEF Loads
<1>2. entries' = [two EXCEPT ![e].pin = pin] /\ code_cache_tick' = NextTick
  BY DEF Loads
<1>3. entries \in [Slot -> Entry]
  BY DEF TypeOK
<1> HIDE DEF e, pin
<1>4. /\ \A f \in Slot \ {e} : one[f] = entries[f]
      /\ one[e] = entries[e] \/ one[e] = [entries[e] EXCEPT !.valid = TRUE, !.base = p, !.bytes = p]
  BY <1>1, <1>3 DEF Filled, Entry
<1> HIDE DEF one
<1>5. /\ two[e] = [one[e] EXCEPT !.tick = NextTick]
      /\ \A f \in Slot \ {e} :
           two[f] = IF code_cache_tick + 1 = TickMod /\ one[f].valid
                      THEN [one[f] EXCEPT !.tick = 0] ELSE one[f]
      /\ DOMAIN two = Slot
  BY <1>1 DEF Touched
<1> HIDE DEF two
<1>6. \A f \in Slot : entries[f] \in Entry
  BY <1>3
<1>7. two[e].tick = NextTick
  BY <1>1, <1>4, <1>5, <1>6 DEF Entry
<1>8. \A f \in Slot \ {e} :
        two[f].tick = IF code_cache_tick + 1 = TickMod /\ entries[f].valid THEN 0
                      ELSE entries[f].tick
  BY <1>4, <1>5, <1>6 DEF Entry
<1>9. \A f \in Slot : entries'[f] = IF f = e THEN [two[e] EXCEPT !.pin = pin] ELSE two[f]
  BY <1>1, <1>2, <1>5
<1>10. entries'[e].tick = NextTick
  <2>1. PICK ch \in Entry : ch = entries[e]
    BY <1>1, <1>6
  <2>2. one[e] = ch \/ one[e] = [ch EXCEPT !.valid = TRUE, !.base = p, !.bytes = p]
    BY <1>4, <2>1
  <2>3. two[e] = [one[e] EXCEPT !.tick = NextTick]
    BY <1>5
  <2>4. entries'[e] = [two[e] EXCEPT !.pin = pin]
    BY <1>1, <1>9
  <2>5. CASE one[e] = ch
    <3>1. entries'[e] = [[ch EXCEPT !.tick = NextTick] EXCEPT !.pin = pin]
      BY <2>3, <2>4, <2>5
    <3> QED
      BY <3>1 DEF Entry
  <2>6. CASE one[e] = [ch EXCEPT !.valid = TRUE, !.base = p, !.bytes = p]
    <3>1. entries'[e] = [[[ch EXCEPT !.valid = TRUE, !.base = p, !.bytes = p]
                            EXCEPT !.tick = NextTick] EXCEPT !.pin = pin]
      BY <2>3, <2>4, <2>6
    <3> QED
      BY <3>1 DEF Entry
  <2> QED
    BY <2>2, <2>5, <2>6
<1> QED
  BY <1>2, <1>8, <1>9, <1>10 DEF e

\* A load puts its page after all others.
LEMMA LoadsOrdered ==
  ASSUME CacheInv, Ordered, NEW m \in Module, NEW p, NEW pins, Loads(m, p, pins), RecencyNext
  PROVE  Ordered'
<1> DEFINE s == SlotFor(p)
           wraps == code_cache_tick + 1 = TickMod
<1>0. TypeOK /\ PagesOnce
  BY DEF CacheInv
<1>1. /\ s \in Slot /\ (Holding(p) # {} => s \in Holding(p))
      /\ \A f \in Slot \ {s} :
           entries'[f].valid = entries[f].valid /\ entries'[f].base = entries[f].base
      /\ entries'[s].valid /\ entries'[s].base = p
  BY <1>0, LoadsTable
<1>2. /\ code_cache_tick' = NextTick /\ entries'[s].tick = NextTick
      /\ \A f \in Slot \ {s} :
           entries'[f].tick = IF wraps /\ entries[f].valid THEN 0 ELSE entries[f].tick
  BY <1>0, LoadTicks
<1>3. bound'.base = p
  BY DEF Loads, Bound
<1> HIDE DEF s
<1>4. \A f \in Slot \ {s} : entries[f].valid => entries[f].base # p
  BY <1>0, <1>1 DEF Holding, PagesOnce
<1>5. code_cache_tick \in Nat /\ code_cache_tick < TickMod /\ TickMod \in Nat /\ TickMod > 2
      /\ \A f \in Slot : entries[f].tick \in Nat
  BY <1>0, CacheAssumption, TickAssumption DEF TypeOK, Entry
<1>6. Cached' \ {p} = {entries[f].base : f \in {g \in Slot \ {s} : entries[g].valid}}
  <2>1. Cached' = {entries'[f].base : f \in {g \in Slot : entries'[g].valid}}
    BY DEF Cached
  <2> QED
    BY <1>1, <1>4, <2>1
<1>7. CASE ~wraps
  <2>1. NextTick = code_cache_tick + 1
    BY <1>7 DEF NextTick
  <2>2. before' = Kept(p) \cup LoadedLast(p)
    BY <1>2, <1>3, <1>5, <2>1 DEF RecencyNext
  <2>3. \A f \in Slot \ {s} : entries[f].valid =>
          entries'[f].tick = entries[f].tick /\ entries[f].tick <= code_cache_tick
    BY <1>2, <1>7 DEF Ordered
  <2>4. \A e \in Slot : entries'[e].valid => entries'[e].tick <= code_cache_tick'
    BY <1>1, <1>2, <1>5, <2>1, <2>3
  <2>5. ASSUME NEW e \in Slot, NEW f \in Slot, entries'[e].valid, entries'[f].valid
        PROVE  <<entries'[e].base, entries'[f].base>> \in before'
                 <=> entries'[e].tick < entries'[f].tick
    <3>1. CASE e # s /\ f # s
      <4>1. entries[e].valid /\ entries[f].valid /\ entries[e].base # p /\ entries[f].base # p
        BY <1>1, <1>4, <2>5, <3>1
      <4>2. {entries[e].base, entries[f].base} \subseteq Cached' \ {p}
        BY <1>6, <3>1, <4>1
      <4>3. <<entries[e].base, entries[f].base>> \in before'
              <=> <<entries[e].base, entries[f].base>> \in before
        BY <2>2, <4>1, <4>2 DEF Kept, LoadedLast
      <4> QED
        BY <1>1, <2>3, <3>1, <4>1, <4>3 DEF Ordered
    <3>2. CASE e # s /\ f = s
      <4>1. entries[e].valid /\ entries[e].base # p
        BY <1>1, <1>4, <2>5, <3>2
      <4>2. entries[e].base \in Cached' \ {p}
        BY <1>6, <3>2, <4>1
      <4>3. <<entries'[e].base, entries'[f].base>> \in before'
        BY <1>1, <2>2, <3>2, <4>2 DEF LoadedLast
      <4> QED
        BY <1>2, <1>5, <2>1, <2>3, <3>2, <4>1, <4>3
    <3>3. CASE e = s
      <4>1. entries'[e].base = p /\ ~(entries'[e].tick < entries'[f].tick)
        <5>1. entries'[f].tick <= code_cache_tick + 1
          BY <1>2, <2>1, <2>4, <2>5
        <5>2. entries'[e].tick = code_cache_tick + 1 /\ entries'[e].base = p
          BY <1>1, <1>2, <2>1, <3>3
        <5>3. entries'[f].tick \in Nat
          BY <1>1, <1>2, <1>5, <2>1, <2>3, <2>5
        <5> QED
          BY <1>5, <5>1, <5>2, <5>3
      <4>2. \A q : <<p, q>> \notin before'
        BY <2>2 DEF Kept, LoadedLast
      <4> QED
        BY <4>1, <4>2
    <3> QED
      BY <3>1, <3>2, <3>3
  <2> QED
    BY <2>4, <2>5 DEF Ordered
<1>8. CASE wraps
  <2>1. NextTick = 1 /\ code_cache_tick > 1
    BY <1>5, <1>8 DEF NextTick
  <2>2. before' = LoadedLast(p)
    BY <1>2, <1>3, <1>5, <2>1 DEF RecencyNext
  <2>3. \A f \in Slot \ {s} : entries[f].valid => entries'[f].tick = 0
    BY <1>2, <1>8
  <2>4. \A e \in Slot : entries'[e].valid => entries'[e].tick <= code_cache_tick'
    BY <1>1, <1>2, <2>1, <2>3
  <2>5. ASSUME NEW e \in Slot, NEW f \in Slot, entries'[e].valid, entries'[f].valid
        PROVE  <<entries'[e].base, entries'[f].base>> \in before'
                 <=> entries'[e].tick < entries'[f].tick
    <3>1. CASE f # s
      <4>1. entries[f].valid /\ entries'[f].base # p /\ entries'[f].tick = 0
        BY <1>1, <1>4, <2>3, <2>5, <3>1
      <4>2. entries'[e].tick \in {0, 1}
        BY <1>1, <1>2, <2>1, <2>3, <2>5
      <4>3. <<entries'[e].base, entries'[f].base>> \notin before'
        BY <2>2, <4>1 DEF LoadedLast
      <4> QED
        BY <4>1, <4>2, <4>3
    <3>2. CASE e # s /\ f = s
      <4>1. entries[e].valid /\ entries[e].base # p /\ entries'[e].base = entries[e].base
        BY <1>1, <1>4, <2>5, <3>2
      <4>2. entries[e].base \in Cached' \ {p}
        BY <1>6, <3>2, <4>1
      <4>3. <<entries'[e].base, entries'[f].base>> \in before'
        BY <1>1, <2>2, <3>2, <4>1, <4>2 DEF LoadedLast
      <4> QED
        BY <1>2, <2>1, <2>3, <3>2, <4>1, <4>3
    <3>3. CASE e = s /\ f = s
      <4>1. <<p, p>> \notin before'
        BY <2>2 DEF LoadedLast
      <4> QED
        BY <1>1, <1>2, <2>1, <3>3, <4>1
    <3> QED
      BY <3>1, <3>2, <3>3
  <2> QED
    BY <2>4, <2>5 DEF Ordered
<1> QED
  BY <1>7, <1>8

\* A step that loads nothing leaves pages, ticks and the clock alone.
Still ==
  /\ code_cache_tick' = code_cache_tick
  /\ \A e \in Slot : /\ entries'[e].valid = entries[e].valid
                     /\ entries'[e].base = entries[e].base
                     /\ entries'[e].tick = entries[e].tick

\* A load that fails spoils bytes and no more.
LEMMA FailsStill ==
  ASSUME TypeOK, NEW m, NEW p, LoadFails(m, p)
  PROVE  Still
<1>1. CASE UNCHANGED entries
  BY <1>1 DEF LoadFails, Still
<1>2. CASE VictimExists /\ entries' = [entries EXCEPT ![Victim].bytes = Junk]
  <2>1. Victim \in Slot
    BY <1>2, VictimInTable
  <2>2. \A e \in Slot : entries[e] \in Entry
    BY DEF TypeOK
  <2>3. \A e \in Slot :
          entries'[e] = entries[e] \/ entries'[e] = [entries[e] EXCEPT !.bytes = Junk]
    BY <1>2, <2>1 DEF TypeOK
  <2> QED
    BY <2>2, <2>3 DEF LoadFails, Still, Entry
<1> QED
  BY <1>1, <1>2 DEF LoadFails

\* UNPINM takes pins from slots and nothing else.
LEMMA UnpinStill ==
  ASSUME TypeOK, Unpin
  PROVE  Still
<1>1. \A e \in Slot : entries[e] \in Entry
  BY DEF TypeOK
<1>2. \A e \in Slot :
        entries'[e] = entries[e] \/ entries'[e] = [entries[e] EXCEPT !.pin = @ - 1]
  BY DEF Unpin
<1> QED
  BY <1>1, <1>2 DEF Unpin, Still, Entry

\* Every step loads a page or leaves the table still.
LEMMA LoadOrStill ==
  ASSUME CacheInv, Next
  PROVE  Still \/ \E m \in Module, p \in Nat, pins \in BOOLEAN : Loads(m, p, pins)
<1> DEFINE Loading == \E m \in Module, p \in Nat, pins \in BOOLEAN : Loads(m, p, pins)
<1>0. TypeOK /\ module \in Module /\ pc \in Nat
  <2>1. module \in Module /\ pc \in Target(module)
    BY DEF CacheInv, TypeOK
  <2> QED
    BY <2>1, Pages DEF CacheInv
<1>1. ASSUME NEW m \in Module, NEW p, NEW pins \in BOOLEAN, Loads(m, p, pins) PROVE Loading
  <2>1. p \in Nat
    BY <1>1, Pages DEF Loads
  <2> QED
    BY <1>1, <2>1
<1>2. ASSUME NEW m \in Module, NEW p, LoadAttempt(m, p) PROVE Still \/ Loading
  <2>1. Loads(m, p, FALSE) => Loading
    BY <1>1
  <2> QED
    BY <1>0, <1>2, <2>1, FailsStill DEF LoadAttempt
<1>3. ASSUME UNCHANGED cacheVars PROVE Still
  BY <1>3 DEF cacheVars, Still
<1> HIDE DEF Loading
<1>4. ASSUME FetchFast PROVE Still \/ Loading
  BY <1>3, <1>4 DEF FetchFast
<1>5. ASSUME FetchSlow PROVE Still \/ Loading
  BY <1>0, <1>1, <1>5 DEF FetchSlow, ByteRead
<1>6. ASSUME FetchFails PROVE Still \/ Loading
  BY <1>0, <1>6, FailsStill DEF FetchFails, ByteLost
<1>7. ASSUME PinStart PROVE Still \/ Loading
  BY <1>3, <1>7 DEF PinStart
<1>8. ASSUME Unpin PROVE Still \/ Loading
  BY <1>0, <1>8, UnpinStill
<1>9. ASSUME NEW p, NextBlock(p) PROVE Still \/ Loading
  BY <1>0, <1>2, <1>9 DEF NextBlock
<1>10. ASSUME NEW m \in Module, NEW p, Transfer(m, p) \/ LongJmp(m, p) PROVE Still \/ Loading
  BY <1>2, <1>3, <1>10 DEF Transfer, LongJmp
<1>11. ASSUME NEW p, ReadHeader(p) PROVE Still \/ Loading
  BY <1>0, <1>1, <1>11, FailsStill DEF ReadHeader, ByteRead, ByteLost
<1>12. ASSUME PinPage PROVE Still \/ Loading
  BY <1>0, <1>1, <1>12 DEF PinPage
<1>13. ASSUME PinFails PROVE Still \/ Loading
  BY <1>0, <1>13, FailsStill DEF PinFails
<1>14. ASSUME PinDone PROVE Still \/ Loading
  BY <1>0, <1>2, <1>14 DEF PinDone
<1>15. Still \/ Loading
  <2>1. CASE pinning = 0
    <3>1. WithOperands => Still \/ Loading
      BY <1>4, <1>5, <1>6, <1>10, <1>11 DEF WithOperands
    <3> QED
      BY <1>7, <1>8, <1>9, <1>10, <2>1, <3>1 DEF Next, Instruction
  <2>2. CASE pinning # 0
    BY <1>12, <1>13, <1>14, <2>2 DEF Next
  <2> QED
    BY <2>1, <2>2
<1> QED
  BY <1>15 DEF Loading

\* Every step keeps the ticks in the order of the loads.
LEMMA OrderKept ==
  CacheInv /\ Ordered /\ [RecencyNext]_<<vars, before>> => Ordered'
<1> SUFFICES ASSUME CacheInv, Ordered, [RecencyNext]_<<vars, before>> PROVE Ordered'
  OBVIOUS
<1>0. code_cache_tick \in Nat
  BY CacheAssumption DEF CacheInv, TypeOK
<1>1. ASSUME Still, before' = before PROVE Ordered'
  BY <1>1 DEF Still, Ordered
<1>2. CASE RecencyNext
  <2>1. Still \/ \E m \in Module, p \in Nat, pins \in BOOLEAN : Loads(m, p, pins)
    BY <1>2, LoadOrStill DEF RecencyNext
  <2>2. CASE Still
    <3>1. before' = before
      BY <1>0, <1>2, <2>2 DEF RecencyNext, Still
    <3> QED
      BY <1>1, <2>2, <3>1
  <2>3. ASSUME NEW m \in Module, NEW p \in Nat, NEW pins \in BOOLEAN, Loads(m, p, pins)
        PROVE  Ordered'
    BY <1>2, <2>3, LoadsOrdered
  <2> QED
    BY <2>1, <2>2, <2>3
<1>3. CASE UNCHANGED <<vars, before>>
  <2>1. Still /\ before' = before
    BY <1>3 DEF vars, Still
  <2> QED
    BY <1>1, <2>1
<1> QED
  BY <1>2, <1>3

\* A page that leaves the cache is the victim's.
LEMMA VictimOldest ==
  ASSUME CacheInv, Ordered, RecencyNext, NEW e \in Slot, entries[e].valid,
         entries'[e].base # entries[e].base
  PROVE  /\ entries[e].pin = 0
         /\ \A f \in Slot : entries[f].valid /\
              (entries[f].pin = 0 => <<entries[f].base, entries[e].base>> \notin before)
<1>0. TypeOK
  BY DEF CacheInv
<1>1. PICK m \in Module, p \in Nat, pins \in BOOLEAN : Loads(m, p, pins)
  BY LoadOrStill DEF RecencyNext, Still
<1>2. /\ Holding(p) # {} => SlotFor(p) \in Holding(p)
      /\ \A f \in Slot \ {SlotFor(p)} : entries'[f].base = entries[f].base
      /\ entries'[SlotFor(p)].base = p
  BY <1>0, <1>1, LoadsTable
<1>3. e = SlotFor(p) /\ Holding(p) = {}
  BY <1>2 DEF Holding
<1>4. e = Victim /\ VictimExists
  BY <1>1, <1>3 DEF SlotFor, Loads
<1>5. Empty = {}
  <2>1. SUFFICES ASSUME Empty # {} PROVE FALSE
    OBVIOUS
  <2>2. Empty \in SUBSET Slot
    BY DEF Empty
  <2>3. e \in Empty
    BY <1>4, <2>1, <2>2, LeastIn DEF Victim
  <2> QED
    BY <2>3 DEF Empty
<1>6. e \in Oldest
  <2>1. Oldest \in SUBSET Slot /\ Oldest # {}
    BY <1>0, <1>4, <1>5, OldestExists DEF Oldest, Unpinned, VictimExists
  <2> QED
    BY <1>4, <1>5, <2>1, LeastIn DEF Victim
<1>7. entries[e].pin = 0
  BY <1>6 DEF Oldest, Unpinned
<1>8. \A f \in Slot : entries[f].valid
  BY <1>5 DEF Empty
<1>9. ASSUME NEW f \in Slot, entries[f].pin = 0
      PROVE  <<entries[f].base, entries[e].base>> \notin before
  <2>1. entries[e].tick <= entries[f].tick
    BY <1>6, <1>9 DEF Oldest, Unpinned
  <2>2. entries[e].tick \in Nat /\ entries[f].tick \in Nat
    BY <1>0, CacheAssumption DEF TypeOK, Entry
  <2>3. ~(entries[f].tick < entries[e].tick)
    BY <2>1, <2>2
  <2> QED
    BY <1>8, <2>3 DEF Ordered
<1> QED
  BY <1>7, <1>8, <1>9

\* The page evicted is one without a pin that no other was loaded before,
\* whichever loads fail, however often the tick wraps and although the fast
\* path of fetch_byte stamps nothing.
THEOREM OldestEvicted == RecencySpec => EvictsLeastRecent
<1>1. RecencyInit => CacheInv /\ Ordered
  <2>1. RecencyInit => Init
    BY DEF RecencyInit
  <2>2. Init => Ordered
    BY DEF Init, Ordered
  <2> QED
    BY <2>1, <2>2, InitCache
<1>2. CacheInv /\ Ordered /\ [RecencyNext]_<<vars, before>> => CacheInv' /\ Ordered'
  <2>1. [RecencyNext]_<<vars, before>> => [Next]_vars
    BY DEF RecencyNext
  <2> QED
    BY <2>1, CacheStepKeeps, OrderKept
<1>3. CacheInv /\ Ordered /\ [RecencyNext]_<<vars, before>> =>
        [\A e \in Slot :
           entries[e].valid /\ entries'[e].base # entries[e].base
           => /\ entries[e].pin = 0
              /\ \A f \in Slot :
                   /\ entries[f].valid
                   /\ entries[f].pin = 0 =>
                        <<entries[f].base, entries[e].base>> \notin before]_<<vars, before>>
  BY VictimOldest
<1> QED
  BY <1>1, <1>2, <1>3, PTL DEF RecencySpec, EvictsLeastRecent
=============================================================================
