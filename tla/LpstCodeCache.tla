--------------------------- MODULE LpstCodeCache ---------------------------
(***************************************************************************)
(* The bytecode page cache of the LinchpinST virtual machine               *)
(* (lpst_run_core.c) and the instructions that go through it: fetching a   *)
(* byte, NEXTB, LONGJMP, a near call that parses a private header, PINM    *)
(* and UNPINM.                                                             *)
(*                                                                         *)
(* A page of the OBJ file is a number from 1; the contents of a page are   *)
(* the page whose bytes they are, or Junk once a failed read has           *)
(* overwritten some of them.  Reads of the file may fail at any time; the  *)
(* byte that could not be read is a 0 of no page, and the instruction that *)
(* wanted it goes on to its end in the halted machine.                     *)
(***************************************************************************)
EXTENDS Integers, FiniteSets

CONSTANTS
  Module,     \* modules of the image
  FirstPage,  \* Module -> its first page (object_offset)
  LastPage,   \* Module -> the page of its last byte
  Slots,      \* code_cache_entry_count
  TickMod,    \* 2^32 in the code
  PinMax,     \* UINT16_MAX
  MaxPinned,  \* bound on the PINMs of one module that wait for their UNPINM
  Junk        \* bytes of no page

ASSUME ImageAssumption ==
  /\ FirstPage \in [Module -> Nat \ {0}] /\ LastPage \in [Module -> Nat]
  /\ \A m \in Module : FirstPage[m] <= LastPage[m]
  /\ \A m, n \in Module :
       m # n => FirstPage[m] > LastPage[n] \/ FirstPage[n] > LastPage[m]

ASSUME CacheAssumption ==
  /\ Slots \in Nat \ {0} /\ TickMod \in Nat \ {0, 1}
  /\ PinMax \in Nat \ {0} /\ MaxPinned \in 0 .. PinMax
  /\ Junk \notin Int

VARIABLES
  entries,          \* code_cache_entries
  code_cache_tick,
  bound,            \* current_code_page_bytes (as a slot, 0 if NULL) and _base
  module,           \* current_module_id
  pc,               \* the page of program_counter
  underway,         \* whether the instruction at pc has been fetched from
  pinning,          \* the next page PINM loads, 0 outside PINM
  halted,
  fetched,          \* history: the last byte read, as its page and the bytes it is from
  pinned            \* history: PINMs of each module that wait for their UNPINM

vars == <<entries, code_cache_tick, bound, module, pc, underway, pinning, halted,
          fetched, pinned>>
cacheVars == <<entries, code_cache_tick, bound>>

Slot == 1 .. Slots
PagesOf(m) == FirstPage[m] .. LastPage[m]
Page == UNION {PagesOf(m) : m \in Module}

\* A program counter may also have run off the end of its module.
Target(m) == FirstPage[m] .. LastPage[m] + 1

Entry == [valid : BOOLEAN, base : Nat, bytes : Page \cup {0, Junk},
          tick : 0 .. TickMod - 1, pin : 0 .. PinMax]

TypeOK ==
  /\ entries \in [Slot -> Entry]
  /\ \A e \in Slot : entries[e].valid => entries[e].base \in Page
  /\ code_cache_tick \in 0 .. TickMod - 1
  /\ bound \in [slot : 0 .. Slots, base : Nat]
  /\ module \in Module /\ pc \in Target(module)
  /\ underway \in BOOLEAN
  /\ pinning # 0 => pinning \in Target(module)
  /\ halted \in BOOLEAN
  /\ fetched \in [page : Nat, bytes : Page \cup {0, Junk}]
  /\ pinned \in [Module -> 0 .. MaxPinned]

Init ==
  /\ entries = [e \in Slot |-> [valid |-> FALSE, base |-> 0, bytes |-> 0,
                                tick |-> 0, pin |-> 0]]
  /\ code_cache_tick = 0
  /\ bound = [slot |-> 0, base |-> 0]
  /\ module \in Module /\ pc \in PagesOf(module)
  /\ underway = FALSE /\ pinning = 0
  /\ halted = FALSE
  /\ fetched = [page |-> 0, bytes |-> 0]
  /\ pinned = [m \in Module |-> 0]

-----------------------------------------------------------------------------
(* load_code_page                                                           *)

\* A lookup that passes over pinned slots.
HoldingUnpinned(p) ==
  {e \in Slot : entries[e].valid /\ entries[e].base = p /\ entries[e].pin = 0}

\* find_code_cache_entry
Holding(p) == {e \in Slot : entries[e].valid /\ entries[e].base = p}

Least(S) == CHOOSE e \in S : \A f \in S : e <= f

Empty == {e \in Slot : ~entries[e].valid}

\* Pinned slots may be evicted like the others.
Anything == Slot

Unpinned == {e \in Slot : entries[e].pin = 0}

\* The ticks not compared.
AnyUnpinned == Unpinned

\* Unpinned slots none of which was used before another: more than one only
\* after the tick has wrapped.
Oldest == {e \in Unpinned : \A f \in Unpinned : entries[e].tick <= entries[f].tick}

\* select_code_cache_victim
VictimExists == Empty \cup Unpinned # {}
Victim == IF Empty # {} THEN Least(Empty) ELSE Least(Oldest)

SlotFor(p) == IF Holding(p) # {} THEN Least(Holding(p)) ELSE Victim

\* The test for a tick of 0 left out.
UnwrappedTick == code_cache_tick + 1

\* touch_code_cache_entry: a tick that wraps is 1, and every older tick 0.
NextTick == IF code_cache_tick + 1 = TickMod THEN 1 ELSE code_cache_tick + 1

Touched(table, e) ==
  [f \in Slot |->
     IF f = e THEN [table[f] EXCEPT !.tick = NextTick]
     ELSE IF code_cache_tick + 1 = TickMod /\ table[f].valid
       THEN [table[f] EXCEPT !.tick = 0]
       ELSE table[f]]

\* The table with page p in slot e.
Filled(p, e) ==
  IF Holding(p) # {} THEN entries
  ELSE [entries EXCEPT ![e].valid = TRUE, ![e].base = p, ![e].bytes = p]

\* The fast path keeps its old page on a miss.
BoundOnHit(p) ==
  IF Holding(p) # {} THEN [slot |-> SlotFor(p), base |-> p] ELSE bound

\* bind_current_code_page
Bound(p) == [slot |-> SlotFor(p), base |-> p]

\* A load of page p of module m that succeeds; PINM also counts a pin.
Loads(m, p, pins) ==
  /\ p \in PagesOf(m)
  /\ Holding(p) # {} \/ VictimExists
  /\ LET e == SlotFor(p)
         pin == entries[e].pin
     IN entries' = [Touched(Filled(p, e), e) EXCEPT
                      ![e].pin = IF pins /\ pin < PinMax THEN pin + 1 ELSE pin]
  /\ code_cache_tick' = NextTick
  /\ bound' = Bound(p)

\* A load that returns NULL: p is not a page of m, every slot is pinned, or
\* the file cannot be read.  A short read has overwritten the victim, which
\* still passes for the page it held.
LoadFails(m, p) ==
  /\ \/ p \notin PagesOf(m) /\ UNCHANGED entries
     \/ /\ p \in PagesOf(m) /\ Holding(p) = {}
        /\ \/ UNCHANGED entries
           \/ VictimExists /\ entries' = [entries EXCEPT ![Victim].bytes = Junk]
  /\ UNCHANGED <<code_cache_tick, bound>>

\* A load whose caller does not look at the result.
LoadAttempt(m, p) == Loads(m, p, FALSE) \/ LoadFails(m, p)

-----------------------------------------------------------------------------
(* Instructions.                                                            *)

OnFastPath == bound.slot # 0 /\ bound.base = pc

\* read_code_byte_at, of a page that is or can be loaded.
ByteRead(p) ==
  /\ Loads(module, p, FALSE)
  /\ fetched' = [page |-> p, bytes |-> entries'[SlotFor(p)].bytes]
  /\ UNCHANGED halted

\* read_code_byte_at, of one that cannot: it answers 0.
ByteLost(p) ==
  /\ LoadFails(module, p)
  /\ fetched' = [page |-> p, bytes |-> 0]
  /\ halted' = TRUE

\* fetch_byte: the program counter stays on the page or goes on to the next.
\* Every instruction starts with one.
Advance == pc' \in {pc, pc + 1} \cap Target(module)

FetchFast ==
  /\ OnFastPath
  /\ fetched' = [page |-> pc, bytes |-> entries[bound.slot].bytes]
  /\ Advance /\ underway' = TRUE
  /\ UNCHANGED <<cacheVars, module, pinning, halted, pinned>>

FetchSlow ==
  /\ ~OnFastPath /\ ByteRead(pc)
  /\ Advance /\ underway' = TRUE
  /\ UNCHANGED <<module, pinning, pinned>>

\* A 0 for an opcode is BREAK, which does nothing more.  A 0 for an operand is
\* taken as one.
FetchFails ==
  /\ ~OnFastPath /\ ByteLost(pc)
  /\ Advance
  /\ UNCHANGED <<module, underway, pinning, pinned>>

\* The instruction ends with the program counter at page p of module m.
Leave(m, p) ==
  /\ underway /\ underway' = FALSE
  /\ module' = m /\ pc' = p
  /\ UNCHANGED <<pinning, halted, fetched, pinned>>

\* Jumps, calls and returns load nothing; nor does an instruction that leaves
\* the program counter where its last fetch did.
Transfer(m, p) == Leave(m, p) /\ UNCHANGED cacheVars

\* NEXTB: on to the page after the one the instruction starts in.
NextBlock(p) ==
  /\ p \in {pc, pc + 1} \cap Target(module)
  /\ Leave(module, p) /\ LoadAttempt(module, p)

\* LONGJMP and LONGJMPR
LongJmp(m, p) == Leave(m, p) /\ LoadAttempt(m, p)

\* parse_private_header reads the callee's header before the call, a byte at a
\* time.  It does not notice one that it could not read: a marker of 0 is never
\* the last, so its loop goes on, over the pages of the module and past its end,
\* for as long as it does not find one.
ReadHeader(p) ==
  /\ underway
  /\ ByteRead(p) \/ ByteLost(p)
  /\ UNCHANGED <<module, pc, underway, pinning, pinned>>

\* PINM loads and pins every page of the current module in turn, halts at
\* the first that fails, and then loads the page of the program counter.
PinStart ==
  /\ underway /\ underway' = FALSE
  /\ pinned[module] < MaxPinned
  /\ pinning' = FirstPage[module]
  /\ UNCHANGED <<cacheVars, module, pc, halted, fetched, pinned>>

PinPage ==
  /\ pinning \in PagesOf(module)
  /\ Loads(module, pinning, TRUE)
  /\ pinning' = pinning + 1
  /\ UNCHANGED <<module, pc, underway, halted, fetched, pinned>>

PinFails ==
  /\ pinning \in PagesOf(module)
  /\ LoadFails(module, pinning)
  /\ pinning' = 0 /\ halted' = TRUE
  /\ UNCHANGED <<module, pc, underway, fetched, pinned>>

PinDone ==
  /\ pinning = LastPage[module] + 1
  /\ LoadAttempt(module, pc)
  /\ pinning' = 0
  /\ pinned' = [pinned EXCEPT ![module] = @ + 1]
  /\ UNCHANGED <<module, pc, underway, halted, fetched>>

\* UNPINM
Unpin ==
  /\ underway /\ underway' = FALSE
  /\ entries' = [e \in Slot |->
       IF /\ entries[e].valid /\ entries[e].pin > 0
          /\ entries[e].base \in PagesOf(module)
         THEN [entries[e] EXCEPT !.pin = @ - 1] ELSE entries[e]]
  /\ pinned' = [pinned EXCEPT ![module] = IF @ > 0 THEN @ - 1 ELSE 0]
  /\ UNCHANGED <<code_cache_tick, bound, module, pc, pinning, halted, fetched>>

\* Instructions with operands.
WithOperands ==
  \/ FetchFast \/ FetchSlow \/ FetchFails
  \/ \E p \in Target(module) : ReadHeader(p)
  \/ \E m \in Module : \E p \in Target(m) : Transfer(m, p)

\* NEXTB, LONGJMP, PINM and UNPINM are all opcode.
Instruction ==
  \/ WithOperands
  \/ PinStart \/ Unpin
  \/ \E p \in {pc, pc + 1} : NextBlock(p)
  \/ \E m \in Module : \E p \in Target(m) : LongJmp(m, p)

\* The loop of lpst_run looks at is_halted before an instruction only.
Next ==
  IF pinning # 0 THEN PinPage \/ PinFails \/ PinDone
  ELSE IF halted THEN underway /\ WithOperands ELSE Instruction

Spec == Init /\ [][Next]_vars

-----------------------------------------------------------------------------
(* Safety.                                                                  *)

\* As long as it has not halted the machine takes the bytes of the OBJ file and
\* nothing else for instructions and headers, though a failed read leaves a
\* slot that passes for a page it no longer holds: load_code_page, the fast path
\* of fetch_byte, and the retry of a load that NEXTB or LONGJMP did not look at.
\* The instruction in which it halts may see the 0 of a failed read or such a
\* slot, but not even that one sees the bytes of another page.
FetchedBytesTrue ==
  /\ ~halted => fetched.bytes = fetched.page
  /\ fetched.bytes \in {fetched.page, 0, Junk}

\* No page is in two slots, so find_code_cache_entry's first match is the one.
PagesOnce ==
  \A e, f \in Slot :
    entries[e].valid /\ entries[f].valid /\ entries[e].base = entries[f].base => e = f

PinsDue(p) ==
  LET m == CHOOSE n \in Module : p \in PagesOf(n) IN
    pinned[m] + (IF m = module /\ p < pinning THEN 1 ELSE 0)

\* lpst_exec.h, pin_count: "number of active PINM requests keeping this page
\* resident": every slot counts them, also half-way through a PINM, and a
\* page without a slot has none.
PinsExact ==
  ~halted =>
    /\ \A e \in Slot : entries[e].pin =
         IF entries[e].valid THEN PinsDue(entries[e].base) ELSE 0
    /\ \A p \in Page : PinsDue(p) > 0 => Holding(p) # {}
=============================================================================
