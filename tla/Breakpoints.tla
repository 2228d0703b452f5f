----------------------------- MODULE Breakpoints -----------------------------
(***************************************************************************)
(* The software breakpoints of a context of the GDB server (breakpoints.c):*)
(* a table sorted by address and searched by halving, and the instructions *)
(* it replaces in the memory of the process.  Memory is counted in         *)
(* halfwords; an ARM instruction takes two, a Thumb instruction one.       *)
(***************************************************************************)
EXTENDS Integers, SequencesExt

CONSTANTS NbHalves,          \* halfwords of code
          MAX_BREAKPOINT     \* entries of the table (64)

ASSUME BreakpointAssumption == NbHalves \in Nat \ {0} /\ MAX_BREAKPOINT \in Nat

Halves == 0 .. NbHalves - 1
(* The instruction at h is h itself; these are the two breakpoints'.        *)
Trap(size) == IF size = 1 THEN <<NbHalves>> ELSE <<NbHalves + 1, NbHalves + 2>>

VARIABLES
    breakpoints,   \* the entries in use, the first at index 1
    memory,        \* halfword -> what is there
    kept           \* halfwords a persistent breakpoint was left in by a detach

bkvars == <<breakpoints, memory, kept>>

Span(address, size) == address .. address + size - 1
SpanOf(b) == Span(b.address, b.instructionSize)
Overlaps(address, size) ==
    \E k \in DOMAIN breakpoints :
        /\ SpanOf(breakpoints[k]) \cap Span(address, size) # {}
        /\ breakpoints[k].address # address

Written(address, code) ==
    [h \in Halves |-> IF h \in Span(address, Len(code)) THEN code[h - address + 1] ELSE memory[h]]

BreakpointInit ==
    /\ breakpoints = <<>>
    /\ memory = [h \in Halves |-> h]
    /\ kept = {}

(* The search by halving, on an interval <<a, b>> of indices: the half that *)
(* is left of it, and when it ends; the mutant ends it a turn early.        *)
nbBreakpoints == Len(breakpoints)
Middle(s) == (s[1] + s[2]) \div 2
HalfOf(s, address) == IF breakpoints[Middle(s)].address < address
                      THEN <<Middle(s), s[2]>> ELSE <<s[1], Middle(s)>>
NarrowTooSoon(s) == s[2] - s[1] <= 2
Narrow(s) == s[2] - s[1] <= 1

(* The index of the entry at address, or of the first one past it.          *)
FindClosestBreakpointSlot(address) ==
    LET half[s \in (1 .. nbBreakpoints) \X (1 .. nbBreakpoints)] ==
            IF breakpoints[Middle(s)].address = address THEN Middle(s)
            ELSE IF Narrow(HalfOf(s, address)) THEN HalfOf(s, address)[2]
            ELSE half[HalfOf(s, address)]
    IN  IF nbBreakpoints = 0 \/ address <= breakpoints[1].address THEN 1
        ELSE IF address > breakpoints[nbBreakpoints].address THEN nbBreakpoints + 1
        ELSE half[<<1, nbBreakpoints>>]

Has(address) == LET id == FindClosestBreakpointSlot(address)
                IN  id <= nbBreakpoints /\ breakpoints[id].address = address

(* A client does not set a breakpoint inside another one's instruction.     *)
(* Reading or writing the process' memory may fail: nothing is kept then.   *)
AddBreakpoint(address, size, persist) ==
    /\ size = 2 => address % 2 = 0 /\ address + 1 \in Halves
    /\ ~Overlaps(address, size)
    /\ ~Has(address) /\ nbBreakpoints < MAX_BREAKPOINT
    /\ breakpoints' = InsertAt(breakpoints, FindClosestBreakpointSlot(address),
                               [address |-> address, instructionSize |-> size, persistent |-> persist,
                                savedInstruction |-> [k \in 1 .. size |-> memory[address + k - 1]]])
    /\ memory' = Written(address, Trap(size))
    /\ UNCHANGED kept

RemoveBreakpoint(address) ==
    LET id == FindClosestBreakpointSlot(address)
    IN  /\ Has(address)
        /\ memory' = Written(address, breakpoints[id].savedInstruction)
        /\ breakpoints' = RemoveAt(breakpoints, id)
        /\ UNCHANGED kept

(* GDB_DetachFromProcess: all are disabled but the persistent ones.         *)
DetachBreakpoints ==
    LET stay == {k \in DOMAIN breakpoints : breakpoints[k].persistent}
        of(h) == {k \in DOMAIN breakpoints \ stay : h \in SpanOf(breakpoints[k])}
    IN  /\ breakpoints # <<>>
        /\ breakpoints' = <<>>
        /\ memory' = [h \in Halves |->
              IF of(h) = {} THEN memory[h]
              ELSE LET b == breakpoints[CHOOSE k \in of(h) : TRUE]
                   IN  b.savedInstruction[h - b.address + 1]]
        /\ kept' = kept \cup UNION {SpanOf(breakpoints[k]) : k \in stay}

BreakpointNext ==
    \/ \E h \in Halves, size \in {1, 2}, persist \in BOOLEAN : AddBreakpoint(h, size, persist)
    \/ \E h \in Halves : RemoveBreakpoint(h)
    \/ DetachBreakpoints

BreakpointSpec == BreakpointInit /\ [][BreakpointNext]_bkvars
-----------------------------------------------------------------------------
Covered == UNION {SpanOf(breakpoints[k]) : k \in DOMAIN breakpoints}

(* The table is sorted, the search by halving finds every breakpoint and    *)
(* nothing else, and the process runs its own code wherever there is no     *)
(* breakpoint: none is left behind but the persistent ones, and no          *)
(* instruction is lost.                                                     *)
BreakpointsInv ==
    /\ \A j, k \in DOMAIN breakpoints : j < k => breakpoints[j].address < breakpoints[k].address
    /\ \A h \in Halves : Has(h) <=> \E k \in DOMAIN breakpoints : breakpoints[k].address = h
    /\ \A k \in DOMAIN breakpoints :
          \A h \in SpanOf(breakpoints[k]) : h \notin kept =>
              breakpoints[k].savedInstruction[h - breakpoints[k].address + 1] = h
    /\ \A h \in Halves : h \in Covered \cup kept <=> memory[h] # h
=============================================================================
