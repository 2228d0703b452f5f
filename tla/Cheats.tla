------------------------------- MODULE Cheats -------------------------------
(***************************************************************************)
(* rosalina's cheats: the interpreter of a cheat's codes, and the list a   *)
(* title's file is read into.  Both run in the menu thread and nothing     *)
(* else touches their state.                                               *)
(*                                                                         *)
(* A code stands for its effect on what is executed next.  What games have *)
(* in memory is not known: a condition may hold or not, an access may      *)
(* fail, a count may be anything.  Lines are numbered from 0.              *)
(***************************************************************************)
EXTENDS Integers, SequencesExt

CONSTANTS
    Programs,       \* sequences of Codes: what cheats may consist of
    MaxTurns,       \* bounds the count of a repeat
    StackBits,      \* width of ifStack, 32
    CountRange,     \* how many values ifCount has, 256
    LoopRange,      \* loopLine, 256, half of them negative
    LineRange,      \* typeELine, 256
    Files,          \* sequences of "name" and "code": what a file may hold
    BufferSize,     \* of cheatBuffer, in codes: 4096
    DescriptionSize,\* of a CheatDescription: 7
    ListRange       \* how many values cheatCount has, 256

Codes == {"access",     \* 0-2, B, D6-DB, F1-F3, FC: memory is read or written
          "compute",    \* D3-D5, DC, F0, F4-FB, FF: registers only
          "select",     \* DF: registers and modes
          "if",         \* 3-A, DD, DE
          "repeat",     \* C
          "endif", "break",     \* D0 0, D0 1
          "until",              \* D1
          "endall", "return",   \* D2 0, D2 1
          "bytes", "search",    \* E, FE, with one line of data
          "invalid"}            \* two zero words, or an unknown code

ASSUME CheatsAssumption ==
    /\ Programs \subseteq Seq(Codes) /\ MaxTurns \in Nat
    /\ {StackBits, CountRange, LoopRange, LineRange, ListRange} \subseteq Nat \ {0}
    /\ Files \subseteq Seq({"name", "code"})
    /\ DescriptionSize \in Nat \ {0} /\ BufferSize \in Nat \ {0, 1}

VARIABLES
    codes,          \* of the cheat that is applied
    result,         \* "none", "running", or what Cheat_ApplyCheat returned: 0 or 1
    index,
    ifStack,        \* its bits, lowest first: TRUE where a condition does not hold
    ifCount, storedStack, storedIfCount, loopLine, loopCount,
    opened,         \* history: do the conditions that have not been ended hold?
    storedOpened,   \* history: those when the repeat began
    deep,           \* history: there were more than fit ifStack or ifCount
    file, failed,   \* the last file that was loaded; reading it failed in the middle
    cheats,         \* number -> codesCount of the cheat it points to
    cheatCount

stackVars == <<ifStack, ifCount, opened, deep>>
loopVars == <<storedStack, storedIfCount, storedOpened, loopLine, loopCount>>
icvars == <<codes, result, index, stackVars, loopVars>>
listVars == <<file, failed, cheats, cheatCount>>

NoLoop == -1
Zeros == [k \in 1 .. StackBits |-> FALSE]
Signed(n) == ((n + LoopRange \div 2) % LoopRange) - LoopRange \div 2

Here(set) == result = "running" /\ codes[index + 1] \in set /\ UNCHANGED codes

(* The end of the loop over the codes, from the line a code has left index  *)
(* at; a negative loopLine is far beyond the last.                          *)
GoOn(line) ==
    LET to == IF line < 0 THEN Len(codes) ELSE line + 1
    IN  /\ index' = to
        /\ result' = IF to < Len(codes) THEN "running" ELSE "1"
Return0 == result' = "0" /\ UNCHANGED <<index, stackVars, loopVars>>

skipExecution == ifStack[1]
PushAlone(holds) == <<~holds>> \o SubSeq(ifStack, 1, StackBits - 1)   \* a mutant
Pushed(holds) == <<~holds \/ skipExecution>> \o SubSeq(ifStack, 1, StackBits - 1)
Push(holds) ==
    /\ ifStack' = Pushed(holds)
    /\ ifCount' = (ifCount + 1) % CountRange
    /\ opened' = Append(opened, holds)
    /\ deep' = (deep \/ Len(opened) >= StackBits \/ Len(opened) + 1 >= CountRange)
Pop ==
    /\ ifStack' = Append(Tail(ifStack), FALSE)
    /\ ifCount' = ifCount - 1
    /\ opened' = SubSeq(opened, 1, Len(opened) - 1)
    /\ UNCHANGED deep
PopAll == ifStack' = Zeros /\ ifCount' = 0 /\ opened' = <<>> /\ UNCHANGED deep

-----------------------------------------------------------------------------
(* Cheat_ApplyCheat: every register is reset, then one code after another.  *)
Apply(program) ==
    /\ result # "running"
    /\ codes' = program /\ index' = 0
    /\ result' = IF program = <<>> THEN "1" ELSE "running"
    /\ loopLine' = NoLoop /\ loopCount' = 0
    /\ ifStack' = Zeros /\ storedStack' = Zeros /\ ifCount' = 0 /\ storedIfCount' = 0
    /\ opened' = <<>> /\ storedOpened' = <<>> /\ deep' = FALSE

(* Codes whose effect the model leaves out; those of type DF do not look at *)
(* skipExecution.                                                           *)
Access == /\ Here({"access"})
          /\ \/ GoOn(index) /\ UNCHANGED <<stackVars, loopVars>>
             \/ ~skipExecution /\ Return0
Compute == Here({"compute"}) /\ GoOn(index) /\ UNCHANGED <<stackVars, loopVars>>
Select == /\ Here({"select"})
          /\ \/ GoOn(index) /\ UNCHANGED <<stackVars, loopVars>>
             \/ Return0
Invalid == Here({"invalid"}) /\ Return0

(* A condition reads memory even when it is skipped.                        *)
If == /\ Here({"if"})
      /\ \/ /\ \E holds \in BOOLEAN : Push(holds)
            /\ GoOn(index) /\ UNCHANGED loopVars
         \/ Return0

Repeat ==
    /\ Here({"repeat"})
    /\ loopCount' \in 0 .. MaxTurns
    /\ loopLine' = Signed(index)
    /\ storedStack' = ifStack /\ storedIfCount' = ifCount /\ storedOpened' = opened
    /\ GoOn(index) /\ UNCHANGED stackVars

(* One turn less: from the line after the repeat again, or on.              *)
TurnsKept == loopCount      \* a mutant
TurnsLeft == loopCount - 1
NextTurn ==
    /\ loopCount' = TurnsLeft
    /\ loopLine' = IF loopCount' = 0 THEN NoLoop ELSE loopLine
    /\ GoOn(IF loopCount' = 0 \/ loopLine = NoLoop THEN index ELSE loopLine)
    /\ UNCHANGED <<storedStack, storedIfCount, storedOpened>>

(* D0: ends the last condition.  In a repeat those it began with stay, and  *)
(* once none of its own is left D0 ends a turn of it.                       *)
InLoop == loopLine # NoLoop
HasOwn == ifCount > 0 /\ (InLoop => ifCount > storedIfCount)
EndIf ==
    /\ Here({"endif"})
    /\ \/ HasOwn /\ Pop /\ GoOn(index) /\ UNCHANGED loopVars
       \/ ~HasOwn /\ InLoop /\ loopCount > 0 /\ NextTurn /\ UNCHANGED stackVars
       \/ ~HasOwn /\ ~(InLoop /\ loopCount > 0) /\ GoOn(index)
          /\ UNCHANGED <<stackVars, loopVars>>

(* Leaves the repeat: on after the line that follows the next D1 or D2.     *)
LoopEnds == {k \in index + 1 .. Len(codes) - 1 : codes[k + 1] \in {"until", "endall"}}
Break ==
    /\ Here({"break"})
    /\ IF skipExecution
       THEN GoOn(index) /\ UNCHANGED loopVars
       ELSE /\ loopCount' = 0 /\ loopLine' = NoLoop
            /\ GoOn(IF LoopEnds = {} THEN Len(codes)
                    ELSE 1 + CHOOSE k \in LoopEnds : \A m \in LoopEnds : k <= m)
            /\ UNCHANGED <<storedStack, storedIfCount, storedOpened>>
    /\ UNCHANGED stackVars

(* D1: ends the repeat's own conditions, and a turn of it.                  *)
Until ==
    /\ Here({"until"})
    /\ IF loopCount > 0
       THEN /\ ifStack' = storedStack /\ ifCount' = storedIfCount
            /\ opened' = storedOpened /\ UNCHANGED deep
            /\ NextTurn
       ELSE GoOn(index) /\ UNCHANGED <<stackVars, loopVars>>

(* D2: ends a turn; ends everything after the last.                         *)
EndAll ==
    /\ Here({"endall"})
    /\ \/ loopCount = 0 /\ PopAll /\ GoOn(index) /\ UNCHANGED loopVars
       \/ loopCount = 1 /\ PopAll /\ NextTurn
       \/ loopCount > 1 /\ NextTurn /\ UNCHANGED stackVars
Leave == /\ Here({"return"})
         /\ GoOn(IF skipExecution THEN index ELSE Len(codes))
         /\ UNCHANGED <<stackVars, loopVars>>

(* E: what it writes is on the next line, whose number is kept in 8 bits.   *)
Bytes == /\ Here({"bytes"})
         /\ \/ GoOn((index + 1) % LineRange) /\ UNCHANGED <<stackVars, loopVars>>
            \/ ~skipExecution /\ Return0

(* FE: a condition on memory.  What is searched for is on the next line,    *)
(* which is passed over only when the search is made.                       *)
Search ==
    /\ Here({"search"})
    /\ \/ /\ index + 1 < Len(codes) /\ skipExecution
          /\ Push(FALSE) /\ GoOn(index) /\ UNCHANGED loopVars
       \/ /\ index + 1 < Len(codes) /\ ~skipExecution
          /\ \E found \in BOOLEAN : Push(found)
          /\ GoOn(index + 1) /\ UNCHANGED loopVars
       \/ (skipExecution => index + 1 >= Len(codes)) /\ Return0

Interpret == \/ Access \/ Compute \/ Select \/ Invalid \/ If \/ Repeat \/ EndIf \/ Break \/ Until
             \/ EndAll \/ Leave \/ Bytes \/ Search

InterpreterInit ==
    /\ codes = <<>> /\ result = "none" /\ index = 0
    /\ ifStack = Zeros /\ storedStack = Zeros /\ ifCount = 0 /\ storedIfCount = 0
    /\ loopLine = NoLoop /\ loopCount = 0
    /\ opened = <<>> /\ storedOpened = <<>> /\ deep = FALSE
InterpreterNext == Interpret \/ \E program \in Programs : Apply(program)
InterpreterSpec == InterpreterInit /\ [][InterpreterNext]_icvars

-----------------------------------------------------------------------------
(* Cheat_LoadCheatsIntoMemory, line by line: `cheat' is the one that is     *)
(* being read, `size' cheatSize, `stop' that the loop was left.  Of the     *)
(* lines only those that are left once comments are skipped are modelled.   *)
NoRoomKeeping(s) == [s EXCEPT !.stop = TRUE]    \* a mutant: what was read of it stays
NoRoom(s) == [s EXCEPT !.count = (@ + ListRange - 1) % ListRange, !.stop = TRUE]
CodeLine(s) ==
    CASE s.size + 1 >= BufferSize -> NoRoom(s)
      [] s.size + 1 < BufferSize /\ s.cheat = NoLoop -> s
      [] OTHER -> [s EXCEPT !.cheats[s.cheat] = @ + 1, !.size = @ + 1]
NameLine(s) ==
    IF s.cheat # NoLoop /\ s.cheats[s.cheat] = 0 THEN s        \* another name for it
    ELSE IF s.size + DescriptionSize >= BufferSize THEN [s EXCEPT !.stop = TRUE]
    ELSE [s EXCEPT !.cheats[s.count] = 0, !.cheat = s.count,
                   !.count = (@ + 1) % ListRange, !.size = @ + DescriptionSize]
Line(s, line) == IF s.stop THEN s ELSE IF line = "code" THEN CodeLine(s) ELSE NameLine(s)
NoLine == [cheats |-> cheats, count |-> 0, cheat |-> NoLoop, size |-> 0, stop |-> FALSE]
Loaded(lines) ==
    LET after[k \in 0 .. Len(lines)] == IF k = 0 THEN NoLine ELSE Line(after[k - 1], lines[k])
        s == after[Len(lines)]
    IN  IF s.count > 0 /\ s.cheats[s.count - 1] = 0 THEN [s EXCEPT !.count = @ - 1] ELSE s
LoadCheatsIntoMemory(f, lines) ==
    /\ file' = f /\ failed' = (lines < Len(f))
    /\ cheats' = Loaded(SubSeq(f, 1, lines)).cheats
    /\ cheatCount' = Loaded(SubSeq(f, 1, lines)).count

LoadInit == /\ file = <<>> /\ failed = FALSE
            /\ cheats = [k \in 0 .. ListRange - 1 |-> 0] /\ cheatCount = 0
LoadNext == \E f \in Files : \E lines \in 0 .. Len(f) : LoadCheatsIntoMemory(f, lines)
LoadSpec == LoadInit /\ [][LoadNext]_listVars

-----------------------------------------------------------------------------
(* While no more conditions are open than ifStack and ifCount have room     *)
(* for, the bits say of each whether it and those around it hold; so a code *)
(* is skipped exactly when a condition it stands under does not hold,       *)
(* whatever repeats, breaks and ends came before it.                        *)
SkipsNest ==
    ~deep =>
        /\ ifCount = Len(opened)
        /\ \A k \in 1 .. StackBits :
              ifStack[k] <=> \E m \in 1 .. Len(opened) : m <= Len(opened) + 1 - k /\ ~opened[m]

(* Interpretation ends, however repeats are nested, left or jumped into:    *)
(* the menu thread, which also shows the menu, is not caught in a cheat.    *)
EveryCheatEnds == result = "running" ~> result # "running"

(* What a file says.  A cheat begins with the last of some names and has    *)
(* the codes up to the next name; they are numbered from 0.                 *)
Begins(f) == {k \in DOMAIN f : k < Len(f) /\ f[k] = "name" /\ f[k + 1] = "code"}
Number(f, k) == Cardinality({m \in Begins(f) : m < k})
CodesFrom(f, k) == Cardinality({m \in k + 1 .. Len(f) : \A l \in k + 1 .. m : f[l] = "code"})

(* Of a file with fewer cheats than cheatCount has values, the list holds   *)
(* the first ones, each in its place and with every code it has there: one  *)
(* the buffer has no room for is not applied in part.                       *)
ListIsWhole ==
    ~failed /\ Cardinality(Begins(file)) < ListRange =>
        /\ cheatCount <= Cardinality(Begins(file))
        /\ \A k \in Begins(file) :
              Number(file, k) < cheatCount => cheats[Number(file, k)] = CodesFrom(file, k)

(* How codes are interpreted, and how they are read.                        *)
CheatsInv == SkipsNest /\ ListIsWhole

-----------------------------------------------------------------------------
(* What the comments of Cheat_ApplyCheat say of some codes, and what holds  *)
(* only while nothing is at its limit.                                      *)
On(code) == result = "running" /\ codes[index + 1] = code

(* "D0: ends most recent conditional", where no repeat is going on.         *)
EndIfEnds ==
    [][On("endif") /\ loopCount = 0 /\ opened # <<>>
          => opened' = SubSeq(opened, 1, Len(opened) - 1)]_icvars

(* "D2: ends all conditionals/repeats before it": the next turn of a repeat *)
(* begins under the conditions the first began under.                       *)
TurnsBeginAlike == [][On("endall") /\ index' <= index => opened' = storedOpened]_icvars

(* "Loop break": on with the line after the end of the loop.                *)
BreakGoesOn ==
    [][On("break") /\ ~skipExecution /\ LoopEnds # {} => index' - 1 \in LoopEnds]_icvars

(* What is searched for is no code, be the search made or skipped.          *)
DataIsSkipped == [][On("search") /\ result' = "running" => index' = index + 2]_icvars
=============================================================================
