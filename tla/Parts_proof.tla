---------------------------- MODULE Parts_proof -----------------------------
(***************************************************************************)
(* Proofs about the small machines MCParts runs: the array of services,    *)
(* pm's task runner, rosalina's cheats, pm's pool of headers and sm's      *)
(* linked lists.                                                           *)
(***************************************************************************)
EXTENDS ServiceTable, LinkedList, TaskRunner, Cheats, ExHeaderInfoHeap,
        FiniteSetTheorems, SequenceTheorems, TLAPS

-----------------------------------------------------------------------------
(***************************************************************************)
(* The service table keeps its entries apart, the loop of                  *)
(* UnregisterProcess leaves none of its process, and the table implements  *)
(* the set of ServiceSet, for every capacity and every set of entries.     *)
(***************************************************************************)

LEMMA SlotRange == \A k : k \in Slots <=> k \in Nat /\ k < MaxServices
BY TableAssumption DEF Slots

(* The table after an entry is written to the first unused slot.            *)
LEMMA TableAfterRegister ==
    ASSUME TableInv, NEW e \in Entries, Register(e)
    PROVE  /\ TableInv'
           /\ Table' = Table \cup {e}
<1> USE TableAssumption, SlotRange
<1>1. nbServices \in Slots BY DEF TableInv, TableTypeOK, Register
<1>2. nbServices' = nbServices + 1 /\ servicesInfo'[nbServices] = e
  BY <1>1 DEF TableInv, TableTypeOK, Register
<1>3. \A k \in Used : servicesInfo'[k] = servicesInfo[k] /\ k # nbServices
  BY <1>1 DEF TableInv, TableTypeOK, Register, Used
<1>4. Used' = Used \cup {nbServices} /\ nbServices \notin Used
  BY <1>1, <1>2 DEF TableInv, TableTypeOK, Used
<1>5. Table' = Table \cup {e} BY <1>2, <1>3, <1>4 DEF Table
<1>6. TableTypeOK' BY <1>1 DEF TableInv, TableTypeOK, Register
<1>7. SlotsDistinct'
  <2>1. \A k \in Used' : servicesInfo'[k] \in Entries
    BY <1>2, <1>3, <1>4 DEF TableInv, SlotsDistinct
  <2>2. \A k \in Used : servicesInfo[k] # e BY DEF Register, Table
  <2>3. QED BY <2>1, <2>2, <1>2, <1>3, <1>4 DEF TableInv, SlotsDistinct
<1>8. PassedSlotsKept' BY DEF PassedSlotsKept, Register
<1>9. QED BY <1>5, <1>6, <1>7, <1>8 DEF TableInv, Register

(* The table after the last entry has replaced the one in slot k.           *)
LEMMA TableAfterDrop ==
    ASSUME TableInv, NEW k \in Used, DropAt(k)
    PROVE  /\ servicesInfo' \in [Slots -> Entries \cup {Empty}]
           /\ nbServices' \in 0 .. MaxServices
           /\ SlotsDistinct'
           /\ Table' = Table \ {servicesInfo[k]}
           /\ \A j \in Used' : j < k => servicesInfo'[j] = servicesInfo[j] /\ j \in Used
<1> USE TableAssumption, SlotRange
<1> DEFINE end == nbServices - 1
<1>1. end \in Used /\ nbServices' = end
  BY DEF TableInv, TableTypeOK, Used, DropAt
<1>2. Used' = Used \ {end} BY <1>1 DEF TableInv, TableTypeOK, Used
<1>3. /\ servicesInfo' \in [Slots -> Entries \cup {Empty}]
      /\ \A j \in Slots : servicesInfo'[j] = IF j = k THEN servicesInfo[end]
                                                      ELSE servicesInfo[j]
  BY <1>1 DEF TableInv, TableTypeOK, Used, DropAt
<1>4. Used \subseteq Slots BY DEF Used
<1>5. \A i1, j \in Used : servicesInfo[i1] = servicesInfo[j] => i1 = j
  BY DEF TableInv, SlotsDistinct
<1>6. \A j \in Used : servicesInfo[j] \in Entries BY DEF TableInv, SlotsDistinct
<1> HIDE DEF end
<1>7. SlotsDistinct' BY <1>1, <1>2, <1>3, <1>4, <1>5, <1>6 DEF SlotsDistinct
<1>8. Table' = Table \ {servicesInfo[k]}
  <2>1. ASSUME NEW j \in Used' PROVE servicesInfo'[j] \in Table \ {servicesInfo[k]}
    <3>1. CASE j = k BY <3>1, <1>1, <1>2, <1>3, <1>4, <1>5 DEF Table
    <3>2. CASE j # k BY <3>2, <1>2, <1>3, <1>4, <1>5 DEF Table
    <3>3. QED BY <3>1, <3>2
  <2>2. ASSUME NEW j \in Used, j # k PROVE servicesInfo[j] \in Table'
    <3>1. CASE j = end
      <4>1. k \in Used' /\ servicesInfo'[k] = servicesInfo[j]
        BY <3>1, <2>2, <1>2, <1>3, <1>4
      <4>2. QED BY <4>1 DEF Table
    <3>2. CASE j # end
      <4>1. j \in Used' /\ servicesInfo'[j] = servicesInfo[j]
        BY <3>2, <2>2, <1>2, <1>3, <1>4
      <4>2. QED BY <4>1 DEF Table
    <3>3. QED BY <3>1, <3>2
  <2>3. QED BY <2>1, <2>2 DEF Table
<1>9. nbServices' \in 0 .. MaxServices
  BY <1>1 DEF end, Used, TableInv, TableTypeOK
<1>10. \A j \in Used' : j < k => servicesInfo'[j] = servicesInfo[j] /\ j \in Used
  BY <1>2, <1>3, <1>4 DEF Used
<1>11. QED BY <1>3, <1>7, <1>8, <1>9, <1>10

LEMMA TableInit == Init => TableInv
BY TableAssumption, SlotRange
DEF Init, TableInv, TableTypeOK, SlotsDistinct, PassedSlotsKept, Used

LEMMA TableNext == TableInv /\ [Next]_vars => TableInv'
<1> SUFFICES ASSUME TableInv, [Next]_vars PROVE TableInv'
  OBVIOUS
<1> USE TableAssumption, SlotRange
<1>1. ASSUME NEW e \in Entries, Register(e) PROVE TableInv'
  BY <1>1, TableAfterRegister
<1>2. ASSUME NEW k \in Slots, Unregister(k) PROVE TableInv'
  <2>1. k \in Used /\ DropAt(k) /\ purging = NoPid /\ purging' = purging /\ i' = i
    BY <1>2 DEF Unregister
  <2>2. i' \in 0 .. nbServices'
    BY <2>1, TableAfterDrop DEF TableInv
  <2>3. QED
    BY <2>1, <2>2, TableAfterDrop DEF TableInv, TableTypeOK, PassedSlotsKept
<1>3. ASSUME NEW p \in Pids, PurgeStart(p) PROVE TableInv'
  BY <1>3 DEF PurgeStart, TableInv, TableTypeOK, SlotsDistinct, PassedSlotsKept, Used
<1>4. ASSUME PurgeDrop PROVE TableInv'
  <2>1. i \in Used /\ DropAt(i) /\ purging' = purging /\ i' = i
    BY <1>4 DEF PurgeDrop, Used, TableInv, TableTypeOK
  <2>2. i' \in 0 .. nbServices'
    BY <2>1 DEF TableInv, TableTypeOK, DropAt, Used
  <2>3. QED
    BY <2>1, <2>2, TableAfterDrop DEF TableInv, TableTypeOK, PassedSlotsKept
<1>5. CASE PurgeKeep
  BY <1>5 DEF PurgeKeep, TableInv, TableTypeOK, SlotsDistinct, PassedSlotsKept, Used
<1>6. CASE PurgeEnd
  BY <1>6 DEF PurgeEnd, TableInv, TableTypeOK, SlotsDistinct, PassedSlotsKept, Used
<1>7. CASE UNCHANGED vars
  BY <1>7 DEF vars, TableInv, TableTypeOK, SlotsDistinct, PassedSlotsKept, Used
<1>8. QED BY <1>1, <1>2, <1>3, <1>4, <1>5, <1>6, <1>7 DEF Next

(* The table holds no entry twice, and the loop of UnregisterProcess leaves *)
(* no entry of its process behind it (processes.c:60-71).                   *)
THEOREM TableInvariant == Spec => []TableInv
<1>1. QED BY TableInit, TableNext, PTL DEF Spec

(* When the loop ends it has passed every slot (processes.c:62).            *)
THEOREM PassedSlots == Spec => []PassedSlotsKept
<1>1. TableInv => PassedSlotsKept BY DEF TableInv
<1>2. QED BY <1>1, TableInvariant, PTL
-----------------------------------------------------------------------------
(* Refinement.  Starting the loop removes the entries of its process from   *)
(* the abstract set; its iterations change nothing there.                   *)
LEMMA SetInit == Init => Set!Init
BY SlotRange DEF Init, Set!Init, Table, Used, Shown

LEMMA SetNext == TableInv /\ [Next]_vars => [Set!Next]_<<Shown, request>>
<1> SUFFICES ASSUME TableInv, [Next]_vars
             PROVE  Set!Next \/ (Shown' = Shown /\ request' = request)
  OBVIOUS
<1> USE TableAssumption, SlotRange
<1>1. \A e \in Table : e \in Entries /\ owner[e] \in Pids
  BY DEF TableInv, SlotsDistinct, Table
<1>2. purging = NoPid => Shown = Table BY <1>1 DEF Shown
<1>3. ASSUME NEW e \in Entries, Register(e) PROVE Set!Next
  <2>1. /\ Table' = Table \cup {e} /\ e \notin Table
        /\ purging = NoPid /\ purging' = purging /\ request' = <<"register", e>>
    BY <1>3, TableAfterRegister DEF Register
  <2>2. Shown' = Table' BY <2>1, <1>1 DEF Shown
  <2>3. Set!Add(e) BY <2>1, <2>2, <1>2 DEF Set!Add
  <2>4. QED BY <2>3 DEF Set!Next
<1>4. ASSUME NEW k \in Slots, Unregister(k) PROVE Set!Next
  <2>1. /\ k \in Used /\ DropAt(k) /\ purging = NoPid /\ purging' = purging
        /\ request' = <<"unregister", servicesInfo[k]>>
    BY <1>4 DEF Unregister
  <2>2. servicesInfo[k] \in Table BY <2>1 DEF Table
  <2>3. Table' = Table \ {servicesInfo[k]} BY <2>1, TableAfterDrop
  <2>4. Shown' = Table' BY <2>1, <2>3, <1>1 DEF Shown
  <2>5. Set!Remove(servicesInfo[k]) BY <2>1, <2>2, <2>3, <2>4, <1>2 DEF Set!Remove
  <2>6. QED BY <2>2, <2>5, <1>1 DEF Set!Next
<1>5. ASSUME NEW p \in Pids, PurgeStart(p) PROVE Set!Next
  <2>1. Table' = Table /\ purging = NoPid /\ purging' = p /\ request' = <<"purge", p>>
    BY <1>5 DEF PurgeStart, Table, Used
  <2>2. Set!RemoveAll(p) BY <2>1, <1>2 DEF Shown, Set!RemoveAll
  <2>3. QED BY <2>2 DEF Set!Next
<1>6. CASE PurgeDrop
  <2>1. /\ i \in Used /\ DropAt(i) /\ request' = request
        /\ purging' = purging /\ owner[servicesInfo[i]] = purging
    BY <1>6 DEF PurgeDrop, Used, TableInv, TableTypeOK
  <2>2. Table' = Table \ {servicesInfo[i]} BY <2>1, TableAfterDrop
  <2>3. QED BY <2>1, <2>2 DEF Shown
<1>7. CASE PurgeKeep BY <1>7 DEF PurgeKeep, Shown, Table, Used
<1>8. CASE PurgeEnd
  <2>1. Used' = Used /\ Table' = Table /\ \A k \in Used : k < i
    BY <1>8 DEF PurgeEnd, Used, Table, TableInv, TableTypeOK
  <2>2. \A e \in Table : owner[e] # purging
    BY <2>1, <1>8 DEF PurgeEnd, TableInv, PassedSlotsKept, Table
  <2>3. Shown' = Table' BY <2>1, <1>1, <1>8 DEF Shown, PurgeEnd
  <2>4. Shown = Table BY <2>2 DEF Shown
  <2>5. QED BY <2>1, <2>3, <2>4, <1>8 DEF PurgeEnd
<1>9. CASE UNCHANGED vars BY <1>9 DEF vars, Shown, Table, Used
<1>10. QED BY <1>3, <1>4, <1>5, <1>6, <1>7, <1>8, <1>9 DEF Next

(* The swap-with-last table and its loop implement a set from which the     *)
(* entries of a process are removed at once (services.c, processes.c).      *)
THEOREM TableImplementsSet == Spec => ImplementsSet
<1>1. QED BY SetInit, SetNext, TableInvariant, PTL DEF Spec, ImplementsSet, Set!Spec

-----------------------------------------------------------------------------
(***************************************************************************)
(* The hand-over between pm's service thread and its task runner: a task   *)
(* never sees its arguments change, and tasks run in order, each once.     *)
(***************************************************************************)

LEMMA RunnerInit == TaskInit => RunnerInv
<1> SUFFICES ASSUME TaskInit PROVE RunnerInv
  OBVIOUS
<1>1. 0 \in 0 .. NbTasks
  BY TasksAssumption DEF TasksAssumption
<1>2. RunnerTypeOK
  BY <1>1, Zenon DEF TaskInit, RunnerTypeOK, CallerPcs, RunnerPcs
<1>3. Handoff /\ Contents
  BY DEF TaskInit, Handoff, Writing, Contents, Delivered
<1>4. QED
  BY <1>2, <1>3 DEF RunnerInv

LEMMA RunnerNext == RunnerInv /\ [TaskNext]_trvars => RunnerInv'
<1> SUFFICES ASSUME RunnerInv, [TaskNext]_trvars PROVE RunnerInv'
  OBVIOUS
<1> USE TasksAssumption
    DEF RunnerInv, RunnerTypeOK, CallerPcs, RunnerPcs, Handoff, Writing, Contents,
        Delivered, runnerVars
<1>1. CASE RunTask BY <1>1 DEF RunTask
<1>2. CASE Terminate BY <1>2 DEF Terminate
<1>3. CASE WaitReady BY <1>3 DEF WaitReady
<1>4. CASE SetTask BY <1>4 DEF SetTask
<1>5. CASE CopyArgs BY <1>5 DEF CopyArgs
<1>6. CASE SignalParameters BY <1>6 DEF SignalParameters
<1>7. CASE LoopTest BY <1>7 DEF LoopTest
<1>8. CASE SignalReady BY <1>8 DEF SignalReady
<1>9. CASE WaitParameters BY <1>9 DEF WaitParameters
<1>10. CASE CallTask BY <1>10 DEF CallTask
<1>11. CASE TaskReturns BY <1>11 DEF TaskReturns
<1>12. CASE UNCHANGED trvars BY <1>12 DEF trvars
<1>13. QED
  BY <1>1, <1>2, <1>3, <1>4, <1>5, <1>6, <1>7, <1>8, <1>9, <1>10, <1>11, <1>12
  DEF TaskNext, Caller, Runner

LEMMA RunnerInvariant == TaskSpec => []RunnerInv
BY RunnerInit, RunnerNext, PTL DEF TaskSpec

(* The buffer a task works on is not written while it runs                  *)
(* (task_runner.c:19-26 against 34-42).                                     *)
THEOREM ArgumentsAreStable == TaskSpec => []ArgsStable
<1>1. RunnerInv => ArgsStable
  BY DEF RunnerInv, RunnerTypeOK, Handoff, Writing, Contents, Delivered, ArgsStable, CallerPcs
<1>2. QED BY <1>1, RunnerInvariant, PTL

(* No task is skipped, run twice or run before an earlier one.              *)
THEOREM TasksRunInOrder == TaskSpec => InOrder
<1>1. RunnerInv /\ [TaskNext]_trvars => [running' # running => running' = running + 1]_trvars
  <2> SUFFICES ASSUME RunnerInv, [TaskNext]_trvars, running' # running
               PROVE  running' = running + 1
    OBVIOUS
  <2>1. CallTask
    BY DEF TaskNext, Caller, Runner, trvars, runnerVars, RunTask, Terminate, WaitReady, SetTask,
           CopyArgs, SignalParameters, LoopTest, SignalReady, WaitParameters, TaskReturns
  <2>2. QED
    BY <2>1, TasksAssumption
    DEF CallTask, RunnerInv, RunnerTypeOK, Handoff, Writing, Contents, Delivered, CallerPcs
<1>2. QED BY <1>1, RunnerInvariant, PTL DEF TaskSpec, InOrder

(* Each task in its turn, on its own arguments (task_runner.c:17-47).       *)
THEOREM TasksKeepTheirTurn == TaskSpec => TasksInTurn
<1>1. ArgsStable' /\ [running' # running => running' = running + 1]_trvars
        => [ArgsStable' /\ (running' # running => running' = running + 1)]_trvars
  OBVIOUS
<1>2. QED BY <1>1, ArgumentsAreStable, TasksRunInOrder, PTL DEF TasksInTurn, InOrder

-----------------------------------------------------------------------------
(***************************************************************************)
(* The stack of conditions of the cheat interpreter says what it should,   *)
(* for every width of its registers, every program and every count.        *)
(***************************************************************************)

(* What SkipsNest says of ifStack, ifCount and opened is kept for what a    *)
(* repeat has stored as well, since D1 takes it back.                       *)
Bits(stack) == stack \in Seq(BOOLEAN) /\ Len(stack) = StackBits
Nested(stack, count, conditions) ==
    /\ count = Len(conditions)
    /\ Len(conditions) <= StackBits /\ Len(conditions) < CountRange
    /\ \A k \in 1 .. StackBits :
          stack[k] <=> \E m \in 1 .. Len(conditions) :
                          m <= Len(conditions) + 1 - k /\ ~conditions[m]

Types == /\ Bits(ifStack) /\ Bits(storedStack)
         /\ opened \in Seq(BOOLEAN) /\ storedOpened \in Seq(BOOLEAN)
         /\ deep \in BOOLEAN
NestInv == /\ Types
           /\ ~deep => /\ Nested(ifStack, ifCount, opened)
                       /\ Nested(storedStack, storedIfCount, storedOpened)

(* StackBits and CountRange are positive.                                   *)
LEMMA Widths == StackBits \in Nat \ {0} /\ CountRange \in Nat \ {0}
  BY CheatsAssumption DEF CheatsAssumption

(* No condition is open where there are none.                               *)
LEMMA ZerosNested == Bits(Zeros) /\ Nested(Zeros, 0, <<>>)
  <1>1. Bits(Zeros)  BY Widths DEF Bits, Zeros
  <1>2. Nested(Zeros, 0, <<>>)  BY Widths DEF Nested, Zeros
  <1> QED  BY <1>1, <1>2

(* Shifting in a bit moves the others up, and drops the last.               *)
LEMMA ShiftIn ==
    ASSUME NEW s, Bits(s), NEW b \in BOOLEAN
    PROVE  LET t == <<b>> \o SubSeq(s, 1, StackBits - 1)
           IN  Bits(t) /\ t[1] = b /\ \A k \in 2 .. StackBits : t[k] = s[k - 1]
  BY Widths DEF Bits

(* Shifting one out moves the others down, and the last one is clear.       *)
LEMMA ShiftOut ==
    ASSUME NEW s, Bits(s)
    PROVE  LET t == Append(Tail(s), FALSE)
           IN  /\ Bits(t) /\ t[StackBits] = FALSE
               /\ \A k \in 1 .. StackBits - 1 : t[k] = s[k + 1]
  <1>1. s # <<>>  BY Widths DEF Bits
  <1>2. Tail(s) \in Seq(BOOLEAN) /\ Len(Tail(s)) = StackBits - 1
    BY <1>1, Widths DEF Bits
  <1>3. \A k \in 1 .. StackBits - 1 : Tail(s)[k] = s[k + 1]
    BY <1>1, <1>2, Widths DEF Bits
  <1> DEFINE t == Append(Tail(s), FALSE)
  <1>4. t \in Seq(BOOLEAN) /\ Len(t) = StackBits /\ t[StackBits] = FALSE
    BY <1>2, Widths
  <1>5. \A k \in 1 .. StackBits - 1 : t[k] = Tail(s)[k]
    <2>1. \A u \in Seq(BOOLEAN) : \A b \in BOOLEAN :
             \A j \in 1 .. Len(u) : Append(u, b)[j] = u[j]
      OBVIOUS
    <2>2. \A j \in 1 .. Len(Tail(s)) : Append(Tail(s), FALSE)[j] = Tail(s)[j]
      BY <1>2, <2>1
    <2> QED  BY <1>2, <2>2
  <1>6. \A k \in 1 .. StackBits - 1 : t[k] = s[k + 1]
    BY <1>3, <1>5
  <1> QED  BY <1>4, <1>6 DEF Bits

(* A condition that is opened is skipped with those around it.              *)
LEMMA PushKeeps ==
    ASSUME NestInv, NEW holds \in BOOLEAN, Push(holds), UNCHANGED loopVars
    PROVE  NestInv'
  <1>1. skipExecution \in BOOLEAN /\ (~holds \/ skipExecution) \in BOOLEAN
    BY Widths DEF NestInv, Types, Bits, skipExecution
  <1>2. /\ Bits(ifStack') /\ ifStack'[1] = (~holds \/ ifStack[1])
        /\ \A k \in 2 .. StackBits : ifStack'[k] = ifStack[k - 1]
    BY <1>1, ShiftIn DEF Push, Pushed, NestInv, Types, skipExecution
  <1>3. /\ opened' \in Seq(BOOLEAN) /\ Len(opened') = Len(opened) + 1
        /\ opened'[Len(opened) + 1] = holds
        /\ \A m \in 1 .. Len(opened) : opened'[m] = opened[m]
    BY DEF Push, NestInv, Types
  <1>4. Types'
    BY <1>2, <1>3 DEF Push, NestInv, Types, loopVars
  <1>5. ASSUME ~deep' PROVE Nested(ifStack, ifCount, opened)'
    <2>1. Nested(ifStack, ifCount, opened) /\ Len(opened) < StackBits
             /\ Len(opened) + 1 < CountRange
      <3>1. ~deep /\ ~(Len(opened) >= StackBits) /\ ~(Len(opened) + 1 >= CountRange)
        BY <1>5 DEF Push
      <3>2. Len(opened) \in Nat  BY DEF NestInv, Types
      <3>3. Len(opened) < StackBits /\ Len(opened) + 1 < CountRange
        BY <3>1, <3>2, Widths
      <3> QED  BY <3>1, <3>3 DEF NestInv
    <2>2. ifCount' = Len(opened')
      <3>1. ifCount' = (Len(opened) + 1) % CountRange
        BY <2>1 DEF Push, Nested
      <3>2. Len(opened) \in Nat  BY DEF NestInv, Types
      <3> QED  BY <1>3, <2>1, <3>1, <3>2, Widths
    <2>3. ASSUME NEW k \in 1 .. StackBits
          PROVE  ifStack'[k] <=> \E m \in 1 .. Len(opened') :
                                    m <= Len(opened') + 1 - k /\ ~opened'[m]
      <3>1. CASE k = 1
        <4>1. ifStack[1] <=> \E m \in 1 .. Len(opened) : ~opened[m]
          BY <2>1, Widths DEF Nested, NestInv, Types
        <4>2. (\E m \in 1 .. Len(opened') : ~opened'[m])
                 <=> ~holds \/ \E m \in 1 .. Len(opened) : ~opened[m]
          <5>1. Len(opened) \in Nat  BY DEF NestInv, Types
          <5>2. 1 .. Len(opened') = 1 .. Len(opened) \cup {Len(opened) + 1}
            BY <1>3, <5>1
          <5>3. \A m \in 1 .. Len(opened) : opened'[m] = opened[m]
            BY <1>3
          <5>4. opened'[Len(opened) + 1] = holds
            BY <1>3
          <5> QED  BY <5>2, <5>3, <5>4, Zenon
        <4>3. 1 .. Len(opened') = {m \in 1 .. Len(opened') : m <= Len(opened') + 1 - k}
          BY <1>3, <3>1
        <4>4. ifStack'[k] <=> ~holds \/ \E m \in 1 .. Len(opened) : ~opened[m]
          BY <1>2, <3>1, <4>1
        <4> QED  BY <4>2, <4>3, <4>4
      <3>2. CASE k > 1
        <4>1. k - 1 \in 1 .. StackBits /\ k \in 2 .. StackBits
          BY <3>2, Widths
        <4>2. ifStack'[k] <=> \E m \in 1 .. Len(opened) :
                                 m <= Len(opened) + 1 - (k - 1) /\ ~opened[m]
          BY <1>2, <2>1, <4>1 DEF Nested
        <4> QED  BY <1>3, <3>2, <4>2, Widths DEF NestInv, Types
      <3> QED  BY <3>1, <3>2
    <2> QED  BY <1>3, <2>1, <2>2, <2>3, Widths DEF Nested, NestInv, Types
  <1>6. ASSUME ~deep' PROVE Nested(storedStack, storedIfCount, storedOpened)'
    BY <1>6 DEF Push, NestInv, Nested, loopVars
  <1> QED  BY <1>4, <1>5, <1>6 DEF NestInv

(* The last condition that was opened is the first to end.                  *)
LEMMA PopKeeps ==
    ASSUME NestInv, HasOwn, Pop, UNCHANGED loopVars
    PROVE  NestInv'
  <1>1. /\ Bits(ifStack') /\ ifStack'[StackBits] = FALSE
        /\ \A k \in 1 .. StackBits - 1 : ifStack'[k] = ifStack[k + 1]
    BY ShiftOut DEF Pop, NestInv, Types
  <1>2. opened' \in Seq(BOOLEAN)
    BY DEF Pop, NestInv, Types
  <1>3. Types'
    BY <1>1, <1>2 DEF Pop, NestInv, Types, loopVars
  <1>4. ASSUME ~deep' PROVE Nested(ifStack, ifCount, opened)'
    <2>1. Nested(ifStack, ifCount, opened) /\ Len(opened) > 0
      BY <1>4 DEF Pop, NestInv, HasOwn, Nested
    <2>2. /\ Len(opened') = Len(opened) - 1
          /\ \A m \in 1 .. Len(opened') : opened'[m] = opened[m]
      <3>1. opened' = SubSeq(opened, 1, Len(opened) - 1)  BY DEF Pop
      <3>2. opened \in Seq(BOOLEAN) /\ Len(opened) \in Nat  BY DEF NestInv, Types
      <3>3. \A m \in 1 .. Len(opened) - 1 : opened[m] \in BOOLEAN  BY <3>2
      <3> DEFINE n == Len(opened) - 1
      <3>4. n \in Nat /\ \A m \in 1 .. n : opened[m] \in BOOLEAN  BY <2>1, <3>2, <3>3
      <3> HIDE DEF n
      <3>5. /\ Len(SubSeq(opened, 1, n)) = IF 1 <= n THEN n - 1 + 1 ELSE 0
            /\ \A m \in 1 .. n - 1 + 1 : SubSeq(opened, 1, n)[m] = opened[1 + m - 1]
        BY <3>4, SubSeqProperties
      <3>6. /\ Len(SubSeq(opened, 1, n)) = n
            /\ \A m \in 1 .. n : SubSeq(opened, 1, n)[m] = opened[m]
        BY <3>4, <3>5
      <3>7. opened' = SubSeq(opened, 1, n)  BY <3>1 DEF n
      <3> QED  BY <3>6, <3>7 DEF n
    <2>3. ASSUME NEW k \in 1 .. StackBits
          PROVE  ifStack'[k] <=> \E m \in 1 .. Len(opened') :
                                    m <= Len(opened') + 1 - k /\ ~opened'[m]
      <3>1. CASE k = StackBits
        BY <1>1, <2>1, <2>2, <3>1, Widths DEF Nested, NestInv, Types
      <3>2. CASE k < StackBits
        <4>1. k + 1 \in 1 .. StackBits /\ k \in 1 .. StackBits - 1
          BY <3>2, Widths
        <4>2. ifStack'[k] <=> \E m \in 1 .. Len(opened) :
                                 m <= Len(opened) + 1 - (k + 1) /\ ~opened[m]
          BY <1>1, <2>1, <4>1 DEF Nested
        <4>3. Len(opened) \in Nat /\ Len(opened') \in Nat
          BY <1>2 DEF NestInv, Types
        <4>4. \A m \in 1 .. Len(opened') :
                 (m <= Len(opened') + 1 - k) <=> (m <= Len(opened) + 1 - (k + 1))
          BY <2>2, <4>1, <4>3
        <4>5. \A m \in 1 .. Len(opened) :
                 m <= Len(opened) + 1 - (k + 1) => m \in 1 .. Len(opened')
          BY <2>1, <2>2, <4>1, <4>3, Widths
        <4>6. \A m \in 1 .. Len(opened') : m \in 1 .. Len(opened) /\ opened'[m] = opened[m]
          BY <2>2, <4>3
        <4> QED  BY <4>2, <4>4, <4>5, <4>6, Zenon
      <3>3. k = StackBits \/ k < StackBits  BY Widths
      <3> QED  BY <3>1, <3>2, <3>3
    <2>4. /\ ifCount' = Len(opened')
          /\ Len(opened') <= StackBits /\ Len(opened') < CountRange
      BY <2>1, <2>2, Widths DEF Nested, Pop, NestInv, Types
    <2> QED  BY <2>3, <2>4 DEF Nested
  <1>5. ASSUME ~deep' PROVE Nested(storedStack, storedIfCount, storedOpened)'
    BY <1>5 DEF Pop, NestInv, Nested, loopVars
  <1> QED  BY <1>3, <1>4, <1>5 DEF NestInv

(* Nothing is skipped where every condition has ended.                      *)
LEMMA PopAllKeeps ==
    ASSUME NestInv, PopAll, UNCHANGED <<storedStack, storedIfCount, storedOpened>>
    PROVE  NestInv'
  BY ZerosNested DEF PopAll, NestInv, Types, Nested, Bits

(* Steps that leave the stack and what is stored alone.                     *)
LEMMA SameKeeps ==
    ASSUME NestInv, UNCHANGED <<stackVars, storedStack, storedIfCount, storedOpened>>
    PROVE  NestInv'
  BY DEF stackVars, NestInv, Types, Nested, Bits

LEMMA NestInvInit == InterpreterInit => NestInv
  <1> SUFFICES ASSUME InterpreterInit PROVE NestInv
    OBVIOUS
  <1>1. Types
    <2>1. Bits(ifStack) /\ Bits(storedStack)  BY ZerosNested DEF InterpreterInit
    <2>2. opened = <<>> /\ storedOpened = <<>> /\ deep = FALSE  BY DEF InterpreterInit
    <2>3. opened \in Seq(BOOLEAN) /\ storedOpened \in Seq(BOOLEAN)  BY <2>2
    <2> QED  BY <2>1, <2>2, <2>3 DEF Types
  <1>2. Nested(ifStack, ifCount, opened) /\ Nested(storedStack, storedIfCount, storedOpened)
    BY ZerosNested DEF InterpreterInit
  <1> QED  BY <1>1, <1>2 DEF NestInv

LEMMA NestInvStep == NestInv /\ [InterpreterNext]_icvars => NestInv'
  <1> SUFFICES ASSUME NestInv, [InterpreterNext]_icvars PROVE NestInv'
    OBVIOUS
  <1> USE DEF loopVars
  <1>1. CASE \E program \in Programs : Apply(program)
    <2>1. /\ ifStack' = Zeros /\ storedStack' = Zeros /\ ifCount' = 0 /\ storedIfCount' = 0
          /\ opened' = <<>> /\ storedOpened' = <<>> /\ deep' = FALSE
      BY <1>1 DEF Apply
    <2>2. opened' \in Seq(BOOLEAN) /\ storedOpened' \in Seq(BOOLEAN)  BY <2>1
    <2>3. Nested(ifStack', ifCount', opened') /\ Nested(storedStack', storedIfCount', storedOpened')
      BY <2>1, ZerosNested
    <2>4. Types'  BY <2>1, <2>2, ZerosNested DEF Types, Bits
    <2> QED  BY <2>3, <2>4 DEF NestInv, Nested
  <1>2. CASE Access \/ Compute \/ Select \/ Invalid \/ Leave \/ Bytes
    BY <1>2, SameKeeps DEF Access, Compute, Select, Invalid, Leave, Bytes, Return0
  <1>3. CASE If
    BY <1>3, SameKeeps, PushKeeps DEF If, Return0
  <1>4. CASE Search
    BY <1>4, SameKeeps, PushKeeps DEF Search, Return0
  <1>5. CASE Repeat
    <2>1. UNCHANGED stackVars /\ storedStack' = ifStack /\ storedIfCount' = ifCount
             /\ storedOpened' = opened
      BY <1>5 DEF Repeat
    <2> QED  BY <2>1 DEF stackVars, NestInv, Types, Nested, Bits
  <1>6. CASE EndIf
    BY <1>6, SameKeeps, PopKeeps DEF EndIf, NextTurn
  <1>7. CASE Break
    BY <1>7, SameKeeps DEF Break
  <1>8. CASE Until
    <2>1. CASE loopCount > 0
      <3>1. /\ ifStack' = storedStack /\ ifCount' = storedIfCount /\ opened' = storedOpened
            /\ UNCHANGED <<deep, storedStack, storedIfCount, storedOpened>>
        BY <1>8, <2>1 DEF Until, NextTurn
      <3> QED  BY <3>1 DEF NestInv, Types, Nested, Bits
    <2>2. CASE ~(loopCount > 0)
      BY <1>8, <2>2, SameKeeps DEF Until
    <2> QED  BY <2>1, <2>2
  <1>9. CASE EndAll
    BY <1>9, SameKeeps, PopAllKeeps DEF EndAll, NextTurn
  <1>10. CASE UNCHANGED icvars
    BY <1>10, SameKeeps DEF icvars
  <1> QED
    BY <1>1, <1>2, <1>3, <1>4, <1>5, <1>6, <1>7, <1>8, <1>9, <1>10
       DEF InterpreterNext, Interpret

(* A code is skipped exactly when a condition it stands under does not      *)
(* hold, unless more are open than ifStack or ifCount have room for.        *)
THEOREM CodesSkippedWithTheirConditions == InterpreterSpec => []SkipsNest
  <1>1. NestInv => SkipsNest
    BY DEF NestInv, Nested, SkipsNest
  <1> QED  BY <1>1, NestInvInit, NestInvStep, PTL DEF InterpreterSpec

-----------------------------------------------------------------------------
(* The least of a set of numbers.                                           *)
LEMMA LeastNat == ASSUME NEW S \in SUBSET Nat, S # {} PROVE \E x \in S : \A y \in S : x <= y
<1> DEFINE upto(n) == 1 .. n
           R == StrictSubsetOrdering(Nat)
           T == {upto(n) : n \in S}
<1>1. ASSUME NEW n \in S PROVE upto(n) \in FiniteSubsetsOf(Nat)
  <2>1. IsFiniteSet(upto(n))  BY FS_Interval
  <2>2. upto(n) \in SUBSET Nat  OBVIOUS
  <2> HIDE DEF upto
  <2>3. QED BY <2>1, <2>2 DEF FiniteSubsetsOf
<1>2. \E t \in T : \A u \in T : <<u, t>> \notin R
  <2>1. IsWellFoundedOn(R, FiniteSubsetsOf(Nat))  BY FS_StrictSubsetOrderingWellFounded
  <2>2. T \subseteq FiniteSubsetsOf(Nat) /\ T # {}  BY <1>1
  <2> HIDE DEF R, T
  <2>3. QED BY <2>1, <2>2, WFMin
<1>3. PICK x \in S : \A y \in S : <<upto(y), upto(x)>> \notin R  BY <1>2
<1>4. ASSUME NEW y \in S, y < x PROVE FALSE
  <2>1. x \in upto(x) /\ x \notin upto(y)  BY <1>4
  <2>2. upto(y) \subseteq upto(x) /\ upto(x) \in SUBSET Nat /\ upto(y) \in SUBSET Nat
    BY <1>4
  <2> HIDE DEF upto
  <2>3. <<upto(y), upto(x)>> \in R  BY <2>1, <2>2 DEF StrictSubsetOrdering
  <2>4. QED BY <1>3, <2>3
<1>5. QED BY <1>3, <1>4

(* Induction, for a set of numbers.                                         *)
LEMMA EveryNumber ==
    ASSUME NEW S \in SUBSET Nat, 0 \in S, \A n \in S : n + 1 \in S
    PROVE  \A n \in Nat : n \in S
<1> SUFFICES ASSUME Nat \ S # {} PROVE FALSE  OBVIOUS
<1>1. PICK x \in Nat \ S : \A y \in Nat \ S : x <= y
  <2>1. Nat \ S \in SUBSET Nat  OBVIOUS
  <2>2. QED BY <2>1, LeastNat
<1>2. x \in Nat /\ x # 0  OBVIOUS
<1>3. x - 1 \in Nat /\ ~(x <= x - 1)  BY <1>2
<1>4. x - 1 \in S  BY <1>1, <1>3
<1>5. x \in S  BY <1>2, <1>3, <1>4
<1>6. QED BY <1>5

-----------------------------------------------------------------------------
(***************************************************************************)
(* The list of cheats is what its file says.  Of k lines that were read,   *)
(* Done are the cheats that have begun, each with the codes it has so far. *)
(***************************************************************************)
IsFile(f) == f \in Seq({"name", "code"})
Done(f, k) == {m \in Begins(f) : m < k}
CodeLines(f, m, k) == {j \in m + 1 .. k : \A l \in m + 1 .. j : f[l] = "code"}
CodesUpTo(f, m, k) == Cardinality(CodeLines(f, m, k))

LEMMA ListWidths == /\ ListRange \in Nat /\ ListRange > 0 /\ DescriptionSize \in Nat
                    /\ BufferSize \in Nat /\ BufferSize > 1 /\ NoLoop \notin Nat
BY CheatsAssumption DEF CheatsAssumption, NoLoop

LEMMA FileFacts ==
    ASSUME NEW f, IsFile(f)
    PROVE  /\ Len(f) \in Nat /\ \A k \in 1 .. Len(f) : f[k] \in {"name", "code"}
           /\ \A m : m \in Begins(f) <=> /\ m \in 1 .. Len(f) /\ m < Len(f)
                                         /\ f[m] = "name" /\ f[m + 1] = "code"
<1>1. Len(f) \in Nat /\ DOMAIN f = 1 .. Len(f)  BY LenProperties DEF IsFile
<1>2. \A k \in 1 .. Len(f) : f[k] \in {"name", "code"}  BY ElementOfSeq DEF IsFile
<1>3. QED BY <1>1, <1>2 DEF Begins

LEMMA InDone ==
    ASSUME NEW f, IsFile(f), NEW k
    PROVE  \A m : m \in Done(f, k) <=> m \in Begins(f) /\ m \in Nat /\ m < k
<1>1. \A m \in Begins(f) : m \in Nat  BY FileFacts
<1>2. QED BY <1>1 DEF Done

(* Cheats are numbered in the order in which they begin.                    *)
LEMMA DoneFacts ==
    ASSUME NEW f, IsFile(f), NEW k \in Nat
    PROVE  /\ IsFiniteSet(Begins(f)) /\ IsFiniteSet(Done(f, k))
           /\ Cardinality(Done(f, k)) \in Nat /\ Cardinality(Begins(f)) \in Nat
           /\ Cardinality(Done(f, k)) <= Cardinality(Begins(f))
           /\ \A m \in Begins(f) :
                 /\ Number(f, m) = Cardinality(Done(f, m)) /\ Number(f, m) \in Nat
                 /\ m < k <=> Number(f, m) < Cardinality(Done(f, k))
<1>1. IsFiniteSet(Begins(f))
  <2>1. Begins(f) \in SUBSET (1 .. Len(f)) /\ Len(f) \in Nat  BY FileFacts
  <2>2. IsFiniteSet(1 .. Len(f))  BY <2>1, FS_Interval
  <2>3. QED BY <2>1, <2>2, FS_Subset
<1>2. \A n : IsFiniteSet(Done(f, n)) /\ Cardinality(Done(f, n)) \in Nat
             /\ Cardinality(Done(f, n)) <= Cardinality(Begins(f))
  <2>1. \A n : Done(f, n) \in SUBSET Begins(f)  BY DEF Done
  <2>2. QED BY <1>1, <2>1, FS_Subset, FS_CardinalityType
<1>3. Cardinality(Begins(f)) \in Nat  BY <1>1, FS_CardinalityType
<1>4. ASSUME NEW m \in Begins(f)
      PROVE  m < k <=> Cardinality(Done(f, m)) < Cardinality(Done(f, k))
  <2>1. m \in Nat /\ \A n \in Begins(f) : n \in Nat  BY FileFacts
  <2>2. CASE m < k
    <3>1. Done(f, m) \cup {m} \in SUBSET Done(f, k) /\ m \notin Done(f, m)
      BY <2>1, <2>2, InDone
    <3>2. Cardinality(Done(f, m) \cup {m}) = Cardinality(Done(f, m)) + 1
      BY <1>2, <3>1, FS_AddElement
    <3>3. Cardinality(Done(f, m) \cup {m}) <= Cardinality(Done(f, k))
      BY <1>2, <3>1, FS_Subset
    <3>4. QED BY <1>2, <2>2, <3>2, <3>3
  <2>3. CASE ~(m < k)
    <3>1. Done(f, k) \in SUBSET Done(f, m)
      <4>1. \A n \in Nat : n < k => n < m  BY <2>1, <2>3
      <4>2. QED BY <4>1, InDone
    <3>2. Cardinality(Done(f, k)) <= Cardinality(Done(f, m))
      BY <1>2, <3>1, FS_Subset
    <3>3. QED BY <1>2, <2>3, <3>2
  <2>4. QED BY <2>2, <2>3
<1>5. \A m : Number(f, m) = Cardinality(Done(f, m))  BY DEF Number, Done
<1>6. QED BY <1>1, <1>2, <1>3, <1>4, <1>5

(* One more line: it makes the line before it a beginning or not.           *)
LEMMA OneMoreDone ==
    ASSUME NEW f, IsFile(f), NEW k \in Nat
    PROVE  /\ k \in Begins(f) => /\ Done(f, k + 1) = Done(f, k) \cup {k} /\ k \notin Done(f, k)
                                 /\ Cardinality(Done(f, k + 1)) = Cardinality(Done(f, k)) + 1
                                 /\ Number(f, k) = Cardinality(Done(f, k))
           /\ k \notin Begins(f) => Done(f, k + 1) = Done(f, k)
<1>1. \A n \in Begins(f) : n \in Nat  BY FileFacts
<1>2. k \notin Done(f, k)  BY DEF Done
<1>3. CASE k \in Begins(f)
  <2>1. Done(f, k + 1) = Done(f, k) \cup {k}
    <3>1. \A n \in Nat : n < k + 1 <=> n < k \/ n = k  OBVIOUS
    <3>2. \A n : n \in Done(f, k + 1) <=> n \in Done(f, k) \cup {k}
      BY <1>1, <1>3, <3>1, InDone
    <3>3. QED BY <3>2
  <2>2. Cardinality(Done(f, k) \cup {k}) = Cardinality(Done(f, k)) + 1
    BY <1>2, DoneFacts, FS_AddElement
  <2>3. QED BY <1>2, <1>3, <2>1, <2>2, DoneFacts
<1>4. CASE k \notin Begins(f)
  <2>1. Done(f, k + 1) = Done(f, k)
    <3>1. \A n \in Nat : n < k + 1 <=> n < k \/ n = k  OBVIOUS
    <3>2. \A n : n \in Done(f, k + 1) <=> n \in Done(f, k)  BY <1>4, <3>1, InDone
    <3>3. QED BY <3>2
  <2>2. QED BY <1>4, <2>1
<1>5. QED BY <1>3, <1>4

(* The codes of a cheat end with the first name after it.                   *)
LEMMA CodesStop ==
    ASSUME NEW f, NEW m \in Nat, NEW l \in Nat, f[l] = "name", m < l,
           NEW h \in Nat, NEW j \in Nat, l <= h + 1, l <= j + 1
    PROVE  CodesUpTo(f, m, h) = CodesUpTo(f, m, j)
<1>1. ASSUME NEW n \in Nat, l <= n + 1
      PROVE  CodeLines(f, m, n) = CodeLines(f, m, l - 1)
  BY <1>1 DEF CodeLines
<1>2. QED BY <1>1 DEF CodesUpTo

LEMMA CodesFacts ==
    ASSUME NEW f, NEW m \in Nat, NEW k \in Nat
    PROVE  /\ IsFiniteSet(CodeLines(f, m, k)) /\ CodesUpTo(f, m, k) \in Nat
           /\ CodesUpTo(f, m, m) = 0
<1>1. CodeLines(f, m, k) \in SUBSET (m + 1 .. k)  BY DEF CodeLines
<1>2. IsFiniteSet(m + 1 .. k)  BY FS_Interval
<1>3. IsFiniteSet(CodeLines(f, m, k))  BY <1>1, <1>2, FS_Subset
<1>4. CodeLines(f, m, m) = {}  BY DEF CodeLines
<1>5. QED BY <1>3, <1>4, FS_CardinalityType, FS_EmptySet DEF CodesUpTo

LEMMA CodesGoOn ==
    ASSUME NEW f, NEW m \in Nat, NEW k \in Nat, m <= k, \A l \in m + 1 .. k + 1 : f[l] = "code"
    PROVE  CodesUpTo(f, m, k + 1) = CodesUpTo(f, m, k) + 1
<1>1. CodeLines(f, m, k + 1) = CodeLines(f, m, k) \cup {k + 1} /\ k + 1 \notin CodeLines(f, m, k)
  BY DEF CodeLines
<1>2. IsFiniteSet(CodeLines(f, m, k))  BY CodesFacts
<1>3. QED BY <1>1, <1>2, FS_AddElement DEF CodesUpTo

(* Where reading is after k lines: before the first name, after a name, or  *)
(* among the codes of a cheat, unless the buffer is full.                   *)
Numbers == 0 .. ListRange - 1
LoadStates == [cheats : [Numbers -> Nat], count : Numbers, cheat : Numbers \cup {NoLoop},
               size : Nat, stop : BOOLEAN]
NbDone(f, k) == Cardinality(Done(f, k))
KeepsCodes(f, k, s) == \A m \in Done(f, k) : s.cheats[Number(f, m)] = CodesUpTo(f, m, k)
BeforeNames(f, k, s) == /\ s.cheat = NoLoop /\ s.count = 0 /\ s.size = 0
                        /\ \A l \in 1 .. k : f[l] = "code"
AfterName(f, k, s) == /\ k # 0 /\ f[k] = "name"
                      /\ s.cheat = NbDone(f, k) /\ s.count = (NbDone(f, k) + 1) % ListRange
                      /\ s.cheats[NbDone(f, k)] = 0
AmongCodes(f, k, s) ==
    /\ s.cheat = NbDone(f, k) - 1 /\ s.count = NbDone(f, k) /\ s.cheats[NbDone(f, k) - 1] # 0
    /\ \E b \in Done(f, k) : /\ Number(f, b) = NbDone(f, k) - 1
                             /\ \A l \in b + 1 .. k : f[l] = "code"
IsRead(f, s) == /\ s.count <= Cardinality(Begins(f))
                /\ \A m \in Begins(f) : Number(f, m) < s.count =>
                      s.cheats[Number(f, m)] = CodesFrom(f, m)
Reads(f, k, s) ==
    /\ s \in LoadStates
    /\ IF s.stop THEN IsRead(f, s)
       ELSE KeepsCodes(f, k, s) /\ (BeforeNames(f, k, s) \/ AfterName(f, k, s) \/ AmongCodes(f, k, s))
FitsList(f) == IsFile(f) /\ Cardinality(Begins(f)) < ListRange

LEMMA ListMod ==
    /\ \A c \in 0 .. ListRange : c % ListRange = IF c = ListRange THEN 0 ELSE c
    /\ \A c \in Numbers : (c + ListRange - 1) % ListRange = IF c = 0 THEN ListRange - 1 ELSE c - 1
<1>1. ASSUME NEW c \in 0 .. ListRange
      PROVE  c % ListRange = IF c = ListRange THEN 0 ELSE c
  BY ListWidths
<1>2. ASSUME NEW c \in Numbers
      PROVE  (c + ListRange - 1) % ListRange = IF c = 0 THEN ListRange - 1 ELSE c - 1
  BY ListWidths DEF Numbers
<1>3. QED BY <1>1, <1>2

LEMMA CodeLineIs ==
    ASSUME NEW s \in LoadStates, ~s.stop, NEW t, t = Line(s, "code")
    PROVE  /\ t \in LoadStates
           /\ s.size + 1 >= BufferSize =>
                 t.stop /\ t.count = (s.count + ListRange - 1) % ListRange /\ t.cheats = s.cheats
           /\ s.size + 1 < BufferSize /\ s.cheat = NoLoop => t = s
           /\ s.size + 1 < BufferSize /\ s.cheat # NoLoop =>
                 /\ ~t.stop /\ t.count = s.count /\ t.cheat = s.cheat
                 /\ t.cheats = [s.cheats EXCEPT ![s.cheat] = s.cheats[s.cheat] + 1]
<1>1. t = CodeLine(s)  BY DEF Line
<1>2. s.size \in Nat /\ BufferSize \in Nat  BY ListWidths DEF LoadStates
<1>3. CASE s.size + 1 >= BufferSize
  <2>1. t = [s EXCEPT !.count = (s.count + ListRange - 1) % ListRange, !.stop = TRUE]
    BY <1>1, <1>2, <1>3 DEF CodeLine, NoRoom
  <2>2. (s.count + ListRange - 1) % ListRange \in Numbers
    BY ListWidths, ListMod DEF LoadStates, Numbers
  <2>3. /\ t.stop /\ t.count = (s.count + ListRange - 1) % ListRange /\ t.cheats = s.cheats
        /\ t \in LoadStates
    BY <2>1, <2>2 DEF LoadStates
  <2>4. QED BY <1>2, <1>3, <2>3
<1>4. CASE s.size + 1 < BufferSize /\ s.cheat = NoLoop
  <2>1. t = s  BY <1>1, <1>2, <1>4 DEF CodeLine
  <2>2. QED BY <1>2, <1>4, <2>1
<1>5. CASE s.size + 1 < BufferSize /\ s.cheat # NoLoop
  <2> DEFINE c == [s.cheats EXCEPT ![s.cheat] = s.cheats[s.cheat] + 1]
  <2>1. t = [s EXCEPT !.cheats[s.cheat] = @ + 1, !.size = @ + 1]
    BY <1>1, <1>2, <1>5 DEF CodeLine
  <2>2. t = [s EXCEPT !.cheats = c, !.size = s.size + 1]
    BY <2>1 DEF LoadStates
  <2>3. c \in [Numbers -> Nat]
    BY <1>5 DEF LoadStates
  <2> HIDE DEF c
  <2>4. ~t.stop /\ t.count = s.count /\ t.cheat = s.cheat /\ t.cheats = c /\ t \in LoadStates
    <3>1. t = [cheats |-> c, count |-> s.count, cheat |-> s.cheat, size |-> s.size + 1,
               stop |-> s.stop]
      BY <2>2 DEF LoadStates
    <3>2. s.count \in Numbers /\ s.cheat \in Numbers \cup {NoLoop} /\ s.size + 1 \in Nat
          /\ s.stop \in BOOLEAN
      BY DEF LoadStates
    <3>3. QED BY <2>3, <3>1, <3>2 DEF LoadStates
  <2>5. QED BY <1>2, <1>5, <2>4 DEF c
<1>6. QED BY <1>2, <1>3, <1>4, <1>5

Again(s) == s.cheat # NoLoop /\ s.cheats[s.cheat] = 0
HasRoom(s) == ~(s.size + DescriptionSize >= BufferSize)
LEMMA NameLineIs ==
    ASSUME NEW s \in LoadStates, ~s.stop, NEW t, t = Line(s, "name")
    PROVE  /\ t \in LoadStates
           /\ Again(s) => t = s
           /\ ~Again(s) /\ ~HasRoom(s) => t.stop /\ t.count = s.count /\ t.cheats = s.cheats
           /\ ~Again(s) /\ HasRoom(s) =>
                 /\ ~t.stop /\ t.count = (s.count + 1) % ListRange /\ t.cheat = s.count
                 /\ t.cheats = [s.cheats EXCEPT ![s.count] = 0]
<1>1. t = NameLine(s)  BY DEF Line
<1>2. s.size \in Nat /\ DescriptionSize \in Nat
  BY ListWidths DEF LoadStates
<1>3. CASE Again(s)
  <2>1. t = s  BY <1>1, <1>3 DEF NameLine, Again
  <2>2. QED BY <1>3, <2>1
<1>4. CASE ~Again(s) /\ ~HasRoom(s)
  <2>1. t = [s EXCEPT !.stop = TRUE]
    BY <1>1, <1>4 DEF NameLine, Again, HasRoom
  <2>2. t.stop /\ t.count = s.count /\ t.cheats = s.cheats /\ t \in LoadStates
    BY <2>1 DEF LoadStates
  <2>3. QED BY <1>4, <2>2
<1>5. CASE ~Again(s) /\ HasRoom(s)
  <2> DEFINE c == [s.cheats EXCEPT ![s.count] = 0]
  <2>1. t = [s EXCEPT !.cheats[s.count] = 0, !.cheat = s.count,
                      !.count = (@ + 1) % ListRange, !.size = @ + DescriptionSize]
    BY <1>1, <1>5 DEF NameLine, Again, HasRoom
  <2>2. t = [s EXCEPT !.cheats = c, !.cheat = s.count,
                      !.count = (s.count + 1) % ListRange, !.size = s.size + DescriptionSize]
    BY <2>1 DEF LoadStates
  <2>3. (s.count + 1) % ListRange \in Numbers /\ s.count \in Numbers
    BY ListWidths, ListMod DEF LoadStates, Numbers
  <2>4. c \in [Numbers -> Nat]  BY DEF LoadStates
  <2> HIDE DEF c
  <2>5. ~t.stop /\ t.count = (s.count + 1) % ListRange /\ t.cheat = s.count /\ t.cheats = c
        /\ t \in LoadStates
    <3>1. t = [cheats |-> c, count |-> (s.count + 1) % ListRange, cheat |-> s.count,
               size |-> s.size + DescriptionSize, stop |-> s.stop]
      BY <2>2 DEF LoadStates
    <3>2. s.size + DescriptionSize \in Nat /\ s.stop \in BOOLEAN
      BY <1>2 DEF LoadStates
    <3>3. QED BY <2>3, <2>4, <3>1, <3>2 DEF LoadStates
  <2>6. QED BY <1>5, <2>5 DEF c
<1>6. QED BY <1>3, <1>4, <1>5

(* The facts a step needs: of k lines, NbDone cheats have begun.            *)
LEMMA CountFacts ==
    ASSUME NEW f, FitsList(f), NEW k \in Nat
    PROVE  /\ NbDone(f, k) \in Nat /\ NbDone(f, k) \in Numbers
           /\ Cardinality(Begins(f)) \in Nat /\ NbDone(f, k) <= Cardinality(Begins(f))
           /\ \A m \in Begins(f) :
                 /\ Number(f, m) \in Nat
                 /\ Number(f, m) < NbDone(f, k) <=> m \in Done(f, k)
           /\ \A m \in Done(f, k) : m \in Begins(f) /\ m \in Nat /\ m < k
<1>1. IsFile(f) /\ Cardinality(Begins(f)) < ListRange  BY DEF FitsList
<1>2. \A m : m \in Done(f, k) <=> m \in Begins(f) /\ m \in Nat /\ m < k  BY <1>1, InDone
<1>3. \A m \in Begins(f) : m \in Nat  BY <1>1, FileFacts
<1>4. /\ NbDone(f, k) \in Nat /\ Cardinality(Begins(f)) \in Nat
      /\ NbDone(f, k) <= Cardinality(Begins(f))
      /\ \A m \in Begins(f) : /\ Number(f, m) \in Nat
                              /\ m < k <=> Number(f, m) < NbDone(f, k)
  BY <1>1, DoneFacts DEF NbDone
<1>5. NbDone(f, k) \in Numbers  BY <1>1, <1>4, ListWidths DEF Numbers
<1>6. QED BY <1>2, <1>3, <1>4, <1>5

(* At a name every cheat that has begun is as the file says.                *)
LEMMA AtName ==
    ASSUME NEW f, FitsList(f), NEW k \in Nat, NEW l \in {k, k + 1}, l \in 1 .. Len(f),
           f[l] = "name", NEW s, KeepsCodes(f, k, s)
    PROVE  /\ \A m \in Done(f, k) : m < l =>
                 s.cheats[Number(f, m)] = CodesUpTo(f, m, k + 1)
           /\ \A m \in Done(f, k) : m < l =>
                 s.cheats[Number(f, m)] = CodesFrom(f, m)
<1>1. IsFile(f) /\ Len(f) \in Nat  BY FileFacts DEF FitsList
<1>2. ASSUME NEW m \in Done(f, k), m < l
      PROVE  /\ CodesUpTo(f, m, k) = CodesUpTo(f, m, k + 1)
             /\ CodesUpTo(f, m, k) = CodesUpTo(f, m, Len(f))
  <2>1. m \in Nat  BY <1>1, InDone
  <2>2. l \in Nat /\ l <= k + 1 /\ l <= k + 1 + 1 /\ l <= Len(f) + 1  BY <1>1
  <2>3. QED BY <1>1, <1>2, <2>1, <2>2, CodesStop
<1>3. \A m : CodesUpTo(f, m, Len(f)) = CodesFrom(f, m)  BY DEF CodesUpTo, CodeLines, CodesFrom
<1>4. QED BY <1>2, <1>3 DEF KeepsCodes

LEMMA NothingBegun ==
    ASSUME NEW f, IsFile(f), NEW k \in Nat, \A l \in 1 .. k : f[l] = "code"
    PROVE  Done(f, k) = {} /\ NbDone(f, k) = 0 /\ k \notin Begins(f)
<1>1. \A m \in Begins(f) : m \in 1 .. Len(f) /\ f[m] = "name"  BY FileFacts
<1>2. \A m \in Done(f, k) \cup {k} : m \in Begins(f) => m \in 1 .. k  BY <1>1, InDone
<1>3. Done(f, k) = {} /\ k \notin Begins(f)  BY <1>1, <1>2, InDone
<1>4. QED BY <1>3, FS_EmptySet DEF NbDone

LEMMA ReadName ==
    ASSUME NEW f, FitsList(f), NEW k \in Nat, k + 1 \in 1 .. Len(f), f[k + 1] = "name",
           NEW s, Reads(f, k, s), ~s.stop, NEW t, t = Line(s, "name")
    PROVE  Reads(f, k + 1, t)
<1> DEFINE n == NbDone(f, k)
<1>1. IsFile(f) /\ Cardinality(Begins(f)) < ListRange  BY DEF FitsList
<1>2. Done(f, k + 1) = Done(f, k) /\ NbDone(f, k + 1) = n
  <2>1. k \notin Begins(f)  BY <1>1, FileFacts
  <2>2. QED BY <1>1, <2>1, OneMoreDone DEF NbDone
<1>3. /\ n \in Nat /\ n \in Numbers /\ n <= Cardinality(Begins(f)) /\ Cardinality(Begins(f)) \in Nat
      /\ \A m \in Begins(f) : Number(f, m) < n => m \in Done(f, k)
      /\ \A m \in Done(f, k) : m < k + 1 /\ m \in Begins(f) /\ Number(f, m) \in Nat /\ Number(f, m) < n
  <2>1. /\ n \in Nat /\ n \in Numbers /\ n <= Cardinality(Begins(f)) /\ Cardinality(Begins(f)) \in Nat
        /\ \A m \in Begins(f) : Number(f, m) \in Nat /\ (Number(f, m) < n <=> m \in Done(f, k))
        /\ \A m \in Done(f, k) : m \in Begins(f) /\ m \in Nat /\ m < k
    BY CountFacts
  <2>2. \A m \in Nat : m < k => m < k + 1  OBVIOUS
  <2> HIDE DEF n
  <2>3. QED BY <2>1, <2>2
<1> HIDE DEF n
<1>4. s \in LoadStates /\ KeepsCodes(f, k, s)  BY DEF Reads
<1>5. \A m \in Done(f, k) : /\ s.cheats[Number(f, m)] = CodesUpTo(f, m, k + 1)
                            /\ s.cheats[Number(f, m)] = CodesFrom(f, m)
  <2>1. k + 1 \in {k, k + 1}  OBVIOUS
  <2>2. QED BY <1>3, <1>4, <2>1, AtName
<1>6. /\ t \in LoadStates
      /\ Again(s) => t = s
      /\ ~Again(s) /\ ~HasRoom(s) => t.stop /\ t.count = s.count /\ t.cheats = s.cheats
      /\ ~Again(s) /\ HasRoom(s) =>
            /\ ~t.stop /\ t.count = (s.count + 1) % ListRange /\ t.cheat = s.count
            /\ t.cheats = [s.cheats EXCEPT ![s.count] = 0]
  BY <1>4, NameLineIs
<1>7. s.cheats \in [Numbers -> Nat] /\ s.count \in Numbers  BY <1>4 DEF LoadStates
<1>8. \/ AfterName(f, k, s) /\ Again(s)
      \/ ~Again(s) /\ s.count = n
  <2>1. CASE BeforeNames(f, k, s)
    <3>1. n = 0  BY <1>1, <2>1, NothingBegun DEF n, BeforeNames
    <3>2. QED BY <2>1, <3>1 DEF BeforeNames, Again
  <2>2. CASE AfterName(f, k, s)
    <3>1. s.cheat = n /\ s.cheats[n] = 0  BY <2>2 DEF AfterName, n
    <3>2. n # NoLoop  BY <1>3, ListWidths
    <3>3. QED BY <2>2, <3>1, <3>2 DEF Again
  <2>3. CASE AmongCodes(f, k, s)
    BY <2>3 DEF AmongCodes, n, Again
  <2>4. QED BY <2>1, <2>2, <2>3 DEF Reads
<1>9. CASE AfterName(f, k, s) /\ Again(s)
  <2>1. t = s  BY <1>6, <1>9
  <2>2. AfterName(f, k + 1, t)  BY <1>2, <1>9, <2>1 DEF AfterName, n
  <2>3. KeepsCodes(f, k + 1, t)  BY <1>2, <1>5, <2>1 DEF KeepsCodes
  <2>4. QED BY <1>6, <2>1, <2>2, <2>3 DEF Reads
<1>10. CASE ~Again(s) /\ s.count = n /\ ~HasRoom(s)
  <2>1. t.stop /\ t.count = n /\ t.cheats = s.cheats  BY <1>6, <1>10
  <2>2. IsRead(f, t)  BY <1>3, <1>5, <2>1 DEF IsRead
  <2>3. QED BY <1>6, <2>1, <2>2 DEF Reads
<1>11. CASE ~Again(s) /\ s.count = n /\ HasRoom(s)
  <2>1. ~t.stop /\ t.count = (n + 1) % ListRange /\ t.cheat = n
        /\ t.cheats = [s.cheats EXCEPT ![n] = 0]
    BY <1>6, <1>11
  <2>2. t.cheats[n] = 0 /\ \A m \in Done(f, k) : t.cheats[Number(f, m)] = s.cheats[Number(f, m)]
    <3>1. \A m \in Done(f, k) : Number(f, m) \in Numbers /\ Number(f, m) # n
      <4>1. \A h \in Nat : h < n => h \in Numbers /\ h # n  BY <1>3, ListWidths DEF Numbers
      <4>2. QED BY <1>3, <4>1
    <3>2. QED BY <1>3, <1>7, <2>1, <3>1
  <2>3. AfterName(f, k + 1, t)  BY <1>2, <2>1, <2>2 DEF AfterName
  <2>4. KeepsCodes(f, k + 1, t)  BY <1>2, <1>5, <2>2 DEF KeepsCodes
  <2>5. QED BY <1>6, <2>1, <2>3, <2>4 DEF Reads
<1>12. QED BY <1>8, <1>9, <1>10, <1>11

LEMMA ReadCode ==
    ASSUME NEW f, FitsList(f), NEW k \in Nat, k + 1 \in 1 .. Len(f), f[k + 1] = "code",
           NEW s, Reads(f, k, s), ~s.stop, NEW t, t = Line(s, "code")
    PROVE  Reads(f, k + 1, t)
<1> DEFINE n == NbDone(f, k)
           full == s.size + 1 >= BufferSize
<1>1. IsFile(f) /\ Cardinality(Begins(f)) < ListRange  BY DEF FitsList
<1>2. /\ n \in Nat /\ n \in Numbers /\ n <= Cardinality(Begins(f)) /\ Cardinality(Begins(f)) \in Nat
      /\ \A m \in Begins(f) : Number(f, m) \in Nat /\ (Number(f, m) < n <=> m \in Done(f, k))
      /\ \A m \in Done(f, k) : m \in Begins(f) /\ m \in Nat /\ m < k
  BY CountFacts
<1>3. s \in LoadStates /\ KeepsCodes(f, k, s)  BY DEF Reads
<1>4. s.size \in Nat /\ BufferSize \in Nat /\ BufferSize > 1 /\ ListRange \in Nat /\ ListRange > 0
      /\ s.cheats \in [Numbers -> Nat]
  BY <1>3, ListWidths DEF LoadStates
<1>5. /\ t \in LoadStates
      /\ full => t.stop /\ t.count = (s.count + ListRange - 1) % ListRange /\ t.cheats = s.cheats
      /\ ~full /\ s.cheat = NoLoop => t = s
      /\ ~full /\ s.cheat # NoLoop =>
            /\ ~t.stop /\ t.count = s.count /\ t.cheat = s.cheat
            /\ t.cheats = [s.cheats EXCEPT ![s.cheat] = s.cheats[s.cheat] + 1]
  <2>1. ~full => s.size + 1 < BufferSize  BY <1>4
  <2> HIDE DEF full
  <2>2. QED BY <1>3, <2>1, CodeLineIs DEF full
<1>6. \A m : CodesUpTo(f, m, Len(f)) = CodesFrom(f, m)  BY DEF CodesUpTo, CodeLines, CodesFrom
<1>7. Len(f) \in Nat  BY <1>1, FileFacts
<1>8. CASE BeforeNames(f, k, s)
  <2>1. ~full /\ s.cheat = NoLoop  BY <1>4, <1>8 DEF BeforeNames
  <2> HIDE DEF full
  <2>2. t = s  BY <1>5, <2>1
  <2>3. BeforeNames(f, k + 1, t)  BY <1>8, <2>2 DEF BeforeNames
  <2>4. Done(f, k + 1) = {}  BY <1>1, <2>3, NothingBegun DEF BeforeNames
  <2>5. KeepsCodes(f, k + 1, t)  BY <2>4 DEF KeepsCodes
  <2>6. QED BY <1>3, <2>2, <2>3, <2>5 DEF Reads
<1>9. CASE AfterName(f, k, s)
  <2>1. k # 0 /\ f[k] = "name" /\ s.cheat = n /\ s.count = (n + 1) % ListRange /\ s.cheats[n] = 0
    BY <1>9 DEF AfterName
  <2>2. k \in 1 .. Len(f) /\ k \in Begins(f)  BY <1>1, <1>7, <2>1, FileFacts
  <2>3. /\ Done(f, k + 1) = Done(f, k) \cup {k} /\ k \notin Done(f, k)
        /\ NbDone(f, k + 1) = n + 1 /\ Number(f, k) = n
    BY <1>1, <2>2, OneMoreDone DEF NbDone
  <2>4. n + 1 <= Cardinality(Begins(f))
    <3>1. k + 1 \in Nat  OBVIOUS
    <3>2. NbDone(f, k + 1) <= Cardinality(Begins(f))  BY <3>1, CountFacts
    <3>3. QED BY <2>3, <3>2
  <2> HIDE DEF n, full
  <2>5. n + 1 \in Numbers /\ s.count = n + 1
    <3>1. n + 1 \in 0 .. ListRange /\ n + 1 # ListRange  BY <1>1, <1>2, <1>4, <2>4
    <3>2. n + 1 \in Numbers  BY <1>4, <3>1 DEF Numbers
    <3>3. (n + 1) % ListRange = n + 1  BY <3>1, ListMod
    <3>4. QED BY <2>1, <3>2, <3>3
  <2>6. \A m \in Done(f, k) : /\ s.cheats[Number(f, m)] = CodesUpTo(f, m, k + 1)
                              /\ s.cheats[Number(f, m)] = CodesFrom(f, m)
    BY <1>2, <1>3, <2>1, <2>2, AtName
  <2>7. CASE full
    <3>1. t.stop /\ t.cheats = s.cheats /\ t.count = (n + 1 + ListRange - 1) % ListRange
      BY <1>5, <2>5, <2>7
    <3>2. t.count = n
      <4>1. (n + 1 + ListRange - 1) % ListRange = (n + 1) - 1  BY <1>2, <2>5, ListMod
      <4>2. QED BY <1>2, <3>1, <4>1
    <3>3. IsRead(f, t)  BY <1>2, <2>6, <3>1, <3>2 DEF IsRead
    <3>4. QED BY <1>5, <3>1, <3>3 DEF Reads
  <2>8. CASE ~full
    <3>1. n # NoLoop  BY <1>2, ListWidths
    <3>2. /\ ~t.stop /\ t.count = n + 1 /\ t.cheat = n
          /\ t.cheats = [s.cheats EXCEPT ![n] = 1]
      BY <1>5, <2>1, <2>5, <2>8, <3>1
    <3>3. t.cheats[n] = 1 /\ \A h \in Numbers : h # n => t.cheats[h] = s.cheats[h]
      BY <1>2, <1>4, <3>2
    <3>4. CodesUpTo(f, k, k + 1) = 1
      <4>1. \A l \in k + 1 .. k + 1 : f[l] = "code"  OBVIOUS
      <4>2. CodesUpTo(f, k, k + 1) = CodesUpTo(f, k, k) + 1  BY <4>1, CodesGoOn
      <4>3. QED BY <4>2, CodesFacts
    <3>5. KeepsCodes(f, k + 1, t)
      <4>1. \A m \in Done(f, k) : Number(f, m) \in Numbers /\ Number(f, m) # n
        <5>1. \A h \in Nat : h < n => h \in Numbers /\ h # n  BY <1>2, <1>4 DEF Numbers
        <5>2. QED BY <1>2, <5>1
      <4>2. QED BY <2>3, <2>6, <3>3, <3>4, <4>1 DEF KeepsCodes
    <3>6. AmongCodes(f, k + 1, t)
      <4>1. k \in Done(f, k + 1) /\ Number(f, k) = NbDone(f, k + 1) - 1
            /\ NbDone(f, k + 1) - 1 = n /\ NbDone(f, k + 1) = n + 1
        BY <1>2, <2>3
      <4>2. \A l \in k + 1 .. k + 1 : f[l] = "code"  OBVIOUS
      <4>3. QED BY <3>2, <3>3, <4>1, <4>2 DEF AmongCodes
    <3>7. QED BY <1>5, <3>2, <3>5, <3>6 DEF Reads
  <2>9. QED BY <2>7, <2>8
<1>10. CASE AmongCodes(f, k, s)
  <2>1. s.cheat = n - 1 /\ s.count = n /\ s.cheats[n - 1] # 0  BY <1>10 DEF AmongCodes
  <2>2. PICK b \in Done(f, k) : Number(f, b) = n - 1 /\ \A l \in b + 1 .. k : f[l] = "code"
    BY <1>10 DEF AmongCodes
  <2> HIDE DEF n, full
  <2>3. b \in Begins(f) /\ b \in Nat /\ b < k /\ n - 1 \in Nat  BY <1>2, <2>2
  <2>4. f[b] = "name" /\ b \in 1 .. Len(f)  BY <1>1, <2>3, FileFacts
  <2>5. Done(f, k + 1) = Done(f, k) /\ NbDone(f, k + 1) = n
    <3>1. f[k] = "code"  BY <2>2, <2>3
    <3>2. k \notin Begins(f)  BY <1>1, <3>1, FileFacts
    <3>3. QED BY <1>1, <3>2, OneMoreDone DEF NbDone, n
  <2>6. ASSUME NEW m \in Done(f, k), m # b
        PROVE  /\ m < b /\ Number(f, m) < n - 1 /\ Number(f, m) \in Nat
               /\ s.cheats[Number(f, m)] = CodesUpTo(f, m, k + 1)
               /\ s.cheats[Number(f, m)] = CodesFrom(f, m)
    <3>1. m \in Begins(f) /\ m \in Nat /\ m < k /\ Number(f, m) \in Nat  BY <1>2
    <3>2. f[m] = "name"  BY <1>1, <3>1, FileFacts
    <3>3. m < b  BY <2>2, <2>3, <2>6, <3>1, <3>2
    <3>4. Number(f, m) < n - 1
      <4>1. m < b <=> Number(f, m) < Cardinality(Done(f, b))  BY <1>1, <2>3, <3>1, DoneFacts
      <4>2. Number(f, b) = Cardinality(Done(f, b))  BY <1>1, <2>3, DoneFacts
      <4>3. QED BY <2>2, <3>3, <4>1, <4>2
    <3>5. CodesUpTo(f, m, k) = CodesUpTo(f, m, k + 1) /\ CodesUpTo(f, m, k) = CodesUpTo(f, m, Len(f))
      <4>1. b <= k + 1 /\ b <= k + 1 + 1 /\ b <= Len(f) + 1  BY <1>7, <2>3, <2>4
      <4>2. QED BY <1>7, <2>3, <2>4, <3>1, <3>3, <4>1, CodesStop
    <3>6. s.cheats[Number(f, m)] = CodesUpTo(f, m, k)  BY <1>3 DEF KeepsCodes
    <3>7. QED BY <1>6, <3>1, <3>3, <3>4, <3>5, <3>6
  <2>7. n \in Numbers /\ n - 1 \in Numbers  BY <1>2, <1>4, <2>3 DEF Numbers
  <2>8. CASE full
    <3>1. t.stop /\ t.cheats = s.cheats /\ t.count = (n + ListRange - 1) % ListRange
      BY <1>5, <2>1, <2>8
    <3>2. t.count = n - 1  BY <2>3, <2>7, <3>1, ListMod
    <3>3. ASSUME NEW m \in Begins(f), Number(f, m) < n - 1
          PROVE  s.cheats[Number(f, m)] = CodesFrom(f, m)
      <4>1. Number(f, m) \in Nat  BY <1>2
      <4>2. Number(f, m) < n /\ m # b  BY <1>2, <2>2, <3>3, <4>1
      <4>3. m \in Done(f, k)  BY <1>2, <4>2
      <4>4. QED BY <2>6, <4>2, <4>3
    <3>4. n - 1 <= Cardinality(Begins(f))  BY <1>2
    <3>5. IsRead(f, t)  BY <3>1, <3>2, <3>3, <3>4 DEF IsRead
    <3>6. QED BY <1>5, <3>1, <3>5 DEF Reads
  <2>9. CASE ~full
    <3>1. n - 1 # NoLoop  BY <2>3, ListWidths
    <3>2. /\ ~t.stop /\ t.count = n /\ t.cheat = n - 1
          /\ t.cheats = [s.cheats EXCEPT ![n - 1] = s.cheats[n - 1] + 1]
      BY <1>5, <2>1, <2>9, <3>1
    <3>3. t.cheats[n - 1] = s.cheats[n - 1] + 1 /\ \A h \in Numbers : h # n - 1 => t.cheats[h] = s.cheats[h]
      BY <1>4, <2>7, <3>2
    <3>4. \A l \in b + 1 .. k + 1 : f[l] = "code"  BY <2>2, <2>3
    <3>5. CodesUpTo(f, b, k + 1) = CodesUpTo(f, b, k) + 1  BY <2>3, <3>4, CodesGoOn
    <3>6. KeepsCodes(f, k + 1, t)
      <4>1. \A m \in Done(f, k) : m # b => Number(f, m) \in Numbers /\ Number(f, m) # n - 1
        <5>1. \A h \in Nat : h < n - 1 => h \in Numbers /\ h # n - 1  BY <1>2, <1>4, <2>3 DEF Numbers
        <5>2. QED BY <2>6, <5>1
      <4>2. s.cheats[n - 1] = CodesUpTo(f, b, k)  BY <1>3, <2>2 DEF KeepsCodes
      <4>3. t.cheats[Number(f, b)] = CodesUpTo(f, b, k + 1)  BY <2>2, <3>3, <3>5, <4>2
      <4>4. \A m \in Done(f, k) : m # b => t.cheats[Number(f, m)] = CodesUpTo(f, m, k + 1)
        BY <2>6, <3>3, <4>1
      <4>5. QED BY <2>5, <4>3, <4>4 DEF KeepsCodes
    <3>7. AmongCodes(f, k + 1, t)
      <4>1. t.cheats[n - 1] # 0
        <5>1. s.cheats[n - 1] \in Nat  BY <1>4, <2>7
        <5>2. QED BY <3>3, <5>1
      <4>2. QED BY <2>2, <2>5, <3>2, <3>4, <4>1 DEF AmongCodes
    <3>8. QED BY <1>5, <3>2, <3>6, <3>7 DEF Reads
  <2>10. QED BY <2>8, <2>9
<1>11. QED BY <1>8, <1>9, <1>10 DEF Reads

(* Of what a file does not say no more than the types is known.             *)
LEMMA LineTyped ==
    ASSUME NEW s \in LoadStates, NEW x \in {"name", "code"}
    PROVE  Line(s, x) \in LoadStates
<1>1. CASE s.stop  BY <1>1 DEF Line
<1>2. CASE ~s.stop
  <2>1. Line(s, "code") \in LoadStates  BY <1>2, CodeLineIs
  <2>2. Line(s, "name") \in LoadStates  BY <1>2, NameLineIs
  <2>3. QED BY <2>1, <2>2
<1>3. QED BY <1>1, <1>2 DEF LoadStates

LEMMA NextLine ==
    ASSUME NEW f, FitsList(f), NEW k \in Nat, k + 1 \in 1 .. Len(f), NEW s, Reads(f, k, s)
    PROVE  Reads(f, k + 1, Line(s, f[k + 1]))
<1>1. CASE s.stop
  <2>1. Line(s, f[k + 1]) = s  BY <1>1 DEF Line
  <2>2. QED BY <1>1, <2>1 DEF Reads
<1>2. CASE ~s.stop
  <2>1. f[k + 1] \in {"name", "code"}  BY FileFacts DEF FitsList
  <2>2. QED BY <1>2, <2>1, ReadName, ReadCode
<1>3. QED BY <1>1, <1>2

(* The states the loop goes through, first for at most n lines.             *)
StateAt(after, f, k) == IF k = 0 THEN NoLine ELSE Line(after[k - 1], f[k])
Reading(after, f) == after = [k \in 0 .. Len(f) |-> StateAt(after, f, k)]
ReadsUpTo(after, f, n) == \A k \in 0 .. Len(f) : k <= n => after[k] = StateAt(after, f, k)

LEMMA ReadingExists == ASSUME NEW f, Len(f) \in Nat PROVE \E after : Reading(after, f)
<1> DEFINE S == {n \in Nat : \E after : ReadsUpTo(after, f, n)}
<1>1. 0 \in S
  <2> DEFINE after == [k \in 0 .. Len(f) |-> NoLine]
  <2>1. ReadsUpTo(after, f, 0)  BY DEF ReadsUpTo, StateAt
  <2>2. QED BY <2>1
<1>2. ASSUME NEW n \in S PROVE n + 1 \in S
  <2>1. PICK g : ReadsUpTo(g, f, n)  BY <1>2
  <2>2. n \in Nat  BY <1>2
  <2> DEFINE after == [k \in 0 .. Len(f) |-> IF k <= n THEN g[k] ELSE StateAt(g, f, k)]
  <2>3. ASSUME NEW k \in 0 .. Len(f), k <= n + 1 PROVE after[k] = StateAt(after, f, k)
    <3>1. k # 0 => k - 1 \in 0 .. Len(f) /\ k - 1 <= n  BY <2>2, <2>3
    <3>2. k # 0 => after[k - 1] = g[k - 1]  BY <3>1
    <3>3. after[k] = StateAt(g, f, k)  BY <2>1, <2>3 DEF ReadsUpTo
    <3> HIDE DEF after
    <3>4. QED BY <3>2, <3>3 DEF StateAt
  <2> HIDE DEF after
  <2>4. ReadsUpTo(after, f, n + 1)  BY <2>3 DEF ReadsUpTo
  <2>5. QED BY <2>2, <2>4
<1>3. Len(f) \in S
  <2>1. S \in SUBSET Nat  OBVIOUS
  <2> HIDE DEF S
  <2>2. \A n \in Nat : n \in S  BY <1>1, <1>2, <2>1, EveryNumber
  <2>3. QED BY <2>2
<1>4. PICK g : ReadsUpTo(g, f, Len(f))  BY <1>3
<1> DEFINE after == [k \in 0 .. Len(f) |-> g[k]]
<1>5. ASSUME NEW k \in 0 .. Len(f) PROVE after[k] = StateAt(after, f, k)
  <2>1. g[k] = StateAt(g, f, k)  BY <1>4 DEF ReadsUpTo
  <2>2. k # 0 => k - 1 \in 0 .. Len(f)  OBVIOUS
  <2>3. after[k] = g[k] /\ (k # 0 => after[k - 1] = g[k - 1])  BY <2>2
  <2> HIDE DEF after
  <2>4. QED BY <2>1, <2>3 DEF StateAt
<1>6. after = [k \in 0 .. Len(f) |-> after[k]]  OBVIOUS
<1> HIDE DEF after
<1>7. after = [k \in 0 .. Len(f) |-> StateAt(after, f, k)]  BY <1>5, <1>6
<1>8. QED BY <1>7 DEF Reading

LEMMA EveryLine ==
    ASSUME NEW f, IsFile(f), cheats \in [Numbers -> Nat], NEW after, Reading(after, f)
    PROVE  /\ after[Len(f)] \in LoadStates
           /\ FitsList(f) => Reads(f, Len(f), after[Len(f)])
<1> DEFINE Good(k) == after[k] \in LoadStates /\ (FitsList(f) => Reads(f, k, after[k]))
           S == {n \in Nat : n <= Len(f) => Good(n)}
<1>1. Len(f) \in Nat /\ \A k \in 1 .. Len(f) : f[k] \in {"name", "code"}  BY FileFacts
<1>2. \A k \in 0 .. Len(f) : after[k] = StateAt(after, f, k)  BY DEF Reading
<1>3. 0 \in S
  <2>1. after[0] = NoLine  BY <1>1, <1>2 DEF StateAt
  <2>2. NoLine \in LoadStates /\ ~NoLine.stop  BY ListWidths DEF NoLine, LoadStates, Numbers
  <2>3. BeforeNames(f, 0, NoLine)  BY DEF BeforeNames, NoLine
  <2>4. KeepsCodes(f, 0, NoLine)
    <3>1. Done(f, 0) = {}  BY NothingBegun
    <3>2. QED BY <3>1 DEF KeepsCodes
  <2>5. QED BY <2>1, <2>2, <2>3, <2>4 DEF Reads
<1>4. ASSUME NEW k \in S PROVE k + 1 \in S
  <2> SUFFICES ASSUME k + 1 <= Len(f) PROVE Good(k + 1)
    OBVIOUS
  <2>1. k \in Nat /\ k + 1 \in 1 .. Len(f) /\ k + 1 \in 0 .. Len(f) /\ k <= Len(f)  BY <1>1
  <2>2. Good(k)  BY <2>1
  <2>3. after[k + 1] = Line(after[k], f[k + 1])  BY <1>2, <2>1 DEF StateAt
  <2>4. after[k + 1] \in LoadStates  BY <1>1, <2>1, <2>2, <2>3, LineTyped
  <2>5. FitsList(f) => Reads(f, k + 1, after[k + 1])  BY <2>1, <2>2, <2>3, NextLine
  <2>6. QED BY <2>4, <2>5
<1>5. Len(f) \in S
  <2>1. S \in SUBSET Nat  OBVIOUS
  <2> HIDE DEF S
  <2>2. \A n \in Nat : n \in S  BY <1>3, <1>4, <2>1, EveryNumber
  <2>3. QED BY <1>1, <2>2
<1>6. QED BY <1>1, <1>5

(* Once all lines are read, a last cheat that has no codes is taken off.    *)
LEMMA AllIsRead ==
    ASSUME NEW f, FitsList(f), NEW s, Reads(f, Len(f), s), NEW count,
           count = IF s.count > 0 /\ s.cheats[s.count - 1] = 0 THEN s.count - 1 ELSE s.count
    PROVE  IsRead(f, [s EXCEPT !.count = count])
<1> DEFINE n == NbDone(f, Len(f))
<1>1. Len(f) \in Nat /\ IsFile(f)  BY FileFacts DEF FitsList
<1>2. /\ n \in Nat /\ n \in Numbers /\ n <= Cardinality(Begins(f)) /\ Cardinality(Begins(f)) \in Nat
      /\ \A m \in Begins(f) : Number(f, m) \in Nat /\ (Number(f, m) < n => m \in Done(f, Len(f)))
  BY <1>1, CountFacts
<1>3. s \in LoadStates /\ s.count \in Nat /\ Cardinality(Begins(f)) < ListRange
  BY ListWidths DEF Reads, LoadStates, Numbers, FitsList
<1> DEFINE t == [s EXCEPT !.count = count]
<1>4. t.count = count /\ t.cheats = s.cheats  BY <1>3 DEF LoadStates
<1>5. count \in Nat /\ count <= s.count  BY <1>3
<1> HIDE DEF n, t
<1>6. CASE s.stop
  <2>1. IsRead(f, s)  BY <1>6 DEF Reads
  <2>2. \A h \in Nat : h < count => h < s.count  BY <1>3, <1>5
  <2>3. count <= Cardinality(Begins(f))  BY <1>2, <1>3, <1>5, <2>1 DEF IsRead
  <2>4. IsRead(f, t)  BY <1>2, <1>4, <2>1, <2>2, <2>3 DEF IsRead
  <2>5. QED BY <2>4 DEF t
<1>7. CASE ~s.stop
  <2>1. KeepsCodes(f, Len(f), s)  BY <1>7 DEF Reads
  <2>2. \A m : CodesUpTo(f, m, Len(f)) = CodesFrom(f, m)  BY DEF CodesUpTo, CodeLines, CodesFrom
  <2>3. \A m \in Done(f, Len(f)) : s.cheats[Number(f, m)] = CodesFrom(f, m)
    BY <2>1, <2>2 DEF KeepsCodes
  <2>4. count <= n
    <3>1. CASE BeforeNames(f, Len(f), s)
      BY <1>2, <1>3, <1>5, <3>1 DEF BeforeNames
    <3>2. CASE AfterName(f, Len(f), s)
      <4>1. s.cheats[n] = 0 /\ s.count = (n + 1) % ListRange  BY <3>2 DEF AfterName, n
      <4>2. n + 1 \in 0 .. ListRange  BY <1>2, ListWidths DEF Numbers
      <4>3. s.count = 0 \/ s.count = n + 1  BY <4>1, <4>2, ListMod
      <4>4. QED BY <1>2, <1>3, <4>1, <4>3
    <3>3. CASE AmongCodes(f, Len(f), s)
      <4>1. s.count = n  BY <3>3 DEF AmongCodes, n
      <4>2. QED BY <1>5, <4>1
    <3>4. QED BY <1>7, <3>1, <3>2, <3>3 DEF Reads
  <2>5. \A h \in Nat : h < count => h < n  BY <1>2, <1>5, <2>4
  <2>6. count <= Cardinality(Begins(f))  BY <1>2, <1>5, <2>4
  <2>7. IsRead(f, t)  BY <1>2, <1>4, <2>3, <2>5, <2>6 DEF IsRead
  <2>8. QED BY <2>7 DEF t
<1>8. QED BY <1>6, <1>7

LEMMA LoadedIs ==
    ASSUME NEW f, IsFile(f), cheats \in [Numbers -> Nat]
    PROVE  /\ Loaded(f).cheats \in [Numbers -> Nat] /\ Loaded(f).count \in Numbers
           /\ FitsList(f) => IsRead(f, Loaded(f))
<1> DEFINE after == CHOOSE after : Reading(after, f)
           s == after[Len(f)]
           noCodes == s.count > 0 /\ s.cheats[s.count - 1] = 0
           count == IF noCodes THEN s.count - 1 ELSE s.count
<1>1. Len(f) \in Nat  BY FileFacts
<1>2. Reading(after, f)  BY <1>1, ReadingExists
<1>3. Loaded(f) = IF noCodes THEN [s EXCEPT !.count = @ - 1] ELSE s
  BY DEF Loaded, Reading, StateAt
<1> HIDE DEF after
<1>4. s \in LoadStates /\ (FitsList(f) => Reads(f, Len(f), s))  BY <1>2, EveryLine
<1> HIDE DEF s
<1>5. Loaded(f) = [s EXCEPT !.count = count]
  BY <1>3, <1>4 DEF LoadStates
<1>6. count \in Numbers
  BY <1>4, ListWidths DEF LoadStates, Numbers
<1>7. FitsList(f) => IsRead(f, [s EXCEPT !.count = count])
  BY <1>4, AllIsRead
<1>8. [s EXCEPT !.count = count].cheats = s.cheats /\ [s EXCEPT !.count = count].count = count
      /\ s.cheats \in [Numbers -> Nat]
  BY <1>4 DEF LoadStates
<1> HIDE DEF count, noCodes
<1>9. QED BY <1>5, <1>6, <1>7, <1>8

ListInv == cheats \in [Numbers -> Nat] /\ cheatCount \in Numbers /\ ListIsWhole

LEMMA ListBegins == LoadInit => ListInv
<1> SUFFICES ASSUME LoadInit PROVE ListInv
  OBVIOUS
<1>1. cheats \in [Numbers -> Nat] /\ cheatCount = 0 /\ cheatCount \in Numbers /\ file = <<>>
  BY ListWidths DEF LoadInit, Numbers
<1>2. Begins(<<>>) = {}  BY DEF Begins
<1>3. Cardinality(Begins(<<>>)) = 0  BY <1>2, FS_EmptySet
<1>4. QED BY <1>1, <1>2, <1>3 DEF ListInv, ListIsWhole

LEMMA ListGoesOn == ListInv /\ [LoadNext]_listVars => ListInv'
<1> SUFFICES ASSUME ListInv, [LoadNext]_listVars PROVE ListInv'
  OBVIOUS
<1>1. CASE UNCHANGED listVars
  BY <1>1 DEF ListInv, ListIsWhole, listVars
<1>2. CASE LoadNext
  <2> PICK f \in Files : \E lines \in 0 .. Len(f) : LoadCheatsIntoMemory(f, lines)
    BY <1>2 DEF LoadNext
  <2>1. PICK lines \in 0 .. Len(f) : LoadCheatsIntoMemory(f, lines)
    OBVIOUS
  <2> DEFINE g == SubSeq(f, 1, lines)
  <2>2. f \in Seq({"name", "code"}) /\ Len(f) \in Nat
    BY CheatsAssumption, LenProperties DEF CheatsAssumption
  <2>3. IsFile(g) /\ (lines = Len(f) => g = f)
    <3>1. \A h \in 1 .. lines : f[h] \in {"name", "code"}
      <4>1. \A h \in 1 .. lines : h \in 1 .. Len(f)  BY <2>2
      <4>2. QED BY <2>2, <4>1, FileFacts DEF IsFile
    <3>2. g \in Seq({"name", "code"})  BY <2>2, <3>1, SubSeqProperties
    <3>3. lines = Len(f) => g = f  BY <2>2, SubSeqFull
    <3>4. QED BY <3>2, <3>3 DEF IsFile
  <2>4. /\ file' = f /\ (~failed' => lines = Len(f))
        /\ cheats' = Loaded(g).cheats /\ cheatCount' = Loaded(g).count
    <3>1. /\ file' = f /\ failed' = (lines < Len(f))
          /\ cheats' = Loaded(g).cheats /\ cheatCount' = Loaded(g).count
      BY <2>1 DEF LoadCheatsIntoMemory
    <3>2. ~(lines < Len(f)) => lines = Len(f)  BY <2>2
    <3> HIDE DEF g
    <3>3. QED BY <3>1, <3>2
  <2> HIDE DEF g
  <2>5. /\ Loaded(g).cheats \in [Numbers -> Nat] /\ Loaded(g).count \in Numbers
        /\ FitsList(g) => IsRead(g, Loaded(g))
    BY <2>3, LoadedIs DEF ListInv
  <2>6. ListIsWhole'
    <3> SUFFICES ASSUME ~failed', Cardinality(Begins(f)) < ListRange
                 PROVE  /\ cheatCount' <= Cardinality(Begins(f))
                        /\ \A k \in Begins(f) : Number(f, k) < cheatCount' =>
                              cheats'[Number(f, k)] = CodesFrom(f, k)
      BY <2>4 DEF ListIsWhole, Begins, Number, CodesFrom
    <3>1. g = f /\ FitsList(g)  BY <2>2, <2>3, <2>4 DEF FitsList, IsFile
    <3>2. IsRead(f, Loaded(f))  BY <2>5, <3>1
    <3>3. QED BY <2>4, <3>1, <3>2 DEF IsRead
  <2>7. QED BY <2>4, <2>5, <2>6 DEF ListInv, Numbers
<1>3. QED BY <1>1, <1>2

(* ListIsWhole: of every file that is read to its end and has fewer cheats  *)
(* than cheatCount has values, the list Cheat_LoadCheatsIntoMemory leaves   *)
(* holds the first cheats, each in its place and with all of its codes.     *)
THEOREM ListsAreLoaded == LoadSpec => []ListIsWhole
<1>1. ListInv => ListIsWhole  BY DEF ListInv
<1>2. QED BY <1>1, ListBegins, ListGoesOn, PTL DEF LoadSpec

(* CheatsInv: codes are skipped with their conditions, and cheats are read  *)
(* as a whole, for any width of the registers and any size of the buffer.   *)
THEOREM CheatsAreRight == InterpreterSpec /\ LoadSpec => []CheatsInv
<1>1. SkipsNest /\ ListIsWhole => CheatsInv  BY DEF CheatsInv
<1>2. QED BY <1>1, CodesSkippedWithTheirConditions, ListsAreLoaded, PTL

-----------------------------------------------------------------------------
(***************************************************************************)
(* pm's pool of headers: while no exchange was deceived, the free buffers  *)
(* form a chain from the head, and each buffer is on it or held once, for  *)
(* any number of buffers and threads.                                      *)
(***************************************************************************)

(* Thread t holds b as its k-th.                                            *)
Holds(t, k, b) == t \in Threads /\ k \in 1 .. Len(held[t]) /\ held[t][k] = b
IsHeld(b) == \E t \in Threads, k \in Nat : Holds(t, k, b)
OneHolder == \A t, u \in Threads, j, k \in Nat, b \in Buffers :
                Holds(t, j, b) /\ Holds(u, k, b) => t = u /\ j = k
HeldOK == /\ held \in [Threads -> Seq(Buffers)]
          /\ \A t \in Threads : Len(held[t]) <= Depth[t]
          /\ OneHolder

(* The free buffers in their order: each one's next is the one after it.    *)
At(n, s, p) == IF p \in 1 .. n THEN s[p] ELSE Beyond
Sequel(n, s) == /\ n \in Nat /\ s \in [1 .. n -> Buffers]
                /\ \A p, j \in 1 .. n : s[p] = s[j] => p = j
                /\ \A b \in Buffers : (\E p \in 1 .. n : s[p] = b) <=> ~IsHeld(b)
Linked(n, s) == /\ headNode = At(n, s, 1)
                /\ \A p \in 1 .. n : nextNode[s[p]] = At(n, s, p + 1)
Chained == \E n, s : Sequel(n, s) /\ Linked(n, s)

(* What a thread relies on in the middle of a call.                         *)
Pcs == {"outside", "new: read", "new: swap", "delete: write", "delete: swap"}
OpTypes == /\ op \in [Threads -> [pc : Pcs, oldHead : Addresses, newHead : Addresses]]
           /\ headNode \in Addresses /\ nextNode \in [Buffers -> Addresses]
Taking(t) == op[t].pc \in {"new: read", "new: swap"}
Giving(t) == op[t].pc \in {"delete: write", "delete: swap"}
OpOK(t) == /\ Taking(t) => Len(held[t]) < Depth[t]
           /\ Giving(t) => held[t] # <<>> /\ op[t].newHead = held[t][Len(held[t])]
           /\ op[t].pc = "delete: swap" => nextNode[op[t].newHead] = op[t].oldHead
OpsOK == \A t \in Threads : OpOK(t)

PoolOK == OpTypes /\ HeldOK /\ OpsOK /\ Chained
PoolInv == ~reused => PoolOK

LEMMA Sizes == /\ NbBuffers \in Nat \ {0} /\ NULL \notin Nat /\ Depth \in [Threads -> Nat]
               /\ Buffers = 1 .. NbBuffers /\ Buffers \subseteq Addresses
               /\ Beyond \notin Buffers /\ Beyond \in Addresses /\ Header \in Addresses
               /\ NULL \in Addresses
BY HeapAssumption DEF Buffers, Beyond, Addresses

(* A thread that may take one more finds one: not all buffers are held,     *)
(* since each that is takes the place of another use.                       *)
LEMMA SomeFree ==
    ASSUME HeldOK, NEW t \in Threads, Len(held[t]) < Depth[t]
    PROVE  \E b \in Buffers : ~IsHeld(b)
<1> SUFFICES ASSUME \A b \in Buffers : IsHeld(b) PROVE FALSE
  OBVIOUS
<1>1. PICK place \in [Uses -> Buffers] : \A a, b \in Uses : place[a] = place[b] => a = b
  BY HeapAssumption DEF ExistsInjection, Injection, IsInjective
<1> DEFINE Use(b) == CHOOSE e \in Uses : Holds(e[1], e[2], b)
           mine == <<t, Len(held[t]) + 1>>
           f == [b \in Buffers |-> place[Use(b)]]
<1>2. \A u \in Threads : Len(held[u]) \in Nat /\ Depth[u] \in Nat /\ Len(held[u]) <= Depth[u]
  BY Sizes, LenProperties DEF HeldOK
<1>3. \A u \in Threads : \A k \in 1 .. Depth[u] : <<u, k>> \in Uses
  BY DEF Uses
<1>4. mine \in Uses
  BY <1>2, <1>3
<1>5. ASSUME NEW b \in Buffers
      PROVE  Use(b) \in Uses /\ Holds(Use(b)[1], Use(b)[2], b)
  <2>1. PICK u \in Threads, k \in Nat : Holds(u, k, b)  BY DEF IsHeld
  <2>2. <<u, k>> \in Uses  BY <1>2, <1>3, <2>1 DEF Holds
  <2>3. \E e \in Uses : Holds(e[1], e[2], b)  BY <2>1, <2>2
  <2>4. QED BY <2>3
<1> HIDE DEF Use
<1>6. ASSUME NEW b \in Buffers PROVE Use(b) # mine
  <2>1. Use(b)[2] \in 1 .. Len(held[Use(b)[1]])  BY <1>5 DEF Holds
  <2>2. ASSUME Use(b) = mine PROVE FALSE
    <3>1. Len(held[t]) + 1 \in 1 .. Len(held[t])  BY <2>1, <2>2
    <3>2. QED BY <1>2, <3>1
  <2>3. QED BY <2>2
<1> HIDE DEF mine
<1>7. ASSUME NEW b \in Buffers, NEW c \in Buffers, Use(b) = Use(c) PROVE b = c
  BY <1>5, <1>7 DEF Holds
<1>8. f \in [Buffers -> Buffers \ {place[mine]}]
  <2>1. \A b \in Buffers : place[Use(b)] \in Buffers /\ place[Use(b)] # place[mine]
    BY <1>1, <1>4, <1>5, <1>6
  <2>2. QED BY <2>1
<1>9. \A b, c \in Buffers : f[b] = f[c] => b = c
  BY <1>1, <1>5, <1>7
<1>10. IsFiniteSet(Buffers)  BY FS_Interval, Sizes
<1>11. place[mine] \in Buffers  BY <1>1, <1>4
<1>12. /\ IsFiniteSet(Buffers \ {place[mine]})
       /\ Cardinality(Buffers \ {place[mine]}) = Cardinality(Buffers) - 1
  BY <1>10, <1>11, FS_RemoveElement
<1>13. Cardinality(Buffers) \in Nat  BY <1>10, FS_CardinalityType
<1>14. Cardinality(Buffers \ {place[mine]}) < Cardinality(Buffers)
  BY <1>12, <1>13
<1> HIDE DEF f
<1>15. \E b, c \in Buffers : b # c /\ f[b] = f[c]
  BY <1>8, <1>10, <1>12, <1>14, FS_PigeonHole, Zenon
<1>16. QED BY <1>9, <1>15

LEMMA PoolInit == HeapInit => PoolInv
<1> SUFFICES ASSUME HeapInit PROVE PoolOK
  BY DEF PoolInv
<1>1. OpTypes
  BY Sizes DEF HeapInit, OpTypes, Pcs, Outside, Addresses, Buffers, Beyond
<1>2. \A t \in Threads : held[t] = <<>> /\ Len(held[t]) = 0  BY DEF HeapInit
<1>3. HeldOK
  <2>1. held \in [Threads -> Seq(Buffers)]  BY DEF HeapInit
  <2>2. \A t, k, b : ~Holds(t, k, b)  BY <1>2 DEF Holds
  <2>3. QED BY <1>2, <2>1, <2>2, Sizes DEF HeldOK, OneHolder
<1>4. OpsOK  BY DEF HeapInit, OpsOK, OpOK, Taking, Giving, Outside
<1>5. Chained
  <2> DEFINE s == [p \in 1 .. NbBuffers |-> p]
  <2>1. \A b : ~IsHeld(b)  BY <1>2 DEF IsHeld, Holds
  <2>2. Sequel(NbBuffers, s)  BY <2>1, Sizes DEF Sequel
  <2>3. Linked(NbBuffers, s)
    BY Sizes DEF Linked, HeapInit, At, Buffers, Beyond
  <2>4. QED BY <2>2, <2>3 DEF Chained
<1>6. QED BY <1>1, <1>3, <1>4, <1>5 DEF PoolOK

(* A step of a call that only loads or reads.                               *)
Entry == [pc : Pcs, oldHead : Addresses, newHead : Addresses]
LEMMA HeldKept == ASSUME HeldOK, UNCHANGED held PROVE HeldOK' /\ \A b : IsHeld(b)' <=> IsHeld(b)
<1>1. \A t, k, b : Holds(t, k, b)' <=> Holds(t, k, b)  BY DEF Holds
<1>2. OneHolder'  BY <1>1 DEF HeldOK, OneHolder
<1>3. held' \in [Threads -> Seq(Buffers)] /\ \A t \in Threads : Len(held'[t]) <= Depth[t]
  BY DEF HeldOK
<1>4. QED BY <1>1, <1>2, <1>3 DEF HeldOK, IsHeld
LEMMA OthersOK ==
    ASSUME OpsOK, NEW u \in Threads, op'[u] = op[u], held'[u] = held[u],
           Giving(u) => nextNode'[op[u].newHead] = nextNode[op[u].newHead]
    PROVE  OpOK(u)'
BY DEF OpsOK, OpOK, Giving, Taking
LEMMA EntryChange ==
    ASSUME NEW f \in [Threads -> Entry], NEW t \in Threads, NEW e \in Entry
    PROVE  /\ [f EXCEPT ![t] = e] \in [Threads -> Entry]
           /\ [f EXCEPT ![t] = e][t] = e
           /\ \A u \in Threads : u # t => [f EXCEPT ![t] = e][u] = f[u]
OBVIOUS

LEMMA OpOnly ==
    ASSUME PoolOK, NEW t \in Threads, NEW e \in Entry, op' = [op EXCEPT ![t] = e],
           UNCHANGED <<headNode, nextNode, held>>,
           e.pc \in {"new: read", "new: swap"} => Len(held[t]) < Depth[t],
           e.pc \in {"delete: write", "delete: swap"} =>
               held[t] # <<>> /\ e.newHead = held[t][Len(held[t])],
           e.pc = "delete: swap" => nextNode[e.newHead] = e.oldHead
    PROVE  PoolOK'
<1>1. OpTypes'
  <2>1. op \in [Threads -> Entry] /\ headNode \in Addresses /\ nextNode \in [Buffers -> Addresses]
    BY DEF PoolOK, OpTypes, Entry
  <2>2. op' \in [Threads -> Entry]  BY <2>1, EntryChange
  <2>3. QED BY <2>1, <2>2 DEF OpTypes, Entry
<1>2. HeldOK'  BY HeldKept DEF PoolOK
<1>3. Chained'
  <2>1. PICK n, s : Sequel(n, s) /\ Linked(n, s)  BY DEF PoolOK, Chained
  <2>2. \A b : IsHeld(b)' <=> IsHeld(b)  BY DEF IsHeld, Holds
  <2>3. Sequel(n, s)'  BY <2>1, <2>2 DEF Sequel
  <2>4. Linked(n, s)'  BY <2>1 DEF Linked, At
  <2>5. QED BY <2>3, <2>4 DEF Chained
<1>4. OpsOK'
  <2>1. op \in [Threads -> Entry]  BY DEF PoolOK, OpTypes, Entry
  <2>2. op'[t] = e /\ \A u \in Threads : u # t => op'[u] = op[u]  BY <2>1, Zenon
  <2>3. OpOK(t)'  BY <2>2 DEF OpOK, Taking, Giving
  <2>4. \A u \in Threads : u # t => OpOK(u)'  BY <2>2, OthersOK DEF PoolOK
  <2>5. QED BY <2>3, <2>4 DEF OpsOK
<1>5. QED BY <1>1, <1>2, <1>3, <1>4 DEF PoolOK

LEMMA NextTyped == ASSUME OpTypes, NEW a PROVE NextOf(a) \in Addresses
BY Sizes DEF OpTypes, NextOf

LEMMA Loads ==
    ASSUME PoolOK, NEW t \in Threads,
           NewLoad(t) \/ NewRead(t) \/ NewRetry(t) \/ DeleteLoad(t) \/ DeleteRetry(t)
    PROVE  PoolOK'
<1>0. op[t] \in Entry /\ headNode \in Addresses /\ NULL \in Addresses
  BY Sizes DEF PoolOK, OpTypes, Entry
<1>1. CASE NewLoad(t)
  <2> DEFINE e == [pc |-> "new: read", oldHead |-> headNode, newHead |-> NULL]
  <2>1. e \in Entry /\ e.pc = "new: read"  BY <1>0 DEF Entry, Pcs
  <2>2. /\ op' = [op EXCEPT ![t] = e] /\ UNCHANGED <<headNode, nextNode, held>>
        /\ Len(held[t]) < Depth[t]
    BY <1>1 DEF NewLoad, Step
  <2> HIDE DEF e
  <2>3. QED BY <2>1, <2>2, OpOnly
<1>2. CASE NewRead(t)
  <2> DEFINE e == [op[t] EXCEPT !.pc = "new: swap", !.newHead = NextOf(op[t].oldHead)]
  <2>1. e \in Entry /\ e.pc = "new: swap"
    BY <1>0, NextTyped DEF Entry, Pcs, PoolOK
  <2>2. /\ op' = [op EXCEPT ![t] = e] /\ UNCHANGED <<headNode, nextNode, held>>
        /\ Len(held[t]) < Depth[t]
    BY <1>2 DEF NewRead, Step, PoolOK, OpsOK, OpOK, Taking
  <2> HIDE DEF e
  <2>3. QED BY <2>1, <2>2, OpOnly
<1>3. CASE NewRetry(t)
  <2> DEFINE e == [pc |-> "new: read", oldHead |-> headNode, newHead |-> NULL]
  <2>1. e \in Entry /\ e.pc = "new: read"  BY <1>0 DEF Entry, Pcs
  <2>2. /\ op' = [op EXCEPT ![t] = e] /\ UNCHANGED <<headNode, nextNode, held>>
        /\ Len(held[t]) < Depth[t]
    BY <1>3 DEF NewRetry, Step, PoolOK, OpsOK, OpOK, Taking
  <2> HIDE DEF e
  <2>3. QED BY <2>1, <2>2, OpOnly
<1>4. CASE DeleteLoad(t)
  <2> DEFINE b == held[t][Len(held[t])]
             e == [pc |-> "delete: write", oldHead |-> headNode, newHead |-> b]
  <2>1. held[t] # <<>> /\ held[t] \in Seq(Buffers)  BY <1>4 DEF DeleteLoad, PoolOK, HeldOK
  <2>2. b \in Addresses
    <3>1. Len(held[t]) \in 1 .. Len(held[t])  BY <2>1, EmptySeq
    <3>2. b \in Buffers  BY <2>1, <3>1, ElementOfSeq
    <3>3. QED BY <3>2, Sizes
  <2>3. e \in Entry /\ e.pc = "delete: write" /\ e.newHead = b  BY <1>0, <2>2 DEF Entry, Pcs
  <2>4. op' = [op EXCEPT ![t] = e] /\ UNCHANGED <<headNode, nextNode, held>>
    BY <1>4 DEF DeleteLoad, Step
  <2> HIDE DEF e
  <2>5. QED BY <2>1, <2>3, <2>4, OpOnly
<1>5. CASE DeleteRetry(t)
  <2> DEFINE e == [op[t] EXCEPT !.pc = "delete: write", !.oldHead = headNode]
  <2>1. e \in Entry /\ e.pc = "delete: write" /\ e.newHead = op[t].newHead
    BY <1>0 DEF Entry, Pcs
  <2>2. /\ op' = [op EXCEPT ![t] = e] /\ UNCHANGED <<headNode, nextNode, held>>
        /\ held[t] # <<>> /\ op[t].newHead = held[t][Len(held[t])]
    BY <1>5 DEF DeleteRetry, Step, PoolOK, OpsOK, OpOK, Giving
  <2> HIDE DEF e
  <2>3. QED BY <2>1, <2>2, OpOnly
<1>6. QED BY <1>1, <1>2, <1>3, <1>4, <1>5

(* A buffer that is held is not on the chain, so writing into it leaves the *)
(* chain as it is.                                                          *)
LEMMA LastHeld ==
    ASSUME PoolOK, NEW t \in Threads, held[t] # <<>>
    PROVE  /\ Len(held[t]) \in Nat \ {0} /\ held[t][Len(held[t])] \in Buffers
           /\ Holds(t, Len(held[t]), held[t][Len(held[t])])
<1>1. held[t] \in Seq(Buffers)  BY DEF PoolOK, HeldOK
<1>2. Len(held[t]) \in Nat \ {0}  BY <1>1, EmptySeq
<1>3. Len(held[t]) \in 1 .. Len(held[t])  BY <1>2
<1>4. QED BY <1>1, <1>2, <1>3, ElementOfSeq DEF Holds

LEMMA Writes == ASSUME PoolOK, NEW t \in Threads, DeleteWrite(t) PROVE PoolOK'
<1> DEFINE b == op[t].newHead
           e == [op[t] EXCEPT !.pc = "delete: swap"]
<1>1. /\ op[t].pc = "delete: write" /\ op' = [op EXCEPT ![t] = e]
      /\ nextNode' = [c \in Buffers |-> IF c = b THEN op[t].oldHead ELSE nextNode[c]]
      /\ UNCHANGED <<headNode, held>>
  BY DEF DeleteWrite, Step
<1>2. op[t] \in Entry /\ op \in [Threads -> Entry] /\ headNode \in Addresses
      /\ nextNode \in [Buffers -> Addresses]
  BY DEF PoolOK, OpTypes, Entry
<1>3. e \in Entry /\ e.pc = "delete: swap" /\ e.newHead = b /\ e.oldHead = op[t].oldHead
  BY <1>2 DEF Entry, Pcs
<1>4. held[t] # <<>> /\ b = held[t][Len(held[t])]
  BY <1>1 DEF PoolOK, OpsOK, OpOK, Giving
<1>5. Len(held[t]) \in Nat /\ b \in Buffers /\ Holds(t, Len(held[t]), b)  BY <1>4, LastHeld
<1>6. /\ op'[t] = e /\ \A u \in Threads : u # t => op'[u] = op[u]
  BY <1>1, <1>2
<1>7. nextNode'[b] = op[t].oldHead /\ \A c \in Buffers : c # b => nextNode'[c] = nextNode[c]
  BY <1>1, <1>5
<1> HIDE DEF b, e
<1>8. OpTypes'
  <2>0. op' = [op EXCEPT ![t] = e]  BY <1>1, Zenon
  <2>1. op' \in [Threads -> Entry]  BY <1>2, <1>3, <2>0, Zenon
  <2>3. op[t].oldHead \in Addresses  BY <1>2 DEF Entry
  <2>2. nextNode' \in [Buffers -> Addresses]
    <3>1. \A c \in Buffers : nextNode[c] \in Addresses  BY <1>2, Zenon
    <3>2. nextNode' = [c \in Buffers |-> IF c = b THEN op[t].oldHead ELSE nextNode[c]]
      BY <1>1, Zenon
    <3>3. QED BY <2>3, <3>1, <3>2
  <2>4. QED BY <1>1, <1>2, <2>1, <2>2 DEF OpTypes, Entry
<1>9. HeldOK'  BY <1>1, HeldKept DEF PoolOK
<1>10. IsHeld(b)  BY <1>5 DEF IsHeld
<1>11. Chained'
  <2>1. PICK n, s : Sequel(n, s) /\ Linked(n, s)  BY DEF PoolOK, Chained
  <2>2. \A c : IsHeld(c)' <=> IsHeld(c)  BY <1>1 DEF IsHeld, Holds
  <2>3. Sequel(n, s)'  BY <2>1, <2>2 DEF Sequel
  <2>4. \A p \in 1 .. n : s[p] \in Buffers /\ s[p] # b
    BY <1>5, <1>10, <2>1 DEF Sequel
  <2>5. Linked(n, s)'  BY <1>1, <1>7, <2>1, <2>4 DEF Linked, At
  <2>6. QED BY <2>3, <2>5 DEF Chained
<1>12. OpsOK'
  <2>1. ASSUME NEW u \in Threads, u # t, Giving(u)
        PROVE  op[u].newHead \in Buffers /\ op[u].newHead # b
    <3>1. held[u] # <<>> /\ op[u].newHead = held[u][Len(held[u])]
      BY <2>1 DEF PoolOK, OpsOK, OpOK
    <3>2. Len(held[u]) \in Nat /\ op[u].newHead \in Buffers /\ Holds(u, Len(held[u]), op[u].newHead)
      BY <3>1, LastHeld
    <3>3. OneHolder  BY DEF PoolOK, HeldOK
    <3>4. QED BY <1>5, <2>1, <3>2, <3>3 DEF OneHolder
  <2>2. \A u \in Threads : u # t => OpOK(u)'
    BY <1>1, <1>6, <1>7, <2>1, OthersOK DEF PoolOK
  <2>3. OpOK(t)'  BY <1>1, <1>3, <1>4, <1>6, <1>7 DEF OpOK, Taking, Giving
  <2>4. QED BY <2>2, <2>3 DEF OpsOK
<1>13. QED BY <1>8, <1>9, <1>11, <1>12 DEF PoolOK

(* A pop takes the head of the chain.                                       *)
LEMMA Pops == ASSUME PoolOK, NEW t \in Threads, NewSwap(t), ~reused' PROVE PoolOK'
<1> DEFINE b == op[t].oldHead
           top == Len(held[t])
<1>1. /\ op[t].pc = "new: swap" /\ op' = [op EXCEPT ![t] = Outside]
      /\ headNode = b /\ headNode' = op[t].newHead
      /\ nextNode' = [c \in Buffers |-> IF c = b THEN Header ELSE nextNode[c]]
      /\ held' = [held EXCEPT ![t] = Append(@, b)]
      /\ op[t].newHead = NextOf(headNode)
  BY DEF NewSwap, Step, Swaps
<1>2. op[t] \in Entry /\ op \in [Threads -> Entry] /\ headNode \in Addresses
      /\ nextNode \in [Buffers -> Addresses]
  BY DEF PoolOK, OpTypes, Entry
<1>3. Outside \in Entry /\ Outside.pc = "outside"  BY Sizes DEF Outside, Entry, Pcs
<1>4. HeldOK /\ held \in [Threads -> Seq(Buffers)] /\ top \in Nat /\ top < Depth[t]
  BY <1>1, LenProperties DEF PoolOK, HeldOK, OpsOK, OpOK, Taking
<1>5. PICK n, s : Sequel(n, s) /\ Linked(n, s)  BY DEF PoolOK, Chained
<1>6. n \in Nat \ {0} /\ s \in [1 .. n -> Buffers]
  <2>1. \E c \in Buffers : ~IsHeld(c)  BY <1>4, SomeFree
  <2>2. QED BY <1>5, <2>1 DEF Sequel
<1>7. b = s[1] /\ b \in Buffers /\ 1 \in 1 .. n
  <2>1. 1 \in 1 .. n  BY <1>6
  <2>2. headNode = s[1]  BY <1>5, <2>1 DEF Linked, At
  <2>3. QED BY <1>1, <1>6, <2>1, <2>2
<1>8. headNode' = nextNode[b]  BY <1>1, <1>7 DEF NextOf
<1>9. held'[t] = Append(held[t], b) /\ \A u \in Threads : u # t => held'[u] = held[u]
  BY <1>1, <1>4
<1> HIDE DEF b, top
<1>10. /\ Len(held'[t]) = top + 1 /\ held'[t][top + 1] = b
       /\ \A k \in 1 .. top : held'[t][k] = held[t][k]
       /\ held'[t] \in Seq(Buffers)
  BY <1>4, <1>7, <1>9, AppendProperties DEF top
<1>11. \A u, k, c : Holds(u, k, c)' <=> Holds(u, k, c) \/ (u = t /\ k = top + 1 /\ c = b)
  <2>1. ASSUME NEW u, NEW k, NEW c, u # t
        PROVE  Holds(u, k, c)' <=> Holds(u, k, c)
    BY <1>9, <2>1 DEF Holds
  <2>2. ASSUME NEW k, NEW c
        PROVE  Holds(t, k, c)' <=> Holds(t, k, c) \/ (k = top + 1 /\ c = b)
    <3>1. k \in 1 .. top + 1 <=> k \in 1 .. top \/ k = top + 1  BY <1>4
    <3>2. top + 1 \notin 1 .. top  BY <1>4
    <3>3. QED BY <1>10, <3>1, <3>2 DEF Holds, top
  <2>3. QED BY <2>1, <2>2
<1>12. \A c : IsHeld(c)' <=> IsHeld(c) \/ c = b
  <2>1. top + 1 \in Nat  BY <1>4
  <2>2. QED BY <1>11, <2>1 DEF IsHeld
<1>13. ~IsHeld(b)  BY <1>5, <1>7 DEF Sequel
<1>14. OpTypes'
  <2>1. op' \in [Threads -> Entry]
    <3>1. op' = [op EXCEPT ![t] = Outside]  BY <1>1, Zenon
    <3>2. QED BY <1>2, <1>3, <3>1, Zenon
  <2>2. nextNode' \in [Buffers -> Addresses]  BY <1>1, <1>2, Sizes
  <2>3. headNode' \in Addresses  BY <1>2, <1>7, <1>8
  <2>4. QED BY <2>1, <2>2, <2>3 DEF OpTypes, Entry
<1>15. HeldOK'
  <2>1. held' \in [Threads -> Seq(Buffers)]
    <3>1. \A u \in Threads : held'[u] \in Seq(Buffers)  BY <1>4, <1>9, <1>10
    <3>2. held' = [u \in Threads |-> held'[u]]  BY <1>1, <1>4, Zenon
    <3>3. QED BY <3>1, <3>2, Zenon
  <2>2. \A u \in Threads : Len(held'[u]) <= Depth[u]
    <3>1. Len(held'[t]) <= Depth[t]  BY <1>4, <1>10, Sizes
    <3>2. QED BY <1>4, <1>9, <3>1 DEF HeldOK
  <2>3. OneHolder'
    <3>1. \A u \in Threads, k \in Nat : ~Holds(u, k, b)  BY <1>13 DEF IsHeld
    <3>2. QED BY <1>4, <1>11, <3>1 DEF HeldOK, OneHolder
  <2>4. QED BY <2>1, <2>2, <2>3 DEF HeldOK
<1>16. OpsOK'
  <2>1. op'[t] = Outside /\ \A u \in Threads : u # t => op'[u] = op[u]
    BY <1>1, <1>2
  <2>2. ASSUME NEW u \in Threads, u # t, Giving(u)
        PROVE  nextNode'[op[u].newHead] = nextNode[op[u].newHead]
    <3>1. held[u] # <<>> /\ op[u].newHead = held[u][Len(held[u])]
      BY <2>2 DEF PoolOK, OpsOK, OpOK
    <3>2. Len(held[u]) \in Nat /\ op[u].newHead \in Buffers /\ Holds(u, Len(held[u]), op[u].newHead)
      BY <3>1, LastHeld
    <3>3. op[u].newHead # b  BY <1>13, <3>2 DEF IsHeld
    <3>4. QED BY <1>1, <3>2, <3>3
  <2>3. \A u \in Threads : u # t => OpOK(u)'
    BY <1>9, <2>1, <2>2, OthersOK DEF PoolOK
  <2>4. OpOK(t)'  BY <1>3, <2>1 DEF OpOK, Taking, Giving
  <2>5. QED BY <2>3, <2>4 DEF OpsOK
<1>17. Chained'
  <2> DEFINE r == [p \in 1 .. n - 1 |-> s[p + 1]]
  <2>1. /\ n - 1 \in Nat /\ \A p \in 1 .. n - 1 : p + 1 \in 1 .. n /\ p + 1 # 1 /\ r[p] = s[p + 1]
    BY <1>6
  <2>2. \A p, j \in 1 .. n : s[p] = s[j] => p = j  BY <1>5 DEF Sequel
  <2>3. r \in [1 .. n - 1 -> Buffers]  BY <1>6, <2>1
  <2>4. \A p, j \in 1 .. n - 1 : r[p] = r[j] => p = j
    <3>1. ASSUME NEW p \in 1 .. n - 1, NEW j \in 1 .. n - 1, r[p] = r[j] PROVE p = j
      <4>1. p + 1 = j + 1  BY <2>1, <2>2, <3>1
      <4>2. QED BY <4>1
    <3>2. QED BY <3>1
  <2>5. ASSUME NEW c \in Buffers
        PROVE  (\E p \in 1 .. n - 1 : r[p] = c) <=> ~IsHeld(c) /\ c # b
    <3>1. ASSUME NEW p \in 1 .. n - 1, r[p] = c PROVE ~IsHeld(c) /\ c # b
      BY <1>5, <1>7, <2>1, <2>2, <3>1 DEF Sequel
    <3>2. ASSUME ~IsHeld(c), c # b PROVE \E p \in 1 .. n - 1 : r[p] = c
      <4>1. PICK j \in 1 .. n : s[j] = c  BY <1>5, <3>2 DEF Sequel
      <4>2. j # 1  BY <1>7, <3>2, <4>1
      <4>3. j - 1 \in 1 .. n - 1 /\ (j - 1) + 1 = j  BY <1>6, <4>2
      <4>4. r[j - 1] = c  BY <4>1, <4>3
      <4>5. QED BY <4>3, <4>4
    <3>3. QED BY <3>1, <3>2
  <2>6. Sequel(n - 1, r)'
    BY <1>12, <2>1, <2>3, <2>4, <2>5 DEF Sequel
  <2>7. headNode' = At(n - 1, r, 1)
    <3>1. headNode' = At(n, s, 2)  BY <1>5, <1>7, <1>8 DEF Linked
    <3>2. QED BY <1>6, <2>1, <3>1 DEF At
  <2>8. ASSUME NEW p \in 1 .. n - 1 PROVE nextNode'[r[p]] = At(n - 1, r, p + 1)
    <3>1. r[p] = s[p + 1] /\ s[p + 1] \in Buffers /\ s[p + 1] # b
      BY <1>6, <1>7, <2>1, <2>2
    <3>2. nextNode'[r[p]] = nextNode[s[p + 1]]  BY <1>1, <3>1
    <3>3. nextNode[s[p + 1]] = At(n, s, (p + 1) + 1)  BY <1>5, <2>1 DEF Linked
    <3>4. At(n, s, (p + 1) + 1) = At(n - 1, r, p + 1)  BY <1>6, <2>1 DEF At
    <3>5. QED BY <3>2, <3>3, <3>4
  <2> HIDE DEF r
  <2>9. Linked(n - 1, r)'  BY <2>7, <2>8 DEF Linked, At
  <2>10. QED BY <2>6, <2>9 DEF Chained
<1>18. QED BY <1>14, <1>15, <1>16, <1>17 DEF PoolOK

(* A push puts the top buffer of the thread in front of the chain.         *)
LEMMA Pushes == ASSUME PoolOK, NEW t \in Threads, DeleteSwap(t) PROVE PoolOK'
<1> DEFINE b == op[t].newHead
           top == Len(held[t])
<1>1. /\ op[t].pc = "delete: swap" /\ op' = [op EXCEPT ![t] = Outside]
      /\ headNode = op[t].oldHead /\ headNode' = b
      /\ held' = [held EXCEPT ![t] = SubSeq(@, 1, Len(@) - 1)]
      /\ UNCHANGED nextNode
  BY DEF DeleteSwap, Step, Swaps, DeleteSwaps
<1>2. op[t] \in Entry /\ op \in [Threads -> Entry] /\ headNode \in Addresses
      /\ nextNode \in [Buffers -> Addresses]
  BY DEF PoolOK, OpTypes, Entry
<1>3. Outside \in Entry /\ Outside.pc = "outside"  BY Sizes DEF Outside, Entry, Pcs
<1>4. /\ held[t] # <<>> /\ b = held[t][top] /\ nextNode[b] = headNode
  BY <1>1 DEF PoolOK, OpsOK, OpOK, Giving
<1>5. top \in Nat \ {0} /\ b \in Buffers /\ Holds(t, top, b)  BY <1>4, LastHeld
<1>6. HeldOK /\ OneHolder /\ held \in [Threads -> Seq(Buffers)]  BY DEF PoolOK, HeldOK
<1>7. PICK n, s : Sequel(n, s) /\ Linked(n, s)  BY DEF PoolOK, Chained
<1>8. held'[t] = SubSeq(held[t], 1, top - 1) /\ \A u \in Threads : u # t => held'[u] = held[u]
  BY <1>1, <1>6
<1> HIDE DEF b, top
<1>9. /\ Len(held'[t]) = top - 1 /\ held'[t] \in Seq(Buffers)
      /\ \A k \in 1 .. top - 1 : held'[t][k] = held[t][k]
  <2>1. held[t] \in Seq(Buffers) /\ top = Len(held[t])  BY <1>6 DEF top
  <2>2. /\ 1 \in 1 .. top + 1 /\ top - 1 \in 1 - 1 .. top
    BY <1>5
  <2>3. /\ SubSeq(held[t], 1, top - 1) \in Seq(Buffers)
        /\ Len(SubSeq(held[t], 1, top - 1)) = top - 1
        /\ \A k \in 1 .. top - 1 : SubSeq(held[t], 1, top - 1)[k] = held[t][k]
    BY <1>5, <2>1
  <2>4. QED BY <1>8, <2>3
<1>10. \A u, k, c : Holds(u, k, c)' <=> Holds(u, k, c) /\ ~(u = t /\ k = top)
  <2>1. ASSUME NEW u, NEW k, NEW c, u # t
        PROVE  Holds(u, k, c)' <=> Holds(u, k, c)
    BY <1>8, <2>1 DEF Holds
  <2>2. ASSUME NEW k, NEW c
        PROVE  Holds(t, k, c)' <=> Holds(t, k, c) /\ k # top
    <3>1. k \in 1 .. top - 1 <=> k \in 1 .. top /\ k # top  BY <1>5
    <3>2. QED BY <1>9, <3>1 DEF Holds, top
  <2>3. QED BY <2>1, <2>2
<1>11. \A c \in Buffers : IsHeld(c)' <=> IsHeld(c) /\ c # b
  <2>1. ASSUME NEW c \in Buffers, IsHeld(c)' PROVE IsHeld(c) /\ c # b
    <3>1. PICK u \in Threads, k \in Nat : Holds(u, k, c)'  BY <2>1 DEF IsHeld
    <3>2. Holds(u, k, c) /\ ~(u = t /\ k = top)  BY <1>10, <3>1
    <3>3. c # b  BY <1>5, <1>6, <3>2 DEF OneHolder
    <3>4. QED BY <3>2, <3>3 DEF IsHeld
  <2>2. ASSUME NEW c \in Buffers, IsHeld(c), c # b PROVE IsHeld(c)'
    <3>1. PICK u \in Threads, k \in Nat : Holds(u, k, c)  BY <2>2 DEF IsHeld
    <3>2. ~(u = t /\ k = top)  BY <1>4, <2>2, <3>1 DEF Holds
    <3>3. Holds(u, k, c)'  BY <1>10, <3>1, <3>2
    <3>4. QED BY <3>3 DEF IsHeld
  <2>3. QED BY <2>1, <2>2
<1>12. IsHeld(b)  BY <1>5 DEF IsHeld
<1>13. OpTypes'
  <2>1. op' \in [Threads -> Entry]
    <3>1. op' = [op EXCEPT ![t] = Outside]  BY <1>1, Zenon
    <3>2. QED BY <1>2, <1>3, <3>1, Zenon
  <2>2. headNode' \in Addresses  BY <1>1, <1>5, Sizes
  <2>3. QED BY <1>1, <1>2, <2>1, <2>2 DEF OpTypes, Entry
<1>14. HeldOK'
  <2>1. held' \in [Threads -> Seq(Buffers)]
    <3>1. \A u \in Threads : held'[u] \in Seq(Buffers)  BY <1>6, <1>8, <1>9
    <3>2. held' = [u \in Threads |-> held'[u]]  BY <1>1, <1>6, Zenon
    <3>3. QED BY <3>1, <3>2, Zenon
  <2>2. \A u \in Threads : Len(held'[u]) <= Depth[u]
    <3>1. top <= Depth[t] /\ Depth[t] \in Nat  BY <1>6, Sizes DEF HeldOK, top
    <3>2. Len(held'[t]) <= Depth[t]  BY <1>5, <1>9, <3>1
    <3>3. QED BY <1>6, <1>8, <3>2 DEF HeldOK
  <2>3. OneHolder'  BY <1>6, <1>10 DEF OneHolder
  <2>4. QED BY <2>1, <2>2, <2>3 DEF HeldOK
<1>15. OpsOK'
  <2>1. op'[t] = Outside /\ \A u \in Threads : u # t => op'[u] = op[u]
    BY <1>1, <1>2
  <2>2. \A u \in Threads : u # t => OpOK(u)'
    BY <1>1, <1>8, <2>1, OthersOK DEF PoolOK
  <2>3. OpOK(t)'  BY <1>3, <2>1 DEF OpOK, Taking, Giving
  <2>4. QED BY <2>2, <2>3 DEF OpsOK
<1>16. Chained'
  <2> PICK r : r = [p \in 1 .. n + 1 |-> IF p = 1 THEN b ELSE s[p - 1]]
    OBVIOUS
  <2>0. n \in Nat /\ s \in [1 .. n -> Buffers] /\ \A p \in 1 .. n : s[p] # b
    BY <1>5, <1>7, <1>12 DEF Sequel
  <2>1. /\ n + 1 \in Nat /\ r[1] = b /\ 1 \in 1 .. n + 1
        /\ \A p \in 1 .. n + 1 : p # 1 => p - 1 \in 1 .. n /\ r[p] = s[p - 1]
    BY <2>0
  <2>2. \A p, j \in 1 .. n : s[p] = s[j] => p = j  BY <1>7 DEF Sequel
  <2>3. r \in [1 .. n + 1 -> Buffers]
    <3>1. \A p \in 1 .. n + 1 : (IF p = 1 THEN b ELSE s[p - 1]) \in Buffers
      BY <1>5, <2>0, <2>1
    <3>2. QED BY <3>1
  <2>4. ASSUME NEW p \in 1 .. n + 1, NEW j \in 1 .. n + 1, r[p] = r[j] PROVE p = j
    <3>1. CASE p = 1 \/ j = 1  BY <2>0, <2>1, <2>4, <3>1
    <3>2. CASE p # 1 /\ j # 1
      <4>1. p - 1 = j - 1  BY <2>1, <2>2, <2>4, <3>2
      <4>2. QED BY <4>1
    <3>3. QED BY <3>1, <3>2
  <2>5. ASSUME NEW c \in Buffers
        PROVE  (\E p \in 1 .. n + 1 : r[p] = c) <=> ~IsHeld(c)'
    <3>1. ASSUME NEW p \in 1 .. n + 1, r[p] = c PROVE ~IsHeld(c)'
      <4>1. CASE p = 1  BY <1>11, <2>1, <3>1, <4>1
      <4>2. CASE p # 1
        <5>1. p - 1 \in 1 .. n /\ s[p - 1] = c  BY <2>1, <3>1, <4>2
        <5>2. ~IsHeld(c)  BY <1>7, <5>1 DEF Sequel
        <5>3. QED BY <1>11, <5>2
      <4>3. QED BY <4>1, <4>2
    <3>2. ASSUME ~IsHeld(c)' PROVE \E p \in 1 .. n + 1 : r[p] = c
      <4>1. CASE c = b  BY <2>1, <4>1
      <4>2. CASE c # b
        <5>1. ~IsHeld(c)  BY <1>11, <3>2, <4>2
        <5>2. PICK j \in 1 .. n : s[j] = c  BY <1>7, <5>1 DEF Sequel
        <5>3. j + 1 \in 1 .. n + 1 /\ j + 1 # 1 /\ (j + 1) - 1 = j  BY <2>0
        <5>4. r[j + 1] = c  BY <2>1, <5>2, <5>3
        <5>5. QED BY <5>3, <5>4
      <4>3. QED BY <4>1, <4>2
    <3>3. QED BY <3>1, <3>2
  <2>6. Sequel(n + 1, r)'
    BY <2>1, <2>3, <2>4, <2>5 DEF Sequel
  <2>7. headNode' = At(n + 1, r, 1)  BY <1>1, <2>1 DEF At
  <2>8. ASSUME NEW p \in 1 .. n + 1 PROVE nextNode'[r[p]] = At(n + 1, r, p + 1)
    <3>1. CASE p = 1
      <4>1. nextNode'[r[p]] = At(n, s, 1)  BY <1>1, <1>4, <1>7, <2>1, <3>1 DEF Linked
      <4>2. At(n, s, 1) = At(n + 1, r, 1 + 1)
        <5>1. 1 + 1 \in 1 .. n + 1 <=> 1 \in 1 .. n  BY <2>0
        <5>2. 1 \in 1 .. n => r[1 + 1] = s[1]
          <6>1. 1 + 1 # 1 /\ (1 + 1) - 1 = 1  OBVIOUS
          <6>2. QED BY <2>1, <5>1, <6>1
        <5>3. QED BY <5>1, <5>2 DEF At
      <4>3. QED BY <3>1, <4>1, <4>2
    <3>2. CASE p # 1
      <4>1. r[p] = s[p - 1] /\ p - 1 \in 1 .. n /\ (p - 1) + 1 = p  BY <2>1, <3>2
      <4>2. nextNode'[r[p]] = At(n, s, p)  BY <1>1, <1>7, <4>1 DEF Linked
      <4>3. At(n, s, p) = At(n + 1, r, p + 1)
        <5>1. p + 1 \in 1 .. n + 1 <=> p \in 1 .. n  BY <2>0, <3>2
        <5>2. p + 1 # 1 /\ (p + 1) - 1 = p  BY <3>2
        <5>3. QED BY <2>1, <5>1, <5>2 DEF At
      <4>4. QED BY <4>2, <4>3
    <3>3. QED BY <3>1, <3>2
  <2>9. Linked(n + 1, r)'  BY <2>7, <2>8 DEF Linked, At
  <2>10. QED BY <2>6, <2>9 DEF Chained
<1>17. QED BY <1>13, <1>14, <1>15, <1>16 DEF PoolOK

LEMMA PoolNext == PoolInv /\ [HeapNext]_hpvars => PoolInv'
<1> SUFFICES ASSUME PoolInv, [HeapNext]_hpvars, ~reused' PROVE PoolOK'
  BY DEF PoolInv
<1>1. CASE HeapNext
  <2>1. PICK t \in Threads :
            \/ NewLoad(t) \/ NewRead(t) \/ NewSwap(t) \/ NewRetry(t)
            \/ DeleteLoad(t) \/ DeleteWrite(t) \/ DeleteSwap(t) \/ DeleteRetry(t)
    BY <1>1 DEF HeapNext
  <2>2. ~reused
    BY <2>1 DEF NewLoad, NewRead, NewSwap, NewRetry, DeleteLoad, DeleteWrite, DeleteSwap,
                DeleteRetry
  <2>3. PoolOK  BY <2>2 DEF PoolInv
  <2>4. QED BY <2>1, <2>3, Loads, Writes, Pops, Pushes
<1>2. CASE UNCHANGED hpvars
  <2>1. PoolOK  BY <1>2 DEF PoolInv, hpvars
  <2>2. UNCHANGED <<headNode, nextNode, op, held>>  BY <1>2 DEF hpvars
  <2>3. Chained'
    <3>1. PICK n, s : Sequel(n, s) /\ Linked(n, s)  BY <2>1 DEF PoolOK, Chained
    <3>2. Sequel(n, s)' /\ Linked(n, s)'
      BY <2>2, <3>1 DEF Sequel, Linked, At, IsHeld, Holds
    <3>3. QED BY <3>2 DEF Chained
  <2>4. OpTypes' /\ HeldOK' /\ OpsOK'
    <3>1. OpTypes'  BY <2>1, <2>2 DEF PoolOK, OpTypes
    <3>2. HeldOK'  BY <2>1, <2>2, HeldKept DEF PoolOK
    <3>3. OpsOK'  BY <2>1, <2>2, OthersOK DEF PoolOK, OpsOK
    <3>4. QED BY <3>1, <3>2, <3>3
  <2>5. QED BY <2>3, <2>4 DEF PoolOK
<1>3. QED BY <1>1, <1>2

(* What is reached from the head is the chain.                              *)
LEMMA ChainIsStacked ==
    ASSUME OpTypes, NEW n, NEW s, Sequel(n, s), Linked(n, s)
    PROVE  Stacked = {s[p] : p \in 1 .. n}
<1>1. n \in Nat /\ s \in [1 .. n -> Buffers]  BY DEF Sequel
<1>2. ASSUME NEW S \in SUBSET Addresses, Closed(S), NEW p \in 1 .. n PROVE s[p] \in S
  <2> SUFFICES ASSUME s[p] \notin S PROVE FALSE
    OBVIOUS
  <2>1. PICK k \in 1 .. n : s[k] \notin S /\ \A j \in 1 .. n : s[j] \notin S => k <= j
    <3> DEFINE T == {j \in 1 .. n : s[j] \notin S}
    <3>1. T \in SUBSET Nat /\ T # {}  OBVIOUS
    <3> HIDE DEF T
    <3>2. \E k \in T : \A j \in T : k <= j  BY <3>1, LeastNat
    <3>3. QED BY <3>2 DEF T
  <2>3. k \in 1 .. n /\ s[k] \notin S  BY <2>1
  <2>4. CASE k = 1
    <3>1. headNode = s[k]  BY <2>3, <2>4 DEF Linked, At
    <3>2. QED BY <1>2, <2>3, <3>1 DEF Closed
  <2>5. CASE k # 1
    <3>1. k - 1 \in 1 .. n /\ (k - 1) + 1 = k /\ ~(k <= k - 1)  BY <1>1, <2>3, <2>5
    <3>2. s[k - 1] \in S /\ s[k - 1] \in Buffers  BY <1>1, <2>1, <3>1
    <3>3. nextNode[s[k - 1]] = s[k]  BY <2>3, <3>1 DEF Linked, At
    <3>4. QED BY <1>2, <2>3, <3>2, <3>3 DEF Closed
  <2>6. QED BY <2>4, <2>5
<1>3. ASSUME NEW b \in Stacked PROVE \E p \in 1 .. n : b = s[p]
  <2> DEFINE S == {s[p] : p \in 1 .. n} \cup {Beyond}
  <2>1. S \in SUBSET Addresses  BY <1>1, Sizes
  <2>2. Closed(S)
    <3>1. headNode \in S  BY DEF Linked, At
    <3>2. ASSUME NEW c \in S \cap Buffers PROVE nextNode[c] \in S
      <4>1. PICK p \in 1 .. n : c = s[p]  BY Sizes
      <4>2. nextNode[c] = At(n, s, p + 1)  BY <4>1 DEF Linked
      <4>3. QED BY <4>2 DEF At
    <3>3. QED BY <3>1, <3>2 DEF Closed
  <2>3. b \in S /\ b \in Buffers  BY <2>1, <2>2 DEF Stacked
  <2>4. QED BY <2>3, Sizes
<1>4. ASSUME NEW p \in 1 .. n PROVE s[p] \in Stacked
  BY <1>1, <1>2 DEF Stacked
<1>5. QED BY <1>3, <1>4

LEMMA PoolIsRight == PoolInv => HeapInv
<1> SUFFICES ASSUME PoolOK
             PROVE  /\ NeverShared
                    /\ \A t \in Threads : InUse(t) \subseteq Buffers
                    /\ Stacked \cap UNION {InUse(t) : t \in Threads} = {}
                    /\ Stacked \cup UNION {InUse(t) : t \in Threads} = Buffers
  BY DEF PoolInv, HeapInv
<1>1. OneHolder /\ held \in [Threads -> Seq(Buffers)]  BY DEF PoolOK, HeldOK
<1>2. \A t \in Threads : DOMAIN held[t] = 1 .. Len(held[t]) /\ Len(held[t]) \in Nat
  BY <1>1, LenProperties
<1>3. ASSUME NEW t \in Threads, NEW k \in DOMAIN held[t]
      PROVE  k \in Nat /\ held[t][k] \in Buffers /\ Holds(t, k, held[t][k])
  <2>1. k \in 1 .. Len(held[t]) /\ held[t] \in Seq(Buffers)  BY <1>1, <1>2, <1>3
  <2>2. QED BY <2>1, ElementOfSeq DEF Holds
<1>4. \A t \in Threads : InUse(t) \subseteq Buffers  BY <1>3 DEF InUse
<1>5. NeverShared
  <2>1. ASSUME NEW t \in Threads, NEW u \in Threads, t # u PROVE InUse(t) \cap InUse(u) = {}
    BY <1>1, <1>3, <2>1 DEF InUse, OneHolder
  <2>2. ASSUME NEW t \in Threads, NEW j \in DOMAIN held[t], NEW k \in DOMAIN held[t],
               held[t][j] = held[t][k]
        PROVE  j = k
    BY <1>1, <1>3, <2>2 DEF OneHolder
  <2>3. QED BY <2>1, <2>2 DEF NeverShared
<1>6. ASSUME NEW b PROVE b \in UNION {InUse(t) : t \in Threads} <=> IsHeld(b)
  <2>1. ASSUME NEW t \in Threads, b \in InUse(t) PROVE IsHeld(b)
    BY <1>3, <2>1 DEF InUse, IsHeld
  <2>2. ASSUME IsHeld(b) PROVE \E t \in Threads : b \in InUse(t)
    BY <1>2, <2>2 DEF InUse, IsHeld, Holds
  <2>3. QED BY <2>1, <2>2
<1>7. \A b : b \in Stacked <=> b \in Buffers /\ ~IsHeld(b)
  <2>1. PICK n, s : Sequel(n, s) /\ Linked(n, s)  BY DEF PoolOK, Chained
  <2>2. Stacked = {s[p] : p \in 1 .. n}  BY <2>1, ChainIsStacked DEF PoolOK
  <2>3. QED BY <2>1, <2>2 DEF Sequel
<1>8. \A b : b \in UNION {InUse(t) : t \in Threads} => b \in Buffers  BY <1>4
<1>9. QED BY <1>4, <1>5, <1>6, <1>7, <1>8

(* The pool of headers (exheader_info_heap.c): as long as no exchange was   *)
(* deceived, no two calls have the same buffer and none is lost.            *)
THEOREM HeadersAreApart == HeapSpec => []HeapInv
<1>1. HeapSpec => []PoolInv  BY PoolInit, PoolNext, PTL DEF HeapSpec
<1>2. QED BY <1>1, PoolIsRight, PTL

-----------------------------------------------------------------------------
(***************************************************************************)
(* sm's linked lists: at any time each list has its nodes in one order,    *)
(* which next follows from first and prev follows from last; moveNode      *)
(* takes a node out of one order and puts it at an end of another, for any *)
(* number of nodes and lists.                                              *)
(***************************************************************************)

Ptrs == Nodes \cup {Null}
Place(n, w, k) == IF k \in 1 .. n THEN w[k] ELSE Null
Distinct(n, w) == \A j, k \in 1 .. n : w[j] = w[k] => j = k
Ordered(n, w) == n \in Nat /\ w \in [1 .. n -> Nodes] /\ Distinct(n, w)

Members(n, w) == {w[k] : k \in 1 .. n}

(* The pointers nx, pv, f and la hold the n nodes w together.               *)
Row(nx, pv, f, la, n, w) ==
    /\ Ordered(n, w)
    /\ f = Place(n, w, 1) /\ la = Place(n, w, n)
    /\ \A k \in 1 .. n : nx[w[k]] = Place(n, w, k + 1) /\ pv[w[k]] = Place(n, w, k - 1)

(* The order without its p-th node, and with one more at an end.            *)
Cut(n, w, p) == [k \in 1 .. n - 1 |-> IF k < p THEN w[k] ELSE w[k + 1]]
AtBack(n, w, x) == [k \in 1 .. n + 1 |-> IF k <= n THEN w[k] ELSE x]
AtFront(n, w, x) == [k \in 1 .. n + 1 |-> IF k = 1 THEN x ELSE w[k - 1]]

LEMMA NodesNotNull == NbNodes \in Nat \ {0} /\ Pool \in Lists /\ Null \notin Nodes
BY ListAssumption DEF Nodes

LEMMA CutOrdered ==
    ASSUME NEW n, NEW w, Ordered(n, w), NEW p \in 1 .. n
    PROVE  /\ Ordered(n - 1, Cut(n, w, p))
           /\ Members(n - 1, Cut(n, w, p)) = Members(n, w) \ {w[p]}
<1> DEFINE c == Cut(n, w, p)
           from(k) == IF k < p THEN k ELSE k + 1
<1>1. n \in Nat /\ n - 1 \in Nat /\ w \in [1 .. n -> Nodes] /\ Distinct(n, w)  BY DEF Ordered
<1>2. \A k \in 1 .. n - 1 : from(k) \in 1 .. n /\ from(k) # p  BY <1>1
<1>3. \A j, k \in 1 .. n - 1 : from(j) = from(k) => j = k  BY <1>1
<1>4. ASSUME NEW k \in 1 .. n, k # p PROVE \E j \in 1 .. n - 1 : from(j) = k
  <2>1. CASE k < p
    <3>1. k \in 1 .. n - 1 /\ from(k) = k  BY <1>1, <2>1
    <3>2. QED BY <3>1
  <2>2. CASE k > p
    <3>1. k - 1 \in 1 .. n - 1 /\ from(k - 1) = k  BY <1>1, <2>2
    <3>2. QED BY <3>1
  <2>3. QED BY <2>1, <2>2, <1>1, <1>4
<1>5. \A k \in 1 .. n - 1 : c[k] = w[from(k)]  BY <1>1 DEF Cut
<1>6. c \in [1 .. n - 1 -> Nodes]
  <2>1. \A k \in 1 .. n - 1 : (IF k < p THEN w[k] ELSE w[k + 1]) \in Nodes  BY <1>1, <1>2
  <2>2. QED BY <2>1 DEF Cut
<1> HIDE DEF c, from
<1>7. Distinct(n - 1, c)  BY <1>1, <1>2, <1>3, <1>5 DEF Distinct
<1>8. ASSUME NEW m PROVE (\E k \in 1 .. n - 1 : c[k] = m) <=> (\E k \in 1 .. n : w[k] = m) /\ m # w[p]
  <2>1. ASSUME NEW k \in 1 .. n - 1, c[k] = m PROVE (\E j \in 1 .. n : w[j] = m) /\ m # w[p]
    BY <1>1, <1>2, <1>5, <2>1 DEF Distinct
  <2>2. ASSUME NEW k \in 1 .. n, w[k] = m, m # w[p] PROVE \E j \in 1 .. n - 1 : c[j] = m
    BY <1>4, <1>5, <2>2
  <2>3. QED BY <2>1, <2>2
<1>9. Members(n - 1, c) = Members(n, w) \ {w[p]}  BY <1>8 DEF Members
<1>10. QED BY <1>1, <1>6, <1>7, <1>9 DEF c, Ordered

(* The others' pointers nx2 and pv2 pass the p-th node by.                  *)
Bridged(nx, pv, n, w, p, nx2, pv2) ==
    \A k \in 1 .. n : k # p =>
       /\ nx2[w[k]] = IF w[k] = pv[w[p]] THEN nx[w[p]] ELSE nx[w[k]]
       /\ pv2[w[k]] = IF w[k] = nx[w[p]] THEN pv[w[p]] ELSE pv[w[k]]

(* Cutting a node out leaves the others in their order.                     *)
LEMMA CutRow ==
    ASSUME NEW nx, NEW pv, NEW f, NEW la, NEW n, NEW w, Row(nx, pv, f, la, n, w), NEW p \in 1 .. n,
           NEW nx2, NEW pv2, NEW f2, NEW la2, Bridged(nx, pv, n, w, p, nx2, pv2),
           f2 = IF f = w[p] THEN nx[w[p]] ELSE f,
           la2 = IF la = w[p] THEN pv[w[p]] ELSE la
    PROVE  Row(nx2, pv2, f2, la2, n - 1, Cut(n, w, p))
<1> DEFINE c == Cut(n, w, p)
<1>1. n \in Nat /\ n - 1 \in Nat /\ w \in [1 .. n -> Nodes] /\ Distinct(n, w)  BY DEF Row, Ordered
<1>2. \A j : Place(n - 1, c, j) = IF j \in 1 .. n - 1 THEN (IF j < p THEN w[j] ELSE w[j + 1]) ELSE Null
  BY <1>1 DEF Place, Cut
<1>3. \A j, k \in 1 .. n : w[j] = w[k] <=> j = k  BY <1>1 DEF Distinct
<1>4. \A k \in 1 .. n : w[k] # Null  BY <1>1, NodesNotNull
<1>5. \A k \in 1 .. n, j \in Int : w[k] = Place(n, w, j) <=> k = j  BY <1>3, <1>4 DEF Place
<1>6. /\ nx[w[p]] = Place(n, w, p + 1) /\ pv[w[p]] = Place(n, w, p - 1)
      /\ \A k \in 1 .. n : nx[w[k]] = Place(n, w, k + 1) /\ pv[w[k]] = Place(n, w, k - 1)
      /\ f = Place(n, w, 1) /\ la = Place(n, w, n)
  BY DEF Row
<1>7. \A k \in 1 .. n : k # p =>
         /\ nx2[w[k]] = IF k = p - 1 THEN Place(n, w, p + 1) ELSE Place(n, w, k + 1)
         /\ pv2[w[k]] = IF k = p + 1 THEN Place(n, w, p - 1) ELSE Place(n, w, k - 1)
  <2>1. p - 1 \in Int /\ p + 1 \in Int  OBVIOUS
  <2>2. \A k \in 1 .. n : (w[k] = pv[w[p]] <=> k = p - 1) /\ (w[k] = nx[w[p]] <=> k = p + 1)
    BY <2>1, <1>5, <1>6
  <2>3. QED BY <2>2, <1>6 DEF Bridged
<1>8. f2 = Place(n - 1, c, 1)
  <2>1. f2 = IF p = 1 THEN Place(n, w, 2) ELSE Place(n, w, 1)  BY <1>5, <1>6
  <2> HIDE DEF c
  <2>2. QED BY <2>1, <1>1, <1>2 DEF Place
<1>9. la2 = Place(n - 1, c, n - 1)
  <2>1. la2 = IF p = n THEN Place(n, w, n - 1) ELSE Place(n, w, n)  BY <1>1, <1>5, <1>6
  <2> HIDE DEF c
  <2>2. QED BY <2>1, <1>1, <1>2 DEF Place
<1>10. ASSUME NEW k \in 1 .. n - 1
       PROVE  nx2[c[k]] = Place(n - 1, c, k + 1) /\ pv2[c[k]] = Place(n - 1, c, k - 1)
  <2>1. CASE k < p
    <3>1. c[k] = w[k] /\ k \in 1 .. n /\ k # p  BY <2>1, <1>1 DEF Cut
    <3> HIDE DEF c
    <3>2. nx2[c[k]] = IF k = p - 1 THEN Place(n, w, p + 1) ELSE Place(n, w, k + 1)  BY <3>1, <1>7
    <3>3. pv2[c[k]] = Place(n, w, k - 1)  BY <3>1, <2>1, <1>7
    <3>4. nx2[c[k]] = Place(n - 1, c, k + 1)  BY <3>2, <2>1, <1>1, <1>2 DEF Place
    <3>5. pv2[c[k]] = Place(n - 1, c, k - 1)  BY <3>3, <2>1, <1>1, <1>2 DEF Place
    <3>6. QED BY <3>4, <3>5
  <2>2. CASE k >= p
    <3>1. c[k] = w[k + 1] /\ k + 1 \in 1 .. n /\ k + 1 # p  BY <2>2, <1>1 DEF Cut
    <3> HIDE DEF c
    <3>2. nx2[c[k]] = Place(n, w, (k + 1) + 1)  BY <3>1, <2>2, <1>7
    <3>3. pv2[c[k]] = IF k + 1 = p + 1 THEN Place(n, w, p - 1) ELSE Place(n, w, (k + 1) - 1)
      BY <3>1, <1>7
    <3>4. nx2[c[k]] = Place(n - 1, c, k + 1)  BY <3>2, <2>2, <1>1, <1>2 DEF Place
    <3>5. pv2[c[k]] = Place(n - 1, c, k - 1)  BY <3>3, <2>2, <1>1, <1>2 DEF Place
    <3>6. QED BY <3>4, <3>5
  <2>3. QED BY <2>1, <2>2, <1>1
<1>11. Ordered(n - 1, c)  BY CutOrdered DEF Row
<1>12. QED BY <1>8, <1>9, <1>10, <1>11 DEF Row

(* Hooking x after the last node, or before the first.                      *)
LEMMA AddedOrdered ==
    ASSUME NEW n, NEW w, Ordered(n, w), NEW x \in Nodes, \A k \in 1 .. n : w[k] # x
    PROVE  /\ Ordered(n + 1, AtBack(n, w, x)) /\ Ordered(n + 1, AtFront(n, w, x))
           /\ Members(n + 1, AtBack(n, w, x)) = Members(n, w) \cup {x}
           /\ Members(n + 1, AtFront(n, w, x)) = Members(n, w) \cup {x}
<1> DEFINE c == AtBack(n, w, x)
           d == AtFront(n, w, x)
<1>1. n \in Nat /\ n + 1 \in Nat /\ w \in [1 .. n -> Nodes] /\ Distinct(n, w)  BY DEF Ordered
<1>2. \A k \in 1 .. n + 1 : /\ k # n + 1 => k \in 1 .. n
                            /\ k # 1 => k - 1 \in 1 .. n
  BY <1>1
<1>3. \A k \in 1 .. n : k \in 1 .. n + 1 /\ k # n + 1 /\ k + 1 \in 1 .. n + 1 /\ k + 1 # 1 /\ (k + 1) - 1 = k
  BY <1>1
<1>4. 1 \in 1 .. n + 1 /\ n + 1 \in 1 .. n + 1  BY <1>1
<1>5. /\ \A k \in 1 .. n + 1 : c[k] = IF k # n + 1 THEN w[k] ELSE x
      /\ \A k \in 1 .. n + 1 : d[k] = IF k # 1 THEN w[k - 1] ELSE x
  BY <1>1 DEF AtBack, AtFront
<1>6. c \in [1 .. n + 1 -> Nodes] /\ d \in [1 .. n + 1 -> Nodes]
  BY <1>1, <1>2 DEF AtBack, AtFront
<1> HIDE DEF c, d
<1>7. Distinct(n + 1, c)  BY <1>1, <1>2, <1>5 DEF Distinct
<1>8. Distinct(n + 1, d)
  <2>1. \A j, k \in 1 .. n + 1 : j - 1 = k - 1 => j = k  BY <1>1
  <2>2. QED BY <2>1, <1>1, <1>2, <1>5 DEF Distinct
<1>9. ASSUME NEW m PROVE (\E k \in 1 .. n + 1 : c[k] = m) <=> (\E k \in 1 .. n : w[k] = m) \/ m = x
  BY <1>2, <1>3, <1>4, <1>5
<1>10. ASSUME NEW m PROVE (\E k \in 1 .. n + 1 : d[k] = m) <=> (\E k \in 1 .. n : w[k] = m) \/ m = x
  <2>1. ASSUME NEW k \in 1 .. n PROVE d[k + 1] = w[k] /\ k + 1 \in 1 .. n + 1  BY <1>3, <1>5
  <2>2. QED BY <2>1, <1>2, <1>4, <1>5
<1>11. Members(n + 1, c) = Members(n, w) \cup {x} /\ Members(n + 1, d) = Members(n, w) \cup {x}
  <2>1. Members(n + 1, c) = Members(n, w) \cup {x}  BY <1>9 DEF Members
  <2>2. Members(n + 1, d) = Members(n, w) \cup {x}  BY <1>10 DEF Members
  <2>3. QED BY <2>1, <2>2
<1>12. QED BY <1>1, <1>6, <1>7, <1>8, <1>11 DEF c, d, Ordered

LEMMA BackRow ==
    ASSUME NEW nx, NEW pv, NEW f, NEW la, NEW n, NEW w, Row(nx, pv, f, la, n, w),
           NEW x \in Nodes, \A k \in 1 .. n : w[k] # x,
           NEW nx2, NEW pv2, NEW f2, NEW la2,
           \A k \in 1 .. n : /\ nx2[w[k]] = IF w[k] = la THEN x ELSE nx[w[k]]
                            /\ pv2[w[k]] = pv[w[k]],
           nx2[x] = Null, pv2[x] = la,
           f2 = IF f = Null THEN x ELSE f, la2 = x
    PROVE  Row(nx2, pv2, f2, la2, n + 1, AtBack(n, w, x))
<1> DEFINE c == AtBack(n, w, x)
<1>1. n \in Nat /\ n + 1 \in Nat /\ w \in [1 .. n -> Nodes] /\ Distinct(n, w)  BY DEF Row, Ordered
<1>2. \A j : Place(n + 1, c, j) = IF j \in 1 .. n + 1 THEN (IF j <= n THEN w[j] ELSE x) ELSE Null
  BY <1>1 DEF Place, AtBack
<1>3. \A k \in 1 .. n : c[k] = w[k]  BY <1>1 DEF AtBack
<1>4. c[n + 1] = x  BY <1>1 DEF AtBack
<1> HIDE DEF c
<1>5. /\ f = Place(n, w, 1) /\ la = Place(n, w, n)
      /\ \A k \in 1 .. n : nx[w[k]] = Place(n, w, k + 1) /\ pv[w[k]] = Place(n, w, k - 1)
  BY DEF Row
<1>6. \A k \in 1 .. n : w[k] # Null /\ (w[k] = la <=> k = n)
  BY <1>1, <1>5, NodesNotNull DEF Place, Distinct
<1>7. f2 = Place(n + 1, c, 1) /\ la2 = Place(n + 1, c, n + 1)
  <2>1. CASE n = 0  BY <2>1, <1>2, <1>5 DEF Place
  <2>2. CASE n > 0
    <3>1. 1 \in 1 .. n /\ f = w[1] /\ w[1] # Null  BY <2>2, <1>1, <1>5, <1>6 DEF Place
    <3>2. QED BY <3>1, <1>1, <1>2
  <2>3. QED BY <2>1, <2>2, <1>1
<1>8. ASSUME NEW k \in 1 .. n + 1
      PROVE  nx2[c[k]] = Place(n + 1, c, k + 1) /\ pv2[c[k]] = Place(n + 1, c, k - 1)
  <2>1. CASE k = n + 1
    <3>1. nx2[c[k]] = Null /\ pv2[c[k]] = Place(n, w, n)  BY <2>1, <1>4, <1>5
    <3>2. QED BY <3>1, <2>1, <1>1, <1>2 DEF Place
  <2>2. CASE k # n + 1
    <3>1. k \in 1 .. n /\ c[k] = w[k]  BY <2>2, <1>1, <1>3
    <3>2. nx2[c[k]] = IF k = n THEN x ELSE Place(n, w, k + 1)  BY <3>1, <1>5, <1>6
    <3>3. pv2[c[k]] = Place(n, w, k - 1)  BY <3>1, <1>5
    <3>4. QED BY <3>1, <3>2, <3>3, <1>1, <1>2 DEF Place
  <2>3. QED BY <2>1, <2>2
<1>9. Ordered(n + 1, c)  BY AddedOrdered DEF Row, c
<1>10. QED BY <1>7, <1>8, <1>9 DEF Row, c

LEMMA FrontRow ==
    ASSUME NEW nx, NEW pv, NEW f, NEW la, NEW n, NEW w, Row(nx, pv, f, la, n, w),
           NEW x \in Nodes, \A k \in 1 .. n : w[k] # x,
           NEW nx2, NEW pv2, NEW f2, NEW la2,
           \A k \in 1 .. n : /\ nx2[w[k]] = nx[w[k]]
                            /\ pv2[w[k]] = IF w[k] = f THEN x ELSE pv[w[k]],
           nx2[x] = f, pv2[x] = Null,
           f2 = x, la2 = IF la = Null THEN x ELSE la
    PROVE  Row(nx2, pv2, f2, la2, n + 1, AtFront(n, w, x))
<1> DEFINE c == AtFront(n, w, x)
<1>1. n \in Nat /\ n + 1 \in Nat /\ w \in [1 .. n -> Nodes] /\ Distinct(n, w)  BY DEF Row, Ordered
<1>2. \A j : Place(n + 1, c, j) = IF j \in 1 .. n + 1 THEN (IF j = 1 THEN x ELSE w[j - 1]) ELSE Null
  BY <1>1 DEF Place, AtFront
<1>3. \A k \in 1 .. n + 1 : k # 1 => k - 1 \in 1 .. n /\ c[k] = w[k - 1]  BY <1>1 DEF AtFront
<1>4. c[1] = x  BY <1>1 DEF AtFront
<1> HIDE DEF c
<1>5. /\ f = Place(n, w, 1) /\ la = Place(n, w, n)
      /\ \A k \in 1 .. n : nx[w[k]] = Place(n, w, k + 1) /\ pv[w[k]] = Place(n, w, k - 1)
  BY DEF Row
<1>6. \A k \in 1 .. n : w[k] # Null /\ (w[k] = f <=> k = 1)
  BY <1>1, <1>5, NodesNotNull DEF Place, Distinct
<1>7. f2 = Place(n + 1, c, 1) /\ la2 = Place(n + 1, c, n + 1)
  <2>1. CASE n = 0  BY <2>1, <1>2, <1>5 DEF Place
  <2>2. CASE n > 0
    <3>1. n \in 1 .. n /\ la = w[n] /\ w[n] # Null  BY <2>2, <1>1, <1>5, <1>6 DEF Place
    <3>2. QED BY <3>1, <1>1, <1>2
  <2>3. QED BY <2>1, <2>2, <1>1
<1>8. ASSUME NEW k \in 1 .. n + 1
      PROVE  nx2[c[k]] = Place(n + 1, c, k + 1) /\ pv2[c[k]] = Place(n + 1, c, k - 1)
  <2>1. CASE k = 1
    <3>1. nx2[c[k]] = Place(n, w, 1) /\ pv2[c[k]] = Null  BY <2>1, <1>4, <1>5
    <3>2. QED BY <3>1, <2>1, <1>1, <1>2 DEF Place
  <2>2. CASE k # 1
    <3>1. k - 1 \in 1 .. n /\ c[k] = w[k - 1]  BY <2>2, <1>3
    <3>2. nx2[c[k]] = Place(n, w, (k - 1) + 1)  BY <3>1, <1>5
    <3>3. pv2[c[k]] = IF k - 1 = 1 THEN x ELSE Place(n, w, (k - 1) - 1)  BY <3>1, <1>5, <1>6
    <3>4. (k - 1) + 1 = k /\ (k + 1) - 1 = k /\ (k - 1) - 1 \in Int /\ k + 1 # 1  OBVIOUS
    <3>5. nx2[c[k]] = Place(n + 1, c, k + 1)
      <4>1. nx2[c[k]] = IF k \in 1 .. n THEN w[k] ELSE Null  BY <3>2, <3>4 DEF Place
      <4>2. Place(n + 1, c, k + 1) = IF k + 1 \in 1 .. n + 1 THEN w[k] ELSE Null  BY <3>4, <1>2
      <4>3. k \in 1 .. n <=> k + 1 \in 1 .. n + 1  BY <1>1
      <4>4. QED BY <4>1, <4>2, <4>3
    <3>6. pv2[c[k]] = Place(n + 1, c, k - 1)
      <4>1. Place(n + 1, c, k - 1) = IF k - 1 = 1 THEN x ELSE w[(k - 1) - 1]  BY <3>1, <1>1, <1>2
      <4>2. k - 1 # 1 => Place(n, w, (k - 1) - 1) = w[(k - 1) - 1]  BY <3>1, <1>1 DEF Place
      <4>3. QED BY <3>3, <4>1, <4>2
    <3>7. QED BY <3>5, <3>6
  <2>3. QED BY <2>1, <2>2
<1>9. Ordered(n + 1, c)  BY AddedOrdered DEF Row, c
<1>10. QED BY <1>7, <1>8, <1>9 DEF Row, c

(* A list whose pointers and whose nodes' are left alone keeps its order.   *)
LEMMA SameRow ==
    ASSUME NEW nx, NEW pv, NEW f, NEW la, NEW n, NEW w, Row(nx, pv, f, la, n, w), NEW nx2, NEW pv2,
           \A k \in 1 .. n : nx2[w[k]] = nx[w[k]] /\ pv2[w[k]] = pv[w[k]]
    PROVE  Row(nx2, pv2, f, la, n, w)
BY DEF Row

-----------------------------------------------------------------------------
ListTypes == /\ next \in [Nodes -> Ptrs] /\ prev \in [Nodes -> Ptrs] /\ parent \in [Nodes -> Lists]
             /\ first \in [Lists -> Ptrs] /\ last \in [Lists -> Ptrs]
OnRow(l, n, w) == /\ Row(next, prev, first[l], last[l], n, w)
                  /\ \A m \in Nodes : parent[m] = l <=> m \in Members(n, w)
ListsInv == ListTypes /\ \A l \in Lists : \E n, w : OnRow(l, n, w)

(* What a node's neighbours and a list's ends are.                          *)
LEMMA Neighbours ==
    ASSUME NEW l, NEW n, NEW w, OnRow(l, n, w)
    PROVE  /\ \A k \in 1 .. n : /\ w[k] \in Nodes /\ parent[w[k]] = l
                               /\ \A y \in {next[w[k]], prev[w[k]]} : y # Null => y \in Nodes /\ parent[y] = l
           /\ \A y \in {first[l], last[l]} : y # Null => y \in Nodes /\ parent[y] = l
<1>1. \A k \in 1 .. n : w[k] \in Nodes /\ parent[w[k]] = l  BY DEF OnRow, Row, Ordered, Members
<1>2. \A j : Place(n, w, j) # Null => Place(n, w, j) \in Nodes /\ parent[Place(n, w, j)] = l
  BY <1>1 DEF Place
<1>3. QED BY <1>1, <1>2 DEF OnRow, Row

(* The pointers after a move.                                               *)
Linking(x, src, dst, back) ==
    \A m \in Nodes :
       /\ next'[m] = IF m = x THEN (IF back THEN Null ELSE first[dst])
                     ELSE IF back /\ m = last[dst] THEN x
                     ELSE IF m = prev[x] THEN next[x] ELSE next[m]
       /\ prev'[m] = IF m = x THEN (IF back THEN last[dst] ELSE Null)
                     ELSE IF ~back /\ m = first[dst] THEN x
                     ELSE IF m = next[x] THEN prev[x] ELSE prev[m]
       /\ parent'[m] = IF m = x THEN dst ELSE parent[m]
Ending(x, src, dst, back) ==
    \A l \in Lists :
       /\ first'[l] = IF l = src THEN (IF first[l] = x THEN next[x] ELSE first[l])
                      ELSE IF l = dst THEN (IF ~back \/ first[l] = Null THEN x ELSE first[l])
                      ELSE first[l]
       /\ last'[l] = IF l = src THEN (IF last[l] = x THEN prev[x] ELSE last[l])
                     ELSE IF l = dst THEN (IF back \/ last[l] = Null THEN x ELSE last[l])
                     ELSE last[l]

LEMMA MoveEffect ==
    ASSUME ListTypes, NEW x \in Nodes, NEW src \in Lists, NEW dst \in Lists, NEW back \in BOOLEAN,
           parent[x] = src, src # dst, moveNode(x, dst, back)
    PROVE  ListTypes' /\ Linking(x, src, dst, back) /\ Ending(x, src, dst, back)
<1>1. /\ IF back THEN HookBack(x, dst) ELSE HookFront(x, dst)
      /\ Ends(x, dst, back)
      /\ parent' = [parent EXCEPT ![x] = dst]
  BY DEF moveNode
<1>2. /\ next \in [Nodes -> Ptrs] /\ prev \in [Nodes -> Ptrs] /\ parent \in [Nodes -> Lists]
      /\ first \in [Lists -> Ptrs] /\ last \in [Lists -> Ptrs] /\ x \in Ptrs
  BY DEF ListTypes, Ptrs
<1>3. /\ next[x] \in Ptrs /\ prev[x] \in Ptrs /\ first[dst] \in Ptrs /\ last[dst] \in Ptrs /\ Null \in Ptrs
  BY <1>2 DEF Ptrs
<1>4. /\ NextCut(x) \in [Nodes -> Ptrs] /\ PrevCut(x) \in [Nodes -> Ptrs]
      /\ \A m \in Nodes : /\ NextCut(x)[m] = IF m = prev[x] THEN next[x] ELSE next[m]
                         /\ PrevCut(x)[m] = IF m = next[x] THEN prev[x] ELSE prev[m]
  BY <1>2, <1>3 DEF NextCut, PrevCut
<1>5. next' \in [Nodes -> Ptrs] /\ prev' \in [Nodes -> Ptrs] /\ parent' \in [Nodes -> Lists]
  <2>1. CASE back  BY <2>1, <1>1, <1>2, <1>3, <1>4 DEF HookBack
  <2>2. CASE ~back  BY <2>2, <1>1, <1>2, <1>3, <1>4 DEF HookFront
  <2>3. QED BY <2>1, <2>2
<1>6. Linking(x, src, dst, back)
  <2>1. CASE back  BY <2>1, <1>1, <1>2, <1>4 DEF HookBack, Linking
  <2>2. CASE ~back  BY <2>2, <1>1, <1>2, <1>4 DEF HookFront, Linking
  <2>3. QED BY <2>1, <2>2
<1>7. /\ FirstCut(x) \in [Lists -> Ptrs] /\ LastCut(x) \in [Lists -> Ptrs]
      /\ \A l \in Lists : /\ FirstCut(x)[l] = IF l = src /\ first[l] = x THEN next[x] ELSE first[l]
                         /\ LastCut(x)[l] = IF l = src /\ last[l] = x THEN prev[x] ELSE last[l]
  BY <1>2, <1>3 DEF FirstCut, LastCut
<1>8. first' \in [Lists -> Ptrs] /\ last' \in [Lists -> Ptrs]  BY <1>1, <1>2, <1>7 DEF Ends
<1>9. Ending(x, src, dst, back)  BY <1>1, <1>7 DEF Ends, Ending
<1>10. QED BY <1>5, <1>6, <1>8, <1>9 DEF ListTypes

Added(n, w, x, back) == IF back THEN AtBack(n, w, x) ELSE AtFront(n, w, x)

LEMMA Moved ==
    ASSUME ListTypes, NEW x \in Nodes, NEW src \in Lists, NEW dst \in Lists, NEW back \in BOOLEAN,
           parent[x] = src, src # dst, moveNode(x, dst, back),
           NEW n, NEW w, OnRow(src, n, w), NEW p \in 1 .. n, w[p] = x,
           NEW m, NEW v, OnRow(dst, m, v)
    PROVE  /\ OnRow(src, n - 1, Cut(n, w, p))'
           /\ OnRow(dst, m + 1, Added(m, v, x, back))'
           /\ \A l \in Lists \ {src, dst} : \A k, u : OnRow(l, k, u) => OnRow(l, k, u)'
<1>1. Linking(x, src, dst, back) /\ Ending(x, src, dst, back)  BY MoveEffect
<1>2. /\ \A k \in 1 .. n : w[k] \in Nodes /\ parent[w[k]] = src
      /\ \A k \in 1 .. m : v[k] \in Nodes /\ parent[v[k]] = dst
      /\ next[x] # Null => next[x] \in Nodes /\ parent[next[x]] = src
      /\ prev[x] # Null => prev[x] \in Nodes /\ parent[prev[x]] = src
      /\ first[dst] # Null => first[dst] \in Nodes /\ parent[first[dst]] = dst
      /\ last[dst] # Null => last[dst] \in Nodes /\ parent[last[dst]] = dst
  <2>1. /\ \A k \in 1 .. n : /\ w[k] \in Nodes /\ parent[w[k]] = src
                           /\ \A y \in {next[w[k]], prev[w[k]]} : y # Null => y \in Nodes /\ parent[y] = src
    BY Neighbours
  <2>2. /\ \A k \in 1 .. m : v[k] \in Nodes /\ parent[v[k]] = dst
        /\ \A y \in {first[dst], last[dst]} : y # Null => y \in Nodes /\ parent[y] = dst
    BY Neighbours
  <2>3. \A y \in {next[x], prev[x]} : y # Null => y \in Nodes /\ parent[y] = src  BY <2>1
  <2>4. QED BY <2>1, <2>2, <2>3
<1>3. /\ Row(next, prev, first[src], last[src], n, w) /\ Row(next, prev, first[dst], last[dst], m, v)
      /\ Ordered(n, w) /\ Ordered(m, v)
  BY DEF OnRow, Row
<1>4. Null \notin Nodes  BY NodesNotNull
<1>5. Row(next, prev, first[src], last[src], n - 1, Cut(n, w, p))'
  <2>1. ASSUME NEW k \in 1 .. n, k # p
        PROVE  /\ next'[w[k]] = IF w[k] = prev[w[p]] THEN next[w[p]] ELSE next[w[k]]
               /\ prev'[w[k]] = IF w[k] = next[w[p]] THEN prev[w[p]] ELSE prev[w[k]]
    <3>1. w[k] # x  BY <2>1, <1>3 DEF Ordered, Distinct
    <3>2. w[k] \in Nodes /\ w[k] # last[dst] /\ w[k] # first[dst]  BY <1>2, <1>4
    <3>3. QED BY <3>1, <3>2, <1>1 DEF Linking
  <2>2. /\ first'[src] = IF first[src] = w[p] THEN next[w[p]] ELSE first[src]
        /\ last'[src] = IF last[src] = w[p] THEN prev[w[p]] ELSE last[src]
    BY <1>1 DEF Ending
  <2>3. Bridged(next, prev, n, w, p, next', prev')  BY <2>1 DEF Bridged
  <2>4. Row(next, prev, first[src], last[src], n, w)  BY <1>3
  <2>5. Row(next', prev', first'[src], last'[src], n - 1, Cut(n, w, p))
    BY <2>2, <2>3, <2>4, CutRow
  <2>6. QED BY <2>5
<1>6. Row(next, prev, first[dst], last[dst], m + 1, Added(m, v, x, back))'
  <2>1. \A k \in 1 .. m : v[k] # x  BY <1>2
  <2>2. ASSUME NEW k \in 1 .. m
        PROVE  /\ next'[v[k]] = IF back /\ v[k] = last[dst] THEN x ELSE next[v[k]]
               /\ prev'[v[k]] = IF ~back /\ v[k] = first[dst] THEN x ELSE prev[v[k]]
    <3>1. v[k] \in Nodes /\ v[k] # x /\ v[k] # prev[x] /\ v[k] # next[x]  BY <2>1, <1>2, <1>4
    <3>2. QED BY <3>1, <1>1 DEF Linking
  <2>3. /\ next'[x] = IF back THEN Null ELSE first[dst]
        /\ prev'[x] = IF back THEN last[dst] ELSE Null
    BY <1>1 DEF Linking
  <2>4. /\ first'[dst] = IF ~back \/ first[dst] = Null THEN x ELSE first[dst]
        /\ last'[dst] = IF back \/ last[dst] = Null THEN x ELSE last[dst]
    BY <1>1 DEF Ending
  <2>5. CASE back
    <3>1. Row(next', prev', first'[dst], last'[dst], m + 1, AtBack(m, v, x))
      BY <2>1, <2>2, <2>3, <2>4, <2>5, <1>3, BackRow
    <3>2. QED BY <3>1, <2>5 DEF Added
  <2>6. CASE ~back
    <3>1. Row(next', prev', first'[dst], last'[dst], m + 1, AtFront(m, v, x))
      BY <2>1, <2>2, <2>3, <2>4, <2>6, <1>3, FrontRow
    <3>2. QED BY <3>1, <2>6 DEF Added
  <2>7. QED BY <2>5, <2>6, Zenon
<1>7. ASSUME NEW y \in Nodes PROVE parent'[y] = src <=> y \in Members(n - 1, Cut(n, w, p))
  <2>1. parent'[y] = src <=> parent[y] = src /\ y # x  BY <1>1 DEF Linking
  <2>2. parent[y] = src <=> y \in Members(n, w)  BY DEF OnRow
  <2>3. Members(n - 1, Cut(n, w, p)) = Members(n, w) \ {x}  BY <1>3, CutOrdered
  <2>4. QED BY <2>1, <2>2, <2>3
<1>8. ASSUME NEW y \in Nodes PROVE parent'[y] = dst <=> y \in Members(m + 1, Added(m, v, x, back))
  <2>1. parent'[y] = dst <=> parent[y] = dst \/ y = x  BY <1>1 DEF Linking
  <2>2. parent[y] = dst <=> y \in Members(m, v)  BY DEF OnRow
  <2>3. \A k \in 1 .. m : v[k] # x  BY <1>2
  <2>4. /\ Members(m + 1, AtBack(m, v, x)) = Members(m, v) \cup {x}
        /\ Members(m + 1, AtFront(m, v, x)) = Members(m, v) \cup {x}
    BY <2>3, <1>3, AddedOrdered
  <2>5. QED BY <2>1, <2>2, <2>4 DEF Added
<1>9. ASSUME NEW l \in Lists \ {src, dst}, NEW k, NEW u, OnRow(l, k, u) PROVE OnRow(l, k, u)'
  <2>1. \A j \in 1 .. k : u[j] \in Nodes /\ parent[u[j]] = l  BY <1>9, Neighbours
  <2>2. \A j \in 1 .. k : next'[u[j]] = next[u[j]] /\ prev'[u[j]] = prev[u[j]]
    <3> SUFFICES ASSUME NEW j \in 1 .. k PROVE next'[u[j]] = next[u[j]] /\ prev'[u[j]] = prev[u[j]]
      OBVIOUS
    <3>1. /\ u[j] \in Nodes /\ u[j] # x /\ u[j] # prev[x] /\ u[j] # next[x]
          /\ u[j] # first[dst] /\ u[j] # last[dst]
      BY <2>1, <1>2, <1>4
    <3>2. QED BY <3>1, <1>1 DEF Linking
  <2>3. first'[l] = first[l] /\ last'[l] = last[l]  BY <1>1 DEF Ending
  <2>4. Row(next', prev', first'[l], last'[l], k, u)
    <3>1. Row(next, prev, first[l], last[l], k, u)  BY <1>9 DEF OnRow
    <3>2. QED BY <3>1, <2>2, <2>3, SameRow
  <2>5. \A y \in Nodes : parent'[y] = l <=> parent[y] = l  BY <1>1 DEF Linking
  <2>6. QED BY <2>4, <2>5, <1>9 DEF OnRow
<1>10. QED BY <1>5, <1>6, <1>7, <1>8, <1>9 DEF OnRow

-----------------------------------------------------------------------------
(* A row has no more nodes than the pool.                                   *)
LEMMA RowFits == ASSUME NEW n, NEW w, Ordered(n, w) PROVE n <= NbNodes
<1>1. n \in Nat /\ w \in [1 .. n -> Nodes] /\ Distinct(n, w) /\ NbNodes \in Nat
  BY NodesNotNull DEF Ordered
<1>2. w \in Injection(1 .. n, Nodes)
  <2>1. IsInjective(w)  BY <1>1 DEF IsInjective, Distinct
  <2>2. QED BY <2>1, <1>1 DEF Injection
<1>3. IsFiniteSet(Nodes) /\ Cardinality(Nodes) = NbNodes
  <2>1. 1 \in Int /\ NbNodes \in Int /\ ~(1 > NbNodes)  BY NodesNotNull
  <2>2. IsFiniteSet(1 .. NbNodes) /\ Cardinality(1 .. NbNodes) = NbNodes - 1 + 1  BY <2>1, FS_Interval
  <2>3. QED BY <2>2, <1>1 DEF Nodes
<1>4. Cardinality(1 .. n) <= Cardinality(Nodes)  BY <1>2, <1>3, FS_Injection
<1>5. Cardinality(1 .. n) = n
  <2>1. Cardinality(1 .. n) = IF 1 > n THEN 0 ELSE n - 1 + 1  BY <1>1, FS_Interval
  <2>2. QED BY <2>1, <1>1
<1>6. QED BY <1>3, <1>4, <1>5

(* Following pointers that hold a row together meets its nodes in order.    *)
LEMMA WalkIs ==
    ASSUME NEW ptr, NEW f, NEW n \in Nat, n <= NbNodes, NEW w \in [1 .. n -> Nodes],
           f = Place(n, w, 1), \A k \in 1 .. n : ptr[w[k]] = Place(n, w, k + 1)
    PROVE  Walk(ptr, f) = w
<1> DEFINE step(at) == [k \in 0 .. NbNodes |->
                          IF k = 0 THEN f ELSE IF at[k - 1] = Null THEN Null ELSE ptr[at[k - 1]]]
           g == [k \in 0 .. NbNodes |-> Place(n, w, k + 1)]
           met == Met(ptr, f)
<1>1. NbNodes \in Nat /\ Null \notin Nodes  BY NodesNotNull
<1>2. \A k \in 0 .. NbNodes : g[k] = Place(n, w, k + 1)  OBVIOUS
<1>3. g = step(g)
  <2>1. ASSUME NEW k \in 0 .. NbNodes
        PROVE  Place(n, w, k + 1) = IF k = 0 THEN f ELSE IF g[k - 1] = Null THEN Null ELSE ptr[g[k - 1]]
    <3>1. CASE k = 0  BY <3>1
    <3>2. CASE k # 0
      <4>1. k - 1 \in 0 .. NbNodes /\ (k - 1) + 1 = k  BY <3>2, <1>1
      <4>2. g[k - 1] = Place(n, w, k)  BY <4>1, <1>2
      <4> HIDE DEF g
      <4>3. CASE k \in 1 .. n
        <5>1. g[k - 1] = w[k] /\ w[k] # Null  BY <4>2, <4>3, <1>1 DEF Place
        <5>2. QED BY <5>1, <4>3, <3>2
      <4>4. CASE k \notin 1 .. n
        <5>1. g[k - 1] = Null /\ Place(n, w, k + 1) = Null  BY <4>2, <4>4, <3>2 DEF Place
        <5>2. QED BY <5>1, <3>2
      <4>5. QED BY <4>3, <4>4
    <3>3. QED BY <3>1, <3>2
  <2>2. QED BY <2>1
<1>4. met = step(met)
  <2>1. met = CHOOSE at : at = step(at)  BY DEF Met
  <2> HIDE DEF met, g, step
  <2>2. QED BY <2>1, <1>3
<1>5. \A k \in 0 .. NbNodes : met[k] = g[k]
  <2> DEFINE S == {k \in 0 .. NbNodes : met[k] # g[k]}
  <2>1. SUFFICES ASSUME S # {} PROVE FALSE  OBVIOUS
  <2>2. S \in SUBSET Nat  BY <1>1
  <2>3. PICK k \in S : \A j \in S : k <= j
    <3> HIDE DEF S
    <3>1. QED BY <2>1, <2>2, LeastNat
  <2>4. k \in 0 .. NbNodes /\ met[k] # g[k]  BY <2>3
  <2>5. k # 0 => k - 1 \in 0 .. NbNodes /\ met[k - 1] = g[k - 1]
    <3>1. k # 0 => k - 1 \in 0 .. NbNodes /\ ~(k <= k - 1)  BY <2>4, <1>1
    <3>2. QED BY <3>1, <2>3
  <2>6. met[k] = IF k = 0 THEN f ELSE IF met[k - 1] = Null THEN Null ELSE ptr[met[k - 1]]
    <3> HIDE DEF met
    <3>1. QED BY <1>4, <2>4
  <2>7. g[k] = IF k = 0 THEN f ELSE IF g[k - 1] = Null THEN Null ELSE ptr[g[k - 1]]
    <3> HIDE DEF g
    <3>1. QED BY <1>3, <2>4
  <2>8. QED BY <2>4, <2>5, <2>6, <2>7
<1> HIDE DEF met, g
<1>6. {k \in 0 .. NbNodes : met[k] # Null} = 0 .. n - 1
  <2>1. \A k \in 0 .. NbNodes : met[k] # Null <=> k \in 0 .. n - 1
    <3>1. \A k \in 0 .. NbNodes : k + 1 \in 1 .. n <=> k \in 0 .. n - 1  BY <1>1
    <3>2. \A k \in 0 .. NbNodes : k + 1 \in 1 .. n => w[k + 1] # Null  BY <1>1
    <3>3. QED BY <3>1, <3>2, <1>2, <1>5 DEF Place
  <2>2. 0 .. n - 1 \subseteq 0 .. NbNodes  BY <1>1
  <2>3. QED BY <2>1, <2>2
<1>7. Cardinality(0 .. n - 1) = n
  <2>1. 0 \in Int /\ n - 1 \in Int  OBVIOUS
  <2>2. Cardinality(0 .. n - 1) = IF 0 > n - 1 THEN 0 ELSE n - 1 - 0 + 1  BY <2>1, FS_Interval
  <2>3. QED BY <2>2
<1>8. Walk(ptr, f) = [k \in 1 .. n |-> met[k - 1]]  BY <1>6, <1>7 DEF Walk, met
<1>9. \A k \in 1 .. n : met[k - 1] = w[k]
  <2>1. \A k \in 1 .. n : k - 1 \in 0 .. NbNodes /\ (k - 1) + 1 = k  BY <1>1
  <2>2. QED BY <2>1, <1>2, <1>5 DEF Place
<1>10. QED BY <1>8, <1>9

Turned(n, w) == [k \in 1 .. n |-> w[(n - k) + 1]]

LEMMA RowWalks ==
    ASSUME NEW l, NEW n, NEW w, OnRow(l, n, w)
    PROVE  Forward(l) = w /\ Backward(l) = Turned(n, w)
<1>1. /\ n \in Nat /\ w \in [1 .. n -> Nodes] /\ n <= NbNodes /\ NbNodes \in Nat
      /\ first[l] = Place(n, w, 1) /\ last[l] = Place(n, w, n)
      /\ \A k \in 1 .. n : next[w[k]] = Place(n, w, k + 1) /\ prev[w[k]] = Place(n, w, k - 1)
  BY RowFits, NodesNotNull DEF OnRow, Row, Ordered
<1>2. Forward(l) = w
  <2>1. \A k \in 1 .. n : next[w[k]] = Place(n, w, k + 1)  BY <1>1
  <2>2. Walk(next, first[l]) = w  BY <2>1, <1>1, WalkIs
  <2>3. QED BY <2>2 DEF Forward
<1> DEFINE r == Turned(n, w)
<1>3. \A k \in 1 .. n : (n - k) + 1 \in 1 .. n /\ r[k] = w[(n - k) + 1]  BY <1>1 DEF Turned
<1>4. r \in [1 .. n -> Nodes]  BY <1>1, <1>3 DEF Turned
<1> HIDE DEF r
<1>5. last[l] = Place(n, r, 1)
  <2>1. 1 \in 1 .. n <=> n \in 1 .. n  BY <1>1
  <2>2. (n - 1) + 1 = n  BY <1>1
  <2>3. QED BY <2>1, <2>2, <1>1, <1>3 DEF Place
<1>6. ASSUME NEW k \in 1 .. n PROVE prev[r[k]] = Place(n, r, k + 1)
  <2>1. prev[r[k]] = Place(n, w, ((n - k) + 1) - 1)  BY <1>1, <1>3
  <2>2. ((n - k) + 1) - 1 = n - k /\ (n - (k + 1)) + 1 = n - k /\ (k + 1 \in 1 .. n <=> n - k \in 1 .. n)
    BY <1>1
  <2>3. QED BY <2>1, <2>2, <1>3 DEF Place
<1>7. Backward(l) = r
  <2>1. Walk(prev, last[l]) = r  BY <1>1, <1>4, <1>5, <1>6, WalkIs
  <2>2. QED BY <2>1 DEF Backward
<1>8. QED BY <1>2, <1>7 DEF r

-----------------------------------------------------------------------------
(* A function on 1 .. n is a sequence of length n.                          *)
LEMMA LenIs ==
    ASSUME NEW S, NEW n \in Nat, NEW w \in [1 .. n -> S]
    PROVE  w \in Seq(S) /\ Len(w) = n
<1>1. w \in Seq(S)  BY SeqDef
<1>2. DOMAIN w = 1 .. Len(w) /\ Len(w) \in Nat  BY <1>1, LenProperties
<1>3. 1 .. n = 1 .. Len(w)  BY <1>2
<1>4. ASSUME NEW a \in Nat, NEW b \in Nat, a < b PROVE 1 .. a # 1 .. b
  <2>1. b \in 1 .. b /\ b \notin 1 .. a  BY <1>4
  <2>2. QED BY <2>1
<1>5. ~(n < Len(w)) /\ ~(Len(w) < n)  BY <1>2, <1>3, <1>4
<1>6. QED BY <1>1, <1>2, <1>5

LEMMA RowIsSeq ==
    ASSUME NEW n, NEW w, Ordered(n, w)
    PROVE  /\ w \in Seq(Nodes) /\ Len(w) = n /\ n \in Nat /\ DOMAIN w = 1 .. n
           /\ IsInjective(w) /\ ToSet(w) = Members(n, w) /\ Cardinality(Members(n, w)) = n
<1>1. n \in Nat /\ w \in [1 .. n -> Nodes] /\ Distinct(n, w)  BY DEF Ordered
<1>2. w \in Seq(Nodes)  BY <1>1, LenIs
<1>3. Len(w) = n  BY <1>1, LenIs
<1>4. DOMAIN w = 1 .. n  BY <1>1
<1>5. IsInjective(w)  BY <1>1, <1>4 DEF IsInjective, Distinct
<1>6. ToSet(w) = Members(n, w)  BY <1>4 DEF ToSet, Members
<1>7. Cardinality(Members(n, w)) = n
  <2>1. w \in [1 .. n -> Members(n, w)]  BY <1>1 DEF Members
  <2>2. w \in Injection(1 .. n, Members(n, w))  BY <2>1, <1>5 DEF Injection
  <2>3. \A y \in Members(n, w) : \E k \in 1 .. n : w[k] = y  BY DEF Members
  <2>4. w \in Surjection(1 .. n, Members(n, w))  BY <2>1, <2>3 DEF Surjection
  <2>5. ExistsBijection(1 .. n, Members(n, w))  BY <2>2, <2>4 DEF ExistsBijection, Bijection
  <2>6. QED BY <2>5, <1>1, FS_CountingElements
<1>8. QED BY <1>1, <1>2, <1>3, <1>4, <1>5, <1>6, <1>7

LEMMA RowsAgree == ListsInv => WalksAgree
<1> SUFFICES ASSUME ListsInv, NEW l \in Lists
             PROVE  LET own == {n \in Nodes : parent[n] = l}
                    IN  /\ Forward(l) = Reverse(Backward(l))
                        /\ ToSet(Forward(l)) = own /\ Len(Forward(l)) = Cardinality(own)
  BY DEF WalksAgree
<1>1. PICK n, w : OnRow(l, n, w)  BY DEF ListsInv
<1>2. Forward(l) = w /\ Backward(l) = Turned(n, w)  BY <1>1, RowWalks
<1>3. Ordered(n, w)  BY <1>1 DEF OnRow, Row
<1>4. /\ Len(w) = n /\ n \in Nat /\ ToSet(w) = Members(n, w) /\ Cardinality(Members(n, w)) = n
      /\ w \in [1 .. n -> Nodes]
  BY <1>3, RowIsSeq DEF Ordered
<1>5. {m \in Nodes : parent[m] = l} = Members(n, w)
  <2>1. Members(n, w) \subseteq Nodes  BY <1>4 DEF Members
  <2>2. \A m \in Nodes : parent[m] = l <=> m \in Members(n, w)  BY <1>1 DEF OnRow
  <2>3. QED BY <2>1, <2>2
<1>6. w = Reverse(Turned(n, w))
  <2> DEFINE r == Turned(n, w)
  <2>1. r \in [1 .. n -> Nodes] /\ \A k \in 1 .. n : r[k] = w[(n - k) + 1]  BY <1>4 DEF Turned
  <2>2. Len(r) = n  BY <2>1, <1>4, LenIs
  <2> HIDE DEF r
  <2>3. Reverse(r) = [k \in 1 .. n |-> r[(n - k) + 1]]  BY <2>2 DEF Reverse
  <2>4. \A k \in 1 .. n : r[(n - k) + 1] = w[k]
    <3>1. \A k \in 1 .. n : (n - k) + 1 \in 1 .. n /\ (n - ((n - k) + 1)) + 1 = k  BY <1>4
    <3>2. QED BY <3>1, <2>1
  <2>5. QED BY <2>3, <2>4, <1>4 DEF r
<1>7. QED BY <1>2, <1>4, <1>5, <1>6

-----------------------------------------------------------------------------
(* What buildList lays out.                                                 *)
LEMMA Built ==
    ASSUME ListInit
    PROVE  /\ ListTypes
           /\ OnRow(Pool, NbNodes, [k \in Nodes |-> k])
           /\ \A l \in Lists \ {Pool} : OnRow(l, 0, <<>>)
<1>1. NbNodes \in Nat \ {0} /\ Pool \in Lists /\ Nodes = 1 .. NbNodes /\ Null \notin Nodes
  BY NodesNotNull DEF Nodes
<1>2. ListTypes  BY <1>1 DEF ListInit, ListTypes, Ptrs
<1>3. OnRow(Pool, NbNodes, [k \in Nodes |-> k])
  <2> DEFINE w == [k \in Nodes |-> k]
  <2>1. w \in [1 .. NbNodes -> Nodes] /\ \A k \in Nodes : w[k] = k  BY <1>1
  <2> HIDE DEF w
  <2>2. Ordered(NbNodes, w)  BY <2>1, <1>1 DEF Ordered, Distinct
  <2>3. first[Pool] = Place(NbNodes, w, 1) /\ last[Pool] = Place(NbNodes, w, NbNodes)
    BY <2>1, <1>1 DEF ListInit, Place
  <2>4. ASSUME NEW k \in 1 .. NbNodes
        PROVE  next[w[k]] = Place(NbNodes, w, k + 1) /\ prev[w[k]] = Place(NbNodes, w, k - 1)
    BY <2>1, <1>1 DEF ListInit, Place
  <2>5. \A m \in Nodes : parent[m] = Pool /\ m \in Members(NbNodes, w)
    BY <2>1, <1>1 DEF ListInit, Members
  <2>6. QED BY <2>2, <2>3, <2>4, <2>5 DEF w, OnRow, Row
<1>4. ASSUME NEW l \in Lists \ {Pool} PROVE OnRow(l, 0, <<>>)
  <2>1. <<>> \in [1 .. 0 -> Nodes] /\ 1 .. 0 = {}  OBVIOUS
  <2>2. Ordered(0, <<>>) /\ Members(0, <<>>) = {}  BY <2>1 DEF Ordered, Distinct, Members
  <2>3. first[l] = Null /\ last[l] = Null /\ \A m \in Nodes : parent[m] # l
    BY <1>4 DEF ListInit
  <2>4. QED BY <2>1, <2>2, <2>3 DEF OnRow, Row, Place
<1>5. QED BY <1>2, <1>3, <1>4

LEMMA ListsBegin == ListInit => ListsInv
BY Built DEF ListsInv

(* A step moves one node, or leaves every pointer alone.                    *)
Moves(x, src, dst, back) ==
    /\ x \in Nodes /\ src \in Lists /\ dst \in Lists /\ back \in BOOLEAN
    /\ parent[x] = src /\ src # dst /\ moveNode(x, dst, back)
Steady == UNCHANGED <<prev, next, parent, first, last>>

LEMMA StepMoves ==
    ASSUME ListTypes, [ListNext]_lvars
    PROVE  Steady \/ \E x, src, dst, back : Moves(x, src, dst, back)
<1>1. ASSUME NEW x \in Nodes, NEW dst \in Lists, NEW back \in BOOLEAN, moveNode(x, dst, back)
      PROVE  Steady \/ \E y, src, to, end : Moves(y, src, to, end)
  <2>1. CASE parent[x] = dst  BY <2>1, <1>1 DEF moveNode, Steady, lvars
  <2>2. CASE parent[x] # dst
    <3>1. parent[x] \in Lists  BY DEF ListTypes
    <3>2. Moves(x, parent[x], dst, back)  BY <3>1, <2>2, <1>1 DEF Moves
    <3>3. QED BY <3>2
  <2>3. QED BY <2>1, <2>2
<1>2. ASSUME NEW dst \in Lists, NEW back \in BOOLEAN, allocateNode(dst, Pool, back)
      PROVE  Steady \/ \E y, src, to, end : Moves(y, src, to, end)
  <2>1. CASE first[Pool] = Null  BY <2>1, <1>2 DEF allocateNode, Steady
  <2>2. CASE first[Pool] # Null
    <3>1. first[Pool] \in Nodes  BY <2>2, NodesNotNull DEF ListTypes, Ptrs
    <3>2. moveNode(first[Pool], dst, back)  BY <2>2, <1>2 DEF allocateNode
    <3>3. QED BY <3>1, <3>2, <1>1
  <2>3. QED BY <2>1, <2>2
<1>3. CASE UNCHANGED lvars  BY <1>3 DEF lvars, Steady
<1>4. QED BY <1>1, <1>2, <1>3 DEF ListNext

(* The lists before and after a move, as orders.                            *)
LEMMA MoveOrders ==
    ASSUME ListsInv, NEW x, NEW src, NEW dst, NEW back, Moves(x, src, dst, back)
    PROVE  /\ ListTypes'
           /\ \E n, w, p, m, v :
                 /\ OnRow(src, n, w) /\ p \in 1 .. n /\ w[p] = x /\ OnRow(dst, m, v)
                 /\ OnRow(src, n - 1, Cut(n, w, p))' /\ OnRow(dst, m + 1, Added(m, v, x, back))'
           /\ \A l \in Lists \ {src, dst} : \A k, u : OnRow(l, k, u) => OnRow(l, k, u)'
<1>1. /\ x \in Nodes /\ src \in Lists /\ dst \in Lists /\ back \in BOOLEAN
      /\ parent[x] = src /\ src # dst /\ moveNode(x, dst, back) /\ ListTypes
  BY DEF Moves, ListsInv
<1>2. PICK n, w : OnRow(src, n, w)  BY <1>1 DEF ListsInv
<1>3. PICK m, v : OnRow(dst, m, v)  BY <1>1 DEF ListsInv
<1>4. PICK p \in 1 .. n : w[p] = x  BY <1>1, <1>2 DEF OnRow, Members
<1>5. ListTypes'  BY <1>1, MoveEffect
<1>6. /\ OnRow(src, n - 1, Cut(n, w, p))' /\ OnRow(dst, m + 1, Added(m, v, x, back))'
      /\ \A l \in Lists \ {src, dst} : \A k, u : OnRow(l, k, u) => OnRow(l, k, u)'
  BY <1>1, <1>2, <1>3, <1>4, Moved
<1>7. QED BY <1>2, <1>3, <1>4, <1>5, <1>6

LEMMA ListsStep == ListsInv /\ [ListNext]_lvars => ListsInv'
<1> SUFFICES ASSUME ListsInv, [ListNext]_lvars PROVE ListsInv'  OBVIOUS
<1>1. CASE Steady
  BY <1>1 DEF Steady, ListsInv, ListTypes, OnRow
<1>2. ASSUME NEW x, NEW src, NEW dst, NEW back, Moves(x, src, dst, back) PROVE ListsInv'
  <2>1. ListTypes'  BY <1>2, MoveOrders
  <2>2. (\E n, w : OnRow(src, n, w)') /\ (\E n, w : OnRow(dst, n, w)')  BY <1>2, MoveOrders
  <2>3. \A l \in Lists \ {src, dst} : \E n, w : OnRow(l, n, w)'  BY <1>2, MoveOrders DEF ListsInv
  <2>4. QED BY <2>1, <2>2, <2>3 DEF ListsInv
<1>3. QED BY <1>1, <1>2, StepMoves DEF ListsInv

(* Walking a list along next from first, or along prev from last, meets the *)
(* same nodes in opposite orders, those whose parent it is and each once.   *)
THEOREM ListsAreWhole == ListsSpec => []WalksAgree
<1>1. ListsSpec => []ListsInv  BY ListsBegin, ListsStep, PTL DEF ListsSpec
<1>2. QED BY <1>1, RowsAgree, PTL

-----------------------------------------------------------------------------
(* The orders after a move are what NodeLists makes of its sequences.       *)
LEMMA CutIsRemoveAt ==
    ASSUME NEW n, NEW w, Ordered(n, w), NEW p \in 1 .. n
    PROVE  RemoveAt(w, p) = Cut(n, w, p)
<1>1. /\ n \in Nat /\ n - 1 \in Nat /\ w \in [1 .. n -> Nodes] /\ Len(w) = n
      /\ p - 1 \in Int /\ p + 1 \in Int /\ Cut(n, w, p) \in [1 .. n - 1 -> Nodes]
  <2>1. n \in Nat /\ w \in [1 .. n -> Nodes] /\ Len(w) = n  BY RowIsSeq DEF Ordered
  <2>2. n - 1 \in Nat /\ p - 1 \in Int /\ p + 1 \in Int  BY <2>1
  <2>3. Ordered(n - 1, Cut(n, w, p))  BY CutOrdered
  <2>4. QED BY <2>1, <2>2, <2>3 DEF Ordered
<1> DEFINE a == SubSeq(w, 1, p - 1)
           b == SubSeq(w, p + 1, n)
           c == Cut(n, w, p)
<1>2. a \in Seq(Nodes) /\ Len(a) = p - 1 /\ \A k \in 1 .. p - 1 : a[k] = w[k]
  <2>1. \A k \in 1 .. p - 1 : w[k] \in Nodes  BY <1>1
  <2>2. /\ a \in Seq(Nodes) /\ Len(a) = IF 1 <= p - 1 THEN (p - 1) - 1 + 1 ELSE 0
        /\ \A k \in 1 .. (p - 1) - 1 + 1 : a[k] = w[1 + k - 1]
    BY <2>1, <1>1, SubSeqProperties
  <2> HIDE DEF a
  <2>3. (p - 1) - 1 + 1 = p - 1 /\ \A k \in 1 .. p - 1 : 1 + k - 1 = k  BY <1>1
  <2>4. QED BY <2>2, <2>3, <1>1
<1>3. b \in Seq(Nodes) /\ Len(b) = n - p /\ \A k \in 1 .. n - p : b[k] = w[p + k]
  <2>1. \A k \in p + 1 .. n : w[k] \in Nodes  BY <1>1
  <2>2. /\ b \in Seq(Nodes) /\ Len(b) = IF p + 1 <= n THEN n - (p + 1) + 1 ELSE 0
        /\ \A k \in 1 .. n - (p + 1) + 1 : b[k] = w[(p + 1) + k - 1]
    BY <2>1, <1>1, SubSeqProperties
  <2> HIDE DEF b
  <2>3. n - (p + 1) + 1 = n - p /\ \A k \in 1 .. n - p : (p + 1) + k - 1 = p + k  BY <1>1
  <2>4. QED BY <2>2, <2>3, <1>1
<1>4. RemoveAt(w, p) = a \o b  BY <1>1 DEF RemoveAt
<1> HIDE DEF a, b
<1>5. /\ a \o b \in Seq(Nodes) /\ Len(a \o b) = Len(a) + Len(b)
      /\ \A k \in 1 .. Len(a) + Len(b) : (a \o b)[k] = IF k <= Len(a) THEN a[k] ELSE b[k - Len(a)]
  BY <1>2, <1>3, ConcatProperties
<1>6. c \in Seq(Nodes) /\ Len(c) = n - 1  BY <1>1, LenIs
<1>7. Len(a \o b) = n - 1  BY <1>1, <1>2, <1>3, <1>5
<1>8. ASSUME NEW k \in 1 .. n - 1 PROVE (a \o b)[k] = c[k]
  <2>1. (a \o b)[k] = IF k <= p - 1 THEN a[k] ELSE b[k - (p - 1)]  BY <1>1, <1>2, <1>3, <1>5
  <2>2. c[k] = IF k < p THEN w[k] ELSE w[k + 1]  BY DEF Cut
  <2> HIDE DEF c
  <2>3. CASE k < p
    <3>1. k \in 1 .. p - 1  BY <2>3, <1>1
    <3>2. QED BY <3>1, <2>1, <2>2, <1>1, <1>2
  <2>4. CASE k >= p
    <3> DEFINE j == k - (p - 1)
    <3>1. j \in 1 .. n - p /\ p + j = k + 1 /\ ~(k <= p - 1) /\ ~(k < p)  BY <2>4, <1>1
    <3>2. (a \o b)[k] = b[j] /\ c[k] = w[k + 1]  BY <3>1, <2>1, <2>2
    <3> HIDE DEF j
    <3>3. QED BY <3>1, <3>2, <1>3
  <2>5. k < p \/ k >= p  BY <1>1
  <2>6. QED BY <2>3, <2>4, <2>5, Zenon
<1> HIDE DEF c
<1>9. a \o b = c  BY <1>5, <1>6, <1>7, <1>8, SeqEqual
<1>10. QED BY <1>4, <1>9 DEF c

LEMMA AddedIs ==
    ASSUME NEW n, NEW w, Ordered(n, w), NEW x \in Nodes, \A k \in 1 .. n : w[k] # x
    PROVE  AtBack(n, w, x) = Append(w, x) /\ AtFront(n, w, x) = <<x>> \o w
<1>1. w \in Seq(Nodes) /\ Len(w) = n /\ n \in Nat /\ n + 1 \in Nat  BY RowIsSeq
<1>2. AtBack(n, w, x) \in [1 .. n + 1 -> Nodes] /\ AtFront(n, w, x) \in [1 .. n + 1 -> Nodes]
  BY AddedOrdered DEF Ordered
<1>3. /\ AtBack(n, w, x) \in Seq(Nodes) /\ Len(AtBack(n, w, x)) = n + 1
      /\ AtFront(n, w, x) \in Seq(Nodes) /\ Len(AtFront(n, w, x)) = n + 1
  BY <1>1, <1>2, LenIs
<1>4. AtBack(n, w, x) = Append(w, x)
  <2> DEFINE c == AtBack(n, w, x)
             d == Append(w, x)
  <2>1. d \in Seq(Nodes) /\ Len(d) = n + 1 /\ d[n + 1] = x /\ \A k \in 1 .. n : d[k] = w[k]
    BY <1>1, AppendProperties
  <2>2. \A k \in 1 .. n + 1 : c[k] = IF k <= n THEN w[k] ELSE x  BY DEF AtBack
  <2>3. c \in Seq(Nodes) /\ Len(c) = n + 1  BY <1>3
  <2> HIDE DEF c, d
  <2>4. \A k \in 1 .. n + 1 : c[k] = d[k]  BY <2>1, <2>2, <1>1
  <2>5. c = d  BY <2>1, <2>3, <2>4, SeqEqual
  <2>6. QED BY <2>5 DEF c, d
<1>5. AtFront(n, w, x) = <<x>> \o w
  <2> DEFINE c == AtFront(n, w, x)
             d == <<x>> \o w
  <2>1. <<x>> \in Seq(Nodes) /\ Len(<<x>>) = 1 /\ <<x>>[1] = x  OBVIOUS
  <2>2. /\ d \in Seq(Nodes) /\ Len(d) = 1 + n
        /\ \A k \in 1 .. 1 + n : d[k] = IF k <= 1 THEN <<x>>[k] ELSE w[k - 1]
    BY <2>1, <1>1, ConcatProperties
  <2>3. \A k \in 1 .. n + 1 : c[k] = IF k = 1 THEN x ELSE w[k - 1]  BY DEF AtFront
  <2>4. c \in Seq(Nodes) /\ Len(c) = n + 1  BY <1>3
  <2> HIDE DEF c, d
  <2>5. \A k \in 1 .. n + 1 : c[k] = d[k]
    <3>1. \A k \in 1 .. n + 1 : k \in 1 .. 1 + n /\ (k <= 1 <=> k = 1)  BY <1>1
    <3>2. QED BY <3>1, <2>1, <2>2, <2>3
  <2>6. Len(c) = Len(d)  BY <2>2, <2>4, <1>1
  <2>7. c = d  BY <2>2, <2>4, <2>5, <2>6, SeqEqual
  <2>8. QED BY <2>7 DEF c, d
<1>6. QED BY <1>4, <1>5

(* What NodeLists sees.                                                     *)
Orders == [l \in Lists |-> Forward(l)]

LEMMA RowContents ==
    ASSUME NEW l \in Lists, NEW n, NEW w, OnRow(l, n, w) PROVE Orders[l] = w
BY RowWalks DEF Orders
LEMMA RowContentsNext ==
    ASSUME NEW l \in Lists, NEW n, NEW w, OnRow(l, n, w)' PROVE Orders'[l] = w
<1>1. /\ n \in Nat /\ w \in [1 .. n -> Nodes] /\ n <= NbNodes
      /\ first'[l] = Place(n, w, 1) /\ \A k \in 1 .. n : next'[w[k]] = Place(n, w, k + 1)
  BY RowFits DEF OnRow, Row, Ordered
<1>2. Forward(l)' = w
  <2>1. Walk(next', first'[l]) = w  BY <1>1, WalkIs
  <2>2. QED BY <2>1 DEF Forward
<1>3. QED BY <1>2 DEF Orders

LEMMA SequencesBegin == ListInit => Sequential!Init
<1> SUFFICES ASSUME ListInit PROVE Sequential!Init  OBVIOUS
<1>1. /\ ListTypes /\ Pool \in Lists
      /\ OnRow(Pool, NbNodes, [k \in Nodes |-> k]) /\ \A l \in Lists \ {Pool} : OnRow(l, 0, <<>>)
  BY Built, NodesNotNull
<1>2. \A l \in Lists \ {Pool} : Orders[l] = <<>>  BY <1>1, RowContents
<1> DEFINE w == [k \in Nodes |-> k]
<1>3. Orders[Pool] = w  BY <1>1, RowContents
<1>4. DOMAIN w = Nodes /\ \A k \in Nodes : w[k] = k  OBVIOUS
<1> HIDE DEF w
<1>5. {w[k] : k \in DOMAIN w} = Nodes /\ \A j, k \in DOMAIN w : w[j] = w[k] => j = k  BY <1>4
<1>6. QED BY <1>2, <1>3, <1>5
         DEF Sequential!Init, Sequential!ToSet, Sequential!IsInjective, Orders

(* A move of one node is a move of NodeLists.                               *)
LEMMA SequencesMove ==
    ASSUME ListsInv, NEW x, NEW src, NEW dst, NEW back, Moves(x, src, dst, back)
    PROVE  Orders' # Orders /\ \E k \in DOMAIN Orders[src] : Sequential!Move(src, k, dst, back)
<1>1. /\ src \in Lists /\ dst \in Lists /\ src # dst /\ x \in Nodes /\ parent[x] = src /\ back \in BOOLEAN
  BY DEF Moves
<1>2. PICK n, w, p, m, v :
         /\ OnRow(src, n, w) /\ p \in 1 .. n /\ w[p] = x /\ OnRow(dst, m, v)
         /\ OnRow(src, n - 1, Cut(n, w, p))' /\ OnRow(dst, m + 1, Added(m, v, x, back))'
  BY MoveOrders
<1>3. /\ Orders[src] = w /\ Orders[dst] = v
      /\ Orders'[src] = Cut(n, w, p) /\ Orders'[dst] = Added(m, v, x, back)
  BY <1>1, <1>2, RowContents, RowContentsNext
<1>4. ASSUME NEW l \in Lists \ {src, dst} PROVE Orders'[l] = Orders[l]
  <2>1. PICK k, u : OnRow(l, k, u)  BY DEF ListsInv
  <2>2. OnRow(l, k, u)'  BY <2>1, MoveOrders
  <2>3. QED BY <2>1, <2>2, RowContents, RowContentsNext
<1>5. Ordered(n, w) /\ Ordered(m, v)  BY <1>2 DEF OnRow, Row
<1>6. \A k \in 1 .. m : v[k] # x
  <2>1. x \notin Members(m, v)  BY <1>1, <1>2 DEF OnRow
  <2>2. QED BY <2>1 DEF Members
<1>7. Cut(n, w, p) = RemoveAt(w, p)  BY <1>2, <1>5, CutIsRemoveAt
<1>8. Added(m, v, x, back) = IF back THEN Append(v, x) ELSE <<x>> \o v
  BY <1>1, <1>5, <1>6, AddedIs DEF Added
<1>9. p \in DOMAIN w  BY <1>2, <1>5 DEF Ordered
<1>10. Orders' = [Orders EXCEPT ![src] = RemoveAt(@, p),
                                    ![dst] = IF back THEN Append(@, Orders[src][p])
                                             ELSE <<Orders[src][p]>> \o @]
  <2> DEFINE F == [Orders EXCEPT ![src] = RemoveAt(@, p),
                                   ![dst] = IF back THEN Append(@, Orders[src][p])
                                            ELSE <<Orders[src][p]>> \o @]
  <2>1. DOMAIN Orders = Lists /\ DOMAIN Orders' = Lists /\ DOMAIN F = Lists  BY DEF Orders
  <2>2. /\ F[src] = RemoveAt(Orders[src], p)
        /\ F[dst] = IF back THEN Append(Orders[dst], Orders[src][p])
                    ELSE <<Orders[src][p]>> \o Orders[dst]
        /\ \A l \in Lists \ {src, dst} : F[l] = Orders[l]
    BY <2>1, <1>1
  <2> HIDE DEF F
  <2>3. Orders'[src] = F[src]  BY <2>2, <1>3, <1>7
  <2>4. Orders'[dst] = F[dst]  BY <2>2, <1>2, <1>3, <1>8
  <2>5. \A l \in Lists : Orders'[l] = F[l]  BY <2>2, <2>3, <2>4, <1>4
  <2>6. Orders' = [l \in Lists |-> Orders'[l]] /\ F = [l \in Lists |-> F[l]]
    <3>1. Orders' = [l \in Lists |-> Orders'[l]]  BY DEF Orders
    <3>2. F = [l \in Lists |-> F[l]]
      <4>1. \A y, z : [Orders EXCEPT ![src] = y, ![dst] = z]
                        = [l \in Lists |-> [Orders EXCEPT ![src] = y, ![dst] = z][l]]
        BY <2>1
      <4>2. QED BY <4>1 DEF F
    <3>3. QED BY <3>1, <3>2
  <2>7. QED BY <2>5, <2>6 DEF F
<1>11. Orders' # Orders
  <2>1. OnRow(src, n - 1, Cut(n, w, p))'  BY <1>2
  <2>2. n \in Nat /\ Len(w) = n /\ Len(Cut(n, w, p)) = n - 1
    <3>1. Ordered(n - 1, Cut(n, w, p))  BY <2>1 DEF OnRow, Row
    <3>2. QED BY <3>1, <1>5, RowIsSeq
  <2>3. w # Cut(n, w, p)  BY <2>2
  <2>4. QED BY <2>3, <1>3
<1>12. Sequential!Move(src, p, dst, back)
  BY <1>1, <1>10 DEF Sequential!Move, Sequential!RemoveAt, RemoveAt, Orders
<1>13. QED BY <1>3, <1>9, <1>11, <1>12

LEMMA SequencesStep == ListsInv /\ [ListNext]_lvars => [Sequential!Next]_Orders
<1> SUFFICES ASSUME ListsInv, [ListNext]_lvars PROVE [Sequential!Next]_Orders  OBVIOUS
<1>1. CASE Steady  BY <1>1 DEF Steady, Orders, Forward
<1>2. ASSUME NEW x, NEW src, NEW dst, NEW back, Moves(x, src, dst, back) PROVE Sequential!Next
  <2>1. src \in Lists /\ dst \in Lists /\ back \in BOOLEAN  BY <1>2 DEF Moves
  <2>2. Orders' # Orders /\ \E k \in DOMAIN Orders[src] : Sequential!Move(src, k, dst, back)
    BY <1>2, SequencesMove
  <2>3. QED BY <2>1, <2>2 DEF Sequential!Next, Orders
<1>3. QED BY <1>1, <1>2, StepMoves DEF ListsInv

(* The pointers implement sequences: moveNode takes a node out of one and   *)
(* puts it at an end of another, and no other node moves.                   *)
THEOREM PointersImplementLists == ListsSpec => ImplementsLists
<1>1. ListsSpec => []ListsInv  BY ListsBegin, ListsStep, PTL DEF ListsSpec
<1>2. ListsInv /\ [ListNext]_lvars => [Sequential!Next]_[l \in Lists |-> Forward(l)]
  BY SequencesStep DEF Orders
<1>3. QED BY <1>1, <1>2, SequencesBegin, PTL DEF ListsSpec, ImplementsLists, Sequential!Spec
=============================================================================
