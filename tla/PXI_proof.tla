------------------------------ MODULE PXI_proof ------------------------------
(***************************************************************************)
(* Proofs about PXI, for any services, any number of static buffers and    *)
(* any number of commands: sessions, static buffers and the flow of        *)
(* commands are right whatever is sent; that no svcBreak is reached, and   *)
(* that the commands pending are counted, holds when command 5 of pxi:mc   *)
(* is sent with consideration.                                             *)
(***************************************************************************)
EXTENDS PXI, FiniteSetTheorems, FunctionTheorems, WellFoundedInduction, TLAPS

(* A session that has no client is closed.  What is being done for a        *)
(* session, its client waits for, or has gone away from; once pxi ends,     *)
(* only session 0 is busy, with the command that says so.                   *)
Answering(i) == sender.pc \in {"send", "reply"} /\ sender.replyTarget = i
SessionsOK ==
    /\ \A i \in Services : i \in open <=> client[i] \notin {"absent", "connecting"}
    /\ \A i \in Services : (state[i] # "idle" /\ (shouldTerminate => i # 0)) \/ Answering(i)
                              => client[i] \in {"waiting", "gone"}
    /\ \A i \in Services : Answering(i) => state[i] = "idle"
    /\ \A i \in Services : shouldTerminate => client[i] \in {"absent", "quiet"}
    /\ shouldTerminate => state[0] \in {"to arm9", "from arm9"}
    /\ terminationRequestedEvent => shouldTerminate
    /\ mainThread = "serve" => ~shouldTerminate

(* What Process9 has is what the sessions wait for.                         *)
In(s, i) == \E k \in DOMAIN s : s[k] = i
Once(s) == \A j, k \in DOMAIN s : s[j] = s[k] => j = k
Sent(i) == In(fromArm9, i)
FlowOK ==
    /\ Once(fromArm9)
    /\ \A i \in All : arm9[i] \in {0, 1} /\ (Sent(i) => arm9[i] = 0)
    /\ \A i \in Services : arm9[i] = 1 \/ Sent(i) <=> state[i] = "to arm9"
ReplyCounted == replySemaphore = IF shouldTerminate THEN 0 ELSE Cardinality(Replied)

(* pxi:srv11: a command is on its way, or being handled.                    *)
Srv11OK ==
    /\ arm9[Srv11] = 1 \/ Sent(Srv11) <=> state[Srv11] # "from arm9"
    /\ \/ /\ srv11Handler = "start" /\ receiver = "start" /\ state[Srv11] = "idle"
          /\ ~PXISRV11ReplySentEvent /\ ~PXISRV11CommandReceivedEvent
       \/ /\ srv11Handler # "start" /\ receiver \in {"start", "srv11"} /\ state[Srv11] = "to arm9"
          /\ PXISRV11ReplySentEvent /\ ~PXISRV11CommandReceivedEvent
       \/ /\ srv11Handler # "start" /\ receiver \in {"wait", "ended"} /\ state[Srv11] = "to arm9"
          /\ ~PXISRV11ReplySentEvent /\ ~PXISRV11CommandReceivedEvent
       \/ /\ srv11Handler # "start" /\ receiver = "srv11" /\ state[Srv11] = "from arm9"
          /\ ~PXISRV11ReplySentEvent /\ PXISRV11CommandReceivedEvent

(* Command 5 of pxi:mc is alone, from when it is sent to when sending is    *)
(* enabled again.                                                           *)
Five == kind[0] # "other" /\ (client[0] = "sent" \/ (state[0] # "idle" /\ ~shouldTerminate))
Pending == {i \in Services : state[i] \in {"to arm9", "from arm9"}}
Latest(i) ==
    /\ kind[i] = "other" => latest_PXI_MC5_val = 0 /\ ~sendingDisabled
    /\ kind[i] = "stop" => latest_PXI_MC5_val = 1 /\ sendingDisabled
    /\ kind[i] = "go on" => latest_PXI_MC5_val = 2 /\ sendingDisabled
Mode ==
    /\ \A i \in Services : kind[i] # "other" => i = 0
    /\ Five \/ sendingDisabled =>
          /\ pendingArm9Commands = 0
          /\ \A i \in Services : i # 0 => state[i] = "idle" /\ client[i] # "sent"
          /\ kind[0] = "other" => client[0] # "sent" /\ (state[0] = "idle" \/ shouldTerminate)
    /\ client[0] = "sent" => /\ kind[0] = "stop" => ~sendingDisabled
                             /\ kind[0] = "go on" => sendingDisabled
    /\ ~shouldTerminate => \A i \in Services : state[i] # "idle" => Latest(i)
    /\ shouldTerminate => pendingArm9Commands = 0
    /\ PendingCounted
ProvidedFit == Cardinality(currentlyProvidedStaticBuffers) <= Slots
Places == {"idle", "from arm11", "to arm9", "from arm9"}
FlowTypes ==
    /\ state \in [All -> Places]
    /\ arm9 \in [All -> Nat] /\ fromArm9 \in Seq(All)
SessionTypes ==
    /\ open \in SUBSET Services
    /\ client \in [Services -> {"absent", "connecting", "quiet", "sent", "waiting", "gone"}]
    /\ kind \in [Services -> {"other", "stop", "go on"}]
    /\ sender \in [pc : {"send", "reply", "wait", "ended"}, replyTarget : Services \cup {None}]
BufferTypes ==
    /\ used \in [Services -> SUBSET (1 .. NbBuffers)]
    /\ freeStaticBuffers \in SUBSET (1 .. NbBuffers)
    /\ currentlyProvidedStaticBuffers \in SUBSET (1 .. NbBuffers)
CountTypes == latest_PXI_MC5_val \in 0 .. 2 /\ pendingArm9Commands \in Int /\ replySemaphore \in Nat
Types == FlowTypes /\ SessionTypes /\ BufferTypes /\ CountTypes

(* What holds whatever is sent, and what holds if it is sent with           *)
(* consideration.                                                           *)
Buffers == BuffersOwned /\ ProvidedFit
Base == Types /\ SessionsOK /\ FlowOK /\ ReplyCounted /\ Srv11OK /\ Buffers

-----------------------------------------------------------------------------
(* Numbers and sets of numbers.                                             *)

LEMMA Constants ==
    /\ 0 \in Services /\ Services \subseteq Nat /\ IsFiniteSet(Services)
    /\ Srv11 \notin Services /\ None \notin All /\ Services \subseteq All /\ Srv11 \in All
    /\ Needs \in [Services -> 0 .. Slots] /\ NbBuffers \in Nat /\ Slots \in Nat
BY PXIAssumption DEF All, None

(* The least-number principle, from the well-foundedness of inclusion.      *)
LEMMA Least == ASSUME NEW S \in SUBSET Nat, S # {} PROVE Min(S) \in S
<1> DEFINE below(n) == 0 .. n - 1
           R == StrictSubsetOrdering(Nat)
           T == {below(n) : n \in S}
<1>1. IsWellFoundedOn(R, FiniteSubsetsOf(Nat))
  BY FS_StrictSubsetOrderingWellFounded
<1>2. T \subseteq FiniteSubsetsOf(Nat) /\ T # {}
  <2>1. ASSUME NEW n \in S PROVE below(n) \in FiniteSubsetsOf(Nat)
    <3>1. IsFiniteSet(below(n))
      BY FS_Interval
    <3>2. below(n) \in SUBSET Nat
      OBVIOUS
    <3> HIDE DEF below
    <3> QED BY <3>1, <3>2 DEF FiniteSubsetsOf
  <2> QED BY <2>1
<1>3. PICK t \in T : \A u \in T : <<u, t>> \notin R
  <2> HIDE DEF R, T
  <2> QED BY <1>1, <1>2, WFMin
<1>4. PICK m \in S : t = below(m)
  OBVIOUS
<1>5. ASSUME NEW k \in S, k < m PROVE FALSE
  <2>1. below(k) \in T /\ below(m) \in SUBSET Nat /\ below(k) \in SUBSET Nat
    OBVIOUS
  <2>2. below(k) \subseteq below(m) /\ below(k) # below(m)
    <3>1. k \in below(m) /\ k \notin below(k)
      BY <1>5
    <3> QED BY <1>5, <3>1
  <2>3. <<below(k), below(m)>> \in R
    <3> HIDE DEF below
    <3> QED BY <2>1, <2>2 DEF StrictSubsetOrdering
  <2> QED BY <1>3, <1>4, <2>1, <2>3
<1>6. \A k \in S : m <= k
  BY <1>5
<1> QED BY <1>6 DEF Min

LEMMA Interval ==
    ASSUME NEW a \in Nat, NEW b \in Nat, a <= b
    PROVE  IsFiniteSet(a .. b - 1) /\ Cardinality(a .. b - 1) = b - a
<1>1. a \in Int /\ b - 1 \in Int
  OBVIOUS
<1>2. /\ IsFiniteSet(a .. b - 1)
      /\ Cardinality(a .. b - 1) = IF a > b - 1 THEN 0 ELSE b - 1 - a + 1
  BY <1>1, FS_Interval
<1>3. (IF a > b - 1 THEN 0 ELSE b - 1 - a + 1) = b - a
  OBVIOUS
<1> QED BY <1>2, <1>3

(* clearMSBs takes the n highest of a set, or all of it.                    *)
LEMMA Cleared ==
    ASSUME NEW S \in SUBSET Nat, IsFiniteSet(S), NEW n \in Nat
    PROVE  /\ clearMSBs(S, n) \in SUBSET S
           /\ Cardinality(S \ clearMSBs(S, n)) <= n
           /\ n <= Cardinality(S) => Cardinality(clearMSBs(S, n)) = Cardinality(S) - n
<1> DEFINE N == Cardinality(S)
           above(x) == {y \in S : y > x}
           r == [x \in S |-> Cardinality(above(x))]
           C == clearMSBs(S, n)
<1>1. N \in Nat /\ \A x \in S : IsFiniteSet(above(x)) /\ Cardinality(above(x)) \in Nat
  BY FS_CardinalityType, FS_Subset
<1>2. ASSUME NEW x \in S PROVE r[x] \in 0 .. N - 1
  <2>1. above(x) \in SUBSET (S \ {x})
    OBVIOUS
  <2>2. IsFiniteSet(S \ {x}) /\ Cardinality(S \ {x}) = N - 1
    BY FS_RemoveElement
  <2>3. Cardinality(above(x)) <= N - 1
    <3> HIDE DEF above, N
    <3> QED BY <2>1, <2>2, FS_Subset
  <2> QED BY <1>1, <2>3
<1>3. ASSUME NEW x \in S, NEW y \in S, x < y PROVE r[y] < r[x]
  <2>1. above(y) \in SUBSET (above(x) \ {y}) /\ y \in above(x)
    <3>1. \A z \in S : z > y => z > x /\ z # y
      BY <1>3
    <3> QED BY <1>3, <3>1
  <2>2. /\ IsFiniteSet(above(x) \ {y})
        /\ Cardinality(above(x) \ {y}) = Cardinality(above(x)) - 1
    <3> HIDE DEF above
    <3> QED BY <1>1, <2>1, FS_RemoveElement
  <2>3. Cardinality(above(y)) <= Cardinality(above(x)) - 1
    <3> HIDE DEF above
    <3> QED BY <2>1, <2>2, FS_Subset
  <2> QED BY <1>1, <2>3
<1>4. \A x, y \in S : r[x] = r[y] => x = y
  <2> SUFFICES ASSUME NEW x \in S, NEW y \in S, r[x] = r[y], x # y PROVE FALSE
    OBVIOUS
  <2>1. r[x] \in Nat /\ r[y] \in Nat
    BY <1>1
  <2>2. x < y \/ y < x
    OBVIOUS
  <2> HIDE DEF r
  <2> QED BY <1>3, <2>1, <2>2
<1>5. r \in Surjection(S, 0 .. N - 1)
  <2>1. r \in Injection(S, 0 .. N - 1)
    <3>1. r \in [S -> 0 .. N - 1]
      BY <1>2
    <3> HIDE DEF r
    <3> QED BY <1>4, <3>1, Fun_IsInj
  <2>2. IsFiniteSet(0 .. N - 1) /\ Cardinality(0 .. N - 1) = N
    BY <1>1, Interval
  <2> HIDE DEF r
  <2> QED BY <2>1, <2>2, FS_Injection
<1>6. C = {x \in S : r[x] >= n}
  BY DEF clearMSBs
<1>9. \A x \in S : r[x] \in 0 .. N - 1
  BY <1>2
<1> HIDE DEF r, N, C
<1>7. ASSUME n <= N PROVE Cardinality(C) = N - n
  <2> DEFINE f == [x \in C |-> r[x]]
  <2>1. f \in [C -> n .. N - 1]
    <3>1. \A x \in C : r[x] \in n .. N - 1
      BY <1>1, <1>6, <1>9
    <3> QED BY <3>1
  <2>2. \A x, y \in C : f[x] = f[y] => x = y
    BY <1>4, <1>6
  <2>3. \A t \in n .. N - 1 : \E x \in C : f[x] = t
    <3>1. ASSUME NEW t \in n .. N - 1 PROVE \E x \in C : f[x] = t
      <4>1. t \in 0 .. N - 1 /\ t >= n
        BY <1>1
      <4>2. \A u \in 0 .. N - 1 : \E x \in S : r[x] = u
        <5> DEFINE I == 0 .. N - 1
        <5> HIDE DEF I
        <5>1. r \in Surjection(S, I)
          BY <1>5 DEF I
        <5>2. \A u \in I : \E x \in S : r[x] = u
          BY <5>1 DEF Surjection
        <5> QED BY <5>2 DEF I
      <4>3. PICK x \in S : r[x] = t
        BY <4>1, <4>2
      <4> QED BY <1>6, <4>1, <4>3
    <3> QED BY <3>1
  <2>4. IsFiniteSet(n .. N - 1) /\ Cardinality(n .. N - 1) = N - n
    BY <1>1, <1>7, Interval
  <2>5. f \in Injection(C, n .. N - 1) /\ f \in Surjection(C, n .. N - 1)
    <3> HIDE DEF f
    <3> QED BY <2>1, <2>2, <2>3, Fun_IsInj, Fun_IsSurj
  <2> HIDE DEF f
  <2> QED BY <2>4, <2>5, FS_Injection
<1>8. Cardinality(S \ C) <= n
  <2> DEFINE f == [x \in S \ C |-> r[x]]
  <2>1. f \in [S \ C -> 0 .. n - 1]
    <3>1. \A x \in S \ C : r[x] \in 0 .. n - 1
      BY <1>1, <1>6, <1>9
    <3> QED BY <3>1
  <2>2. \A x, y \in S \ C : f[x] = f[y] => x = y
    BY <1>4
  <2>3. IsFiniteSet(0 .. n - 1) /\ Cardinality(0 .. n - 1) = n
    BY Interval
  <2>4. f \in Injection(S \ C, 0 .. n - 1)
    <3> HIDE DEF f
    <3> QED BY <2>1, <2>2, Fun_IsInj
  <2> HIDE DEF f
  <2> QED BY <2>3, <2>4, FS_Injection
<1> QED BY <1>6, <1>7, <1>8 DEF N, C

-----------------------------------------------------------------------------
(* The steps.                                                               *)

(* The sender takes the reply of session i; the receiver gets what was sent *)
(* for session i.                                                           *)
Takes(i) ==
    /\ state[i] = "from arm9" /\ (latest_PXI_MC5_val = 2 => pendingArm9Commands = 0)
    /\ sender.pc = "wait" /\ replySemaphore > 0 /\ replySemaphore' = replySemaphore - 1
    /\ sendingDisabled' = (sendingDisabled /\ latest_PXI_MC5_val # 2)
    /\ pendingArm9Commands' = PendingAfterReply
    /\ freeStaticBuffers' = freeStaticBuffers \cup used[i]
    /\ used' = [used EXCEPT ![i] = {}]
    /\ state' = [state EXCEPT ![i] = "idle"]
    /\ sender' = [pc |-> "send", replyTarget |-> i]
    /\ UNCHANGED <<open, currentlyProvidedStaticBuffers, scarce, latest_PXI_MC5_val,
                   sendAllBuffersToArm9Event, srv11Events, ending, threads, panicked,
                   clients, arm9, fromArm9>>
LEMMA TakesOne ==
    ASSUME SenderTakesReply
    PROVE  \/ Panicking /\ (Replied = {} \/ (latest_PXI_MC5_val = 2 /\ pendingArm9Commands # 0))
           \/ \E i \in Services : Takes(i)
<1>1. Replied # {} => Min(Replied) \in Replied
  <2>1. Replied \in SUBSET Nat
    BY Constants DEF Replied
  <2> QED BY <2>1, Least
<1>2. ASSUME Replied # {}, ~(latest_PXI_MC5_val = 2 /\ pendingArm9Commands # 0)
      PROVE  Takes(Min(Replied)) /\ Min(Replied) \in Services
  <2>1. state[Min(Replied)] = "from arm9" /\ Min(Replied) \in Services
    BY <1>1, <1>2, Zenon DEF Replied
  <2>2. /\ latest_PXI_MC5_val = 2 => pendingArm9Commands = 0
        /\ sender.pc = "wait" /\ replySemaphore > 0
    BY <1>2, Zenon DEF SenderTakesReply, At
  <2> DEFINE i == Min(Replied)
  <2>3. /\ replySemaphore' = replySemaphore - 1
        /\ sendingDisabled' = (sendingDisabled /\ latest_PXI_MC5_val # 2)
        /\ pendingArm9Commands' = PendingAfterReply
        /\ freeStaticBuffers' = freeStaticBuffers \cup used[i]
        /\ used' = [used EXCEPT ![i] = {}]
        /\ state' = [state EXCEPT ![i] = "idle"]
        /\ sender' = [pc |-> "send", replyTarget |-> i]
        /\ UNCHANGED <<open, currentlyProvidedStaticBuffers, scarce, latest_PXI_MC5_val,
                   sendAllBuffersToArm9Event, srv11Events, ending, threads, panicked,
                   clients, arm9, fromArm9>>
    BY <1>2, Zenon DEF SenderTakesReply
  <2> QED BY <2>1, <2>2, <2>3, Zenon DEF Takes
<1>3. CASE Replied = {} \/ (latest_PXI_MC5_val = 2 /\ pendingArm9Commands # 0)
  BY <1>3, Zenon DEF SenderTakesReply
<1> QED BY <1>2, <1>3, Zenon

Gets(i) ==
    /\ state[i] = "to arm9" /\ receiver = "wait" /\ ~panicked
    /\ fromArm9 # <<>> /\ i = fromArm9[1] /\ fromArm9' = Tail(fromArm9)
    /\ state' = [state EXCEPT ![i] = "from arm9"]
    /\ \/ /\ Ends(i)
          /\ terminationRequestedEvent' = TRUE
          /\ UNCHANGED <<replySemaphore, PXISRV11CommandReceivedEvent, receiver>>
       \/ /\ i # Srv11 /\ ~Ends(i)
          /\ replySemaphore' = replySemaphore + 1
          /\ UNCHANGED <<terminationRequestedEvent, PXISRV11CommandReceivedEvent, receiver>>
       \/ /\ i = Srv11
          /\ PXISRV11CommandReceivedEvent' = TRUE
          /\ receiver' = "srv11"
          /\ UNCHANGED <<terminationRequestedEvent, replySemaphore>>
    /\ UNCHANGED <<open, used, buffers, mc5, sendAllBuffersToArm9Event, PXISRV11ReplySentEvent,
                   shouldTerminate, sender, srv11Handler, mainThread, panicked, clients, arm9>>
LEMMA GetsOne ==
    ASSUME FlowTypes, ReceiverGets
    PROVE  \/ Panicking /\ state[fromArm9[1]] # "to arm9" /\ fromArm9 # <<>>
           \/ \E i \in All : Gets(i)
<1>1. fromArm9 \in Seq(All) /\ fromArm9 # <<>> /\ Head(fromArm9) = fromArm9[1]
  <2>1. fromArm9 \in Seq(All) /\ fromArm9 # <<>>
    BY Zenon DEF FlowTypes, ReceiverGets
  <2> QED BY <2>1
<1>2. fromArm9[1] \in All
  BY <1>1
<1>3. CASE state[Head(fromArm9)] # "to arm9"
  BY <1>1, <1>3, Zenon DEF ReceiverGets
<1>4. CASE state[Head(fromArm9)] = "to arm9"
  <2>1. Gets(Head(fromArm9))
    BY <1>1, <1>4, Zenon DEF ReceiverGets, Gets
  <2> QED BY <1>1, <1>2, <2>1, Zenon
<1> QED BY <1>3, <1>4

(* The sender receives the command of session i.                            *)
Receives(i) ==
    /\ i \in open /\ state[i] = "idle" /\ client[i] = "sent" /\ sender.pc = "wait"
    /\ kind[i] = "stop" => ~sendingDisabled
    /\ kind[i] = "go on" => sendingDisabled
    /\ kind[i] = "other" => latest_PXI_MC5_val' = 0
    /\ kind[i] = "stop" => latest_PXI_MC5_val' = 1
    /\ kind[i] = "go on" => latest_PXI_MC5_val' = 2
    /\ sendingDisabled' = (sendingDisabled \/ kind[i] = "stop")
    /\ used' = [used EXCEPT ![i] = Kept(i)]
    /\ i \notin scarce' => ~(Cardinality(currentlyProvidedStaticBuffers) < Slots)
    /\ \A j \in Services \ {i} : j \in scarce' <=> j \in scarce
    /\ Acquire(freeStaticBuffers \cup (currentlyProvidedStaticBuffers \ Kept(i)))
    /\ state' = [state EXCEPT ![i] = "from arm11"]
    /\ client' = [client EXCEPT ![i] = "waiting"]
    /\ sender' = [pc |-> "send", replyTarget |-> None]
    /\ UNCHANGED <<open, pendingArm9Commands, sendAllBuffersToArm9Event, replySemaphore,
                   srv11Events, ending, threads, panicked, kind, commands, arm9, fromArm9>>
LEMMA ReceivesOne ==
    ASSUME NEW i \in Services, SenderReceives(i)
    PROVE  \/ /\ Panicking /\ client[i] = "sent"
              /\ \/ kind[i] = "stop" /\ sendingDisabled
                 \/ kind[i] = "go on" /\ ~sendingDisabled
           \/ Receives(i)
<1> DEFINE wrong == \/ kind[i] = "stop" /\ sendingDisabled
                    \/ kind[i] = "go on" /\ ~sendingDisabled
<1>1. i \in open /\ state[i] = "idle" /\ client[i] = "sent" /\ sender.pc = "wait"
  BY Zenon DEF SenderReceives, Idle, At
<1>2. CASE wrong
  BY <1>1, <1>2, Zenon DEF SenderReceives
<1>3. CASE ~wrong
  <2>1. /\ latest_PXI_MC5_val' = CASE kind[i] = "other" -> 0
                                   [] kind[i] = "stop" -> 1
                                   [] kind[i] = "go on" -> 2
        /\ sendingDisabled' = (sendingDisabled \/ kind[i] = "stop")
        /\ used' = [used EXCEPT ![i] = Kept(i)]
        /\ scarce' = IF Cardinality(currentlyProvidedStaticBuffers) < Slots
                     THEN scarce \cup {i} ELSE scarce \ {i}
        /\ Acquire(freeStaticBuffers \cup (currentlyProvidedStaticBuffers \ Kept(i)))
        /\ state' = [state EXCEPT ![i] = "from arm11"]
        /\ client' = [client EXCEPT ![i] = "waiting"]
        /\ sender' = [pc |-> "send", replyTarget |-> None]
        /\ UNCHANGED <<open, pendingArm9Commands, sendAllBuffersToArm9Event, replySemaphore,
                       srv11Events, ending, threads, panicked, kind, commands, arm9, fromArm9>>
    BY <1>3, Zenon DEF SenderReceives
  <2>2. /\ kind[i] = "other" => latest_PXI_MC5_val' = 0
        /\ kind[i] = "stop" => latest_PXI_MC5_val' = 1
        /\ kind[i] = "go on" => latest_PXI_MC5_val' = 2
    BY <2>1
  <2>3. /\ i \notin scarce' => ~(Cardinality(currentlyProvidedStaticBuffers) < Slots)
        /\ \A j \in Services \ {i} : j \in scarce' <=> j \in scarce
    <3>1. CASE Cardinality(currentlyProvidedStaticBuffers) < Slots
      <4>1. scarce' = scarce \cup {i}
        BY <2>1, <3>1, Zenon
      <4> QED BY <4>1, Zenon
    <3>2. CASE ~(Cardinality(currentlyProvidedStaticBuffers) < Slots)
      <4>1. scarce' = scarce \ {i}
        BY <2>1, <3>2, Zenon
      <4> QED BY <3>2, <4>1, Zenon
    <3> QED BY <3>1, <3>2
  <2>4. /\ kind[i] = "stop" => ~sendingDisabled
        /\ kind[i] = "go on" => sendingDisabled
    BY <1>3, Zenon
  <2> QED BY <1>1, <2>1, <2>2, <2>3, <2>4, Zenon DEF Receives
<1> QED BY <1>2, <1>3

(* The sender lets go of session i, whose client has gone.                  *)
Closes(i) ==
    /\ client[i] = "gone" /\ CloseSession(i)
    /\ \/ sender.pc = "wait" /\ Idle(i)
       \/ sender.pc = "reply" /\ sender.replyTarget = i
    /\ UNCHANGED <<state, used, buffers, mc5, sendAllBuffersToArm9Event, replySemaphore,
                   srv11Events, ending, threads, panicked, kind, commands, arm9, fromArm9>>
(* It replies to session i, or has nobody to reply to.                      *)
Replies(i) ==
    /\ sender.pc = "reply" /\ i = sender.replyTarget
    /\ client' = IF i = None THEN client ELSE [client EXCEPT ![i] = "quiet"]
    /\ sender' = [sender EXCEPT !.pc = "wait"]
    /\ UNCHANGED <<open, state, used, buffers, mc5, sendAllBuffersToArm9Event, replySemaphore,
                   srv11Events, ending, threads, panicked, kind, commands, arm9, fromArm9>>
LEMMA RepliesOne ==
    ASSUME SessionTypes, SenderReplies
    PROVE  (\E i \in Services : Closes(i)) \/ \E i \in Services \cup {None} : Replies(i)
<1>1. sender.pc = "reply" /\ sender.replyTarget \in Services \cup {None}
  <2>1. sender.pc = "reply"
    BY Zenon DEF SenderReplies, At
  <2>2. sender \in [pc : {"send", "reply", "wait", "ended"}, replyTarget : Services \cup {None}]
    BY Zenon DEF SessionTypes
  <2> QED BY <2>1, <2>2
<1>2. CASE sender.replyTarget # None /\ client[sender.replyTarget] = "gone"
  <2>1. Closes(sender.replyTarget)
    BY <1>1, <1>2, Zenon DEF SenderReplies, Closes
  <2> QED BY <1>1, <1>2, <2>1, Zenon
<1>3. CASE ~(sender.replyTarget # None /\ client[sender.replyTarget] = "gone")
  <2>1. Replies(sender.replyTarget)
    BY <1>1, <1>3, Zenon DEF SenderReplies, Replies
  <2> QED BY <1>1, <2>1, Zenon
<1> QED BY <1>2, <1>3

(* The sender sends the commands of sent, all or none, if it has nobody to  *)
(* reply to.                                                                *)
Sends(sent) ==
    /\ sender.replyTarget = None /\ (IF MaySend THEN sent = Ready ELSE sent = {})
    /\ state' = [i \in All |-> IF i \in sent THEN "to arm9" ELSE state[i]]
    /\ arm9' = [i \in All |-> IF i \in sent THEN arm9[i] + 1 ELSE arm9[i]]
    /\ pendingArm9Commands' = PendingAfter(sent)
SendsNone == sender.replyTarget # None /\ UNCHANGED <<state, pendingArm9Commands, arm9>>
LEMMA SendsOne ==
    ASSUME SenderSends
    PROVE  /\ SendsNone \/ \E sent \in {{}, Ready} : Sends(sent)
           /\ sender.pc = "send" /\ sender' = [sender EXCEPT !.pc = "reply"]
           /\ UNCHANGED <<open, used, buffers, latest_PXI_MC5_val, sendingDisabled,
                          sendAllBuffersToArm9Event, replySemaphore, srv11Events, ending, threads,
                          panicked, clients, fromArm9>>
<1> DEFINE sent == IF MaySend THEN Ready ELSE {}
<1>1. /\ sender.pc = "send" /\ sender' = [sender EXCEPT !.pc = "reply"]
      /\ UNCHANGED <<open, used, buffers, latest_PXI_MC5_val, sendingDisabled,
                     sendAllBuffersToArm9Event, replySemaphore, srv11Events, ending, threads,
                     panicked, clients, fromArm9>>
  BY Zenon DEF SenderSends, At
<1>2. CASE sender.replyTarget # None
  BY <1>1, <1>2, Zenon DEF SenderSends, SendsNone
<1>3. CASE sender.replyTarget = None
  <2>1. (MaySend => sent = Ready) /\ (~MaySend => sent = {})
    BY Zenon
  <2>2. /\ state' = [i \in All |-> IF i \in sent THEN "to arm9" ELSE state[i]]
        /\ arm9' = [i \in All |-> IF i \in sent THEN arm9[i] + 1 ELSE arm9[i]]
        /\ pendingArm9Commands' = PendingAfter(sent)
    BY <1>3, Zenon DEF SenderSends
  <2> HIDE DEF sent
  <2>3. Sends(sent) /\ sent \in {{}, Ready}
    BY <1>3, <2>1, <2>2, Zenon DEF Sends
  <2> QED BY <1>1, <2>3, Zenon
<1> QED BY <1>2, <1>3

-----------------------------------------------------------------------------
(* The types.                                                               *)
LEMMA SenderCounts ==
    ASSUME SessionTypes
    PROVE  /\ IsFiniteSet(Ready) /\ Cardinality(Ready) \in Nat /\ Ready \in SUBSET Services
           /\ Cardinality({}) = 0 /\ IsFiniteSet({})
<1>1. Ready \in SUBSET Services
  BY DEF SessionTypes, Ready
<1>2. IsFiniteSet(Ready)
  BY <1>1, Constants, FS_Subset
<1> QED BY <1>1, <1>2, FS_CardinalityType, FS_EmptySet

LEMMA TypesInit == PXIInit => Types
<1> SUFFICES ASSUME PXIInit PROVE Types
  OBVIOUS
<1>1. FlowTypes
  <2>1. fromArm9 \in Seq(All) /\ arm9 \in [All -> Nat]
    BY DEF PXIInit
  <2> QED BY <2>1 DEF PXIInit, FlowTypes, Places
<1>2. SessionTypes /\ CountTypes
  BY DEF PXIInit, SessionTypes, CountTypes
<1>3. BufferTypes
  BY DEF PXIInit, BufferTypes, clearMSBs
<1> QED BY <1>1, <1>2, <1>3 DEF Types

(* The commands on their way.                                               *)
LEMMA OneMore ==
    ASSUME NEW A, NEW f \in [A -> Nat], NEW i \in A
    PROVE  [f EXCEPT ![i] = f[i] + 1] \in [A -> Nat]
OBVIOUS

LEMMA FlowTypesStep == ASSUME Types, [Next]_vars PROVE FlowTypes'
<1> USE DEF FlowTypes, Places
<1>1. ASSUME UNCHANGED <<state, arm9, fromArm9>> PROVE FlowTypes'
  BY <1>1 DEF Types
<1>2. ASSUME \/ UNCHANGED vars \/ Panicking \/ SenderReplies \/ SenderTerminates \/ SenderIsAwoken
             \/ \E i \in Services : SenderSeesClosed(i) \/ Accept(i) \/ Connect(i) \/ Leave(i)
                                    \/ \E k \in {"other", "stop", "go on"} : Send(i, k)
             \/ ReceiverGoesOn \/ ReceiverTerminates \/ Srv11Terminates \/ Joined
      PROVE  FlowTypes'
  <2>1. UNCHANGED <<state, arm9, fromArm9>>
    BY <1>2, Zenon DEF vars, sessionVars, Panicking, SenderReplies, SenderTerminates,
       SenderIsAwoken, SenderSeesClosed, Accept, Connect, Leave, Send, ClientStep, ReceiverGoesOn,
       ReceiverTerminates, Srv11Terminates, Joined
  <2> QED BY <1>1, <2>1
<1>3. CASE SenderSends
  <2>1. ASSUME NEW sent \in {{}, Ready}, Sends(sent)
        PROVE  state' \in [All -> Places] /\ arm9' \in [All -> Nat]
    <3>1. /\ state \in [All -> Places] /\ arm9 \in [All -> Nat]
          /\ state' = [i \in All |-> IF i \in sent THEN "to arm9" ELSE state[i]]
          /\ arm9' = [i \in All |-> IF i \in sent THEN arm9[i] + 1 ELSE arm9[i]]
      BY <2>1, Zenon DEF Sends, Types
    <3>2. state' \in [All -> Places]
      BY <3>1
    <3>3. arm9' \in [All -> Nat]
      <4>1. arm9 \in [All -> Nat]
        BY <3>1, Zenon
      <4>2. \A i \in All : (IF i \in sent THEN arm9[i] + 1 ELSE arm9[i]) \in Nat
        BY <4>1
      <4> QED BY <3>1, <4>2, Zenon
    <3> QED BY <3>2, <3>3
  <2>2. fromArm9' = fromArm9 /\ (SendsNone \/ \E sent \in {{}, Ready} : Sends(sent))
    BY <1>3, SendsOne, Zenon
  <2>3. CASE SendsNone
    <3>1. UNCHANGED <<state, arm9, fromArm9>>
      BY <2>2, <2>3, Zenon DEF SendsNone
    <3> QED BY <1>1, <3>1
  <2> QED BY <2>1, <2>2, <2>3, Zenon DEF Types
<1>4. CASE SenderTakesReply
  <2>1. ASSUME NEW i \in Services, Takes(i) PROVE FlowTypes'
    BY <2>1 DEF Takes, Types
  <2> QED BY <1>2, <1>4, <2>1, TakesOne, Zenon
<1>5. ASSUME NEW i \in Services, SenderReceives(i) PROVE FlowTypes'
  <2>1. CASE Receives(i)
    BY <2>1 DEF Receives, Types
  <2> QED BY <1>2, <1>5, <2>1, ReceivesOne, Zenon
<1>6. CASE ReceiverGets
  <2>1. ASSUME NEW i \in All, Gets(i) PROVE FlowTypes'
    <3>1. fromArm9' \in Seq(All)
      <4>1. fromArm9 \in Seq(All) /\ fromArm9 # <<>> /\ fromArm9' = Tail(fromArm9)
        BY <2>1, Zenon DEF Gets, Types
      <4> QED BY <4>1
    <3> QED BY <2>1, <3>1 DEF Gets, Types
  <2> QED BY <1>2, <1>6, <2>1, GetsOne, Zenon DEF Types
<1>7. CASE Srv11Starts \/ Srv11Answers
  <2>1. CASE ~Panicking
    <3>1. /\ state' = [state EXCEPT ![Srv11] = "to arm9"] /\ fromArm9' = fromArm9
          /\ arm9' \in {arm9, [arm9 EXCEPT ![Srv11] = arm9[Srv11] + 1]}
      BY <1>7, <2>1, Zenon DEF Srv11Starts, Srv11Answers
    <3>2. state \in [All -> Places] /\ arm9 \in [All -> Nat] /\ fromArm9 \in Seq(All) /\ Srv11 \in All
      BY Constants, Zenon DEF Types
    <3>3. state' \in [All -> Places]
      BY <3>1, <3>2
    <3>4. arm9' \in [All -> Nat]
      <4>1. [arm9 EXCEPT ![Srv11] = arm9[Srv11] + 1] \in [All -> Nat]
        BY <3>2, OneMore, Zenon
      <4> QED BY <3>1, <3>2, <4>1, Zenon
    <3> QED BY <3>1, <3>2, <3>3, <3>4, Zenon
  <2> QED BY <1>2, <2>1
<1>8. CASE Terminate
  <2>1. /\ state' = [state EXCEPT ![0] = "to arm9"] /\ fromArm9' = fromArm9
        /\ arm9' = [arm9 EXCEPT ![0] = arm9[0] + 1]
    BY <1>8, Zenon DEF Terminate
  <2>2. state \in [All -> Places] /\ arm9 \in [All -> Nat] /\ fromArm9 \in Seq(All) /\ 0 \in All
    BY Constants, Zenon DEF Types
  <2>3. state' \in [All -> Places]
    BY <2>1, <2>2
  <2>4. arm9' \in [All -> Nat]
    BY <2>1, <2>2, OneMore, Zenon
  <2> QED BY <2>1, <2>2, <2>3, <2>4, Zenon
<1>9. CASE Arm9Commands \/ \E i \in Services : Arm9Replies(i)
  <2>1. PICK i \in All : /\ arm9[i] > 0 /\ UNCHANGED state
                         /\ arm9' = [arm9 EXCEPT ![i] = @ - 1]
                         /\ fromArm9' = Append(fromArm9, i)
    BY <1>9, Constants, Zenon DEF Arm9Commands, Arm9Replies, Arm9Step, sessionVars
  <2>2. arm9' \in [All -> Nat]
    <3>1. arm9 \in [All -> Nat] /\ arm9[i] > 0 /\ arm9' = [arm9 EXCEPT ![i] = arm9[i] - 1]
      BY <2>1, Zenon DEF Types
    <3> HIDE DEF FlowTypes
    <3> QED BY <3>1
  <2>3. fromArm9' \in Seq(All)
    <3>1. fromArm9 \in Seq(All) /\ fromArm9' = Append(fromArm9, i)
      BY <2>1, Zenon DEF Types
    <3> QED BY <3>1
  <2> QED BY <2>1, <2>2, <2>3 DEF Types
<1> QED BY <1>2, <1>3, <1>4, <1>5, <1>6, <1>7, <1>8, <1>9, Zenon
        DEF Next, Sender, Receiver, Srv11Thread, Main, Environment, Arm9

(* The sessions and their clients.                                          *)
LEMMA SessionTypesStep == ASSUME Types, [Next]_vars PROVE SessionTypes'
<1> USE DEF SessionTypes
<1>1. ASSUME UNCHANGED <<open, client, kind, sender>> PROVE SessionTypes'
  BY <1>1 DEF Types
<1>2. ASSUME \/ UNCHANGED vars \/ Panicking \/ Srv11Terminates \/ Srv11Starts \/ Srv11Answers
             \/ Terminate \/ Joined \/ ReceiverGets \/ ReceiverGoesOn \/ ReceiverTerminates
             \/ Arm9Commands \/ \E i \in Services : Arm9Replies(i)
      PROVE  SessionTypes'
  <2>1. UNCHANGED <<open, client, kind, sender>>
    BY <1>2, Zenon DEF vars, sessionVars, clients, Panicking, Srv11Terminates, Srv11Starts,
       Srv11Answers, Terminate, Joined, ReceiverGets, ReceiverGoesOn, ReceiverTerminates,
       Arm9Commands, Arm9Replies, Arm9Step
  <2> QED BY <1>1, <2>1
<1>3. CASE SenderSends
  BY <1>3 DEF SenderSends, Types, clients
<1>4. CASE SenderReplies
  <2>1. ASSUME NEW i \in Services, Closes(i) PROVE SessionTypes'
    BY <2>1 DEF Closes, CloseSession, Types
  <2>2. ASSUME NEW i \in Services \cup {None}, Replies(i) PROVE SessionTypes'
    <3>1. client' \in [Services -> {"absent", "connecting", "quiet", "sent", "waiting", "gone"}]
      <4>1. CASE i = None
        BY <2>2, <4>1 DEF Replies, Types
      <4>2. CASE i # None
        <5>1. client' = [client EXCEPT ![i] = "quiet"] /\ i \in Services
          BY <2>2, <4>2, Zenon DEF Replies
        <5> QED BY <5>1 DEF Types
      <4> QED BY <4>1, <4>2
    <3> QED BY <2>2, <3>1 DEF Replies, Types
  <2> QED BY <1>4, <2>1, <2>2, RepliesOne, Zenon DEF Types
<1>5. CASE SenderTerminates
  <2>1. client' \in [Services -> {"absent", "connecting", "quiet", "sent", "waiting", "gone"}]
    BY <1>5 DEF SenderTerminates, Types
  <2> QED BY <1>5, <2>1 DEF SenderTerminates, Types
<1>6. CASE SenderIsAwoken
  BY <1>6 DEF SenderIsAwoken, Types, sessionVars, clients
<1>7. ASSUME NEW i \in Services, SenderSeesClosed(i) PROVE SessionTypes'
  BY <1>7 DEF SenderSeesClosed, CloseSession, Types
<1>8. CASE SenderTakesReply
  <2>1. ASSUME NEW i \in Services, Takes(i) PROVE SessionTypes'
    BY <2>1 DEF Takes, Types, clients
  <2> QED BY <1>2, <1>8, <2>1, TakesOne, Zenon
<1>9. ASSUME NEW i \in Services, SenderReceives(i) PROVE SessionTypes'
  <2>1. CASE Receives(i)
    BY <2>1 DEF Receives, Types
  <2> QED BY <1>2, <1>9, <2>1, ReceivesOne, Zenon
<1>10. ASSUME NEW i \in Services, Accept(i) PROVE SessionTypes'
  <2>1. CASE ~Panicking
    BY <1>10, <2>1 DEF Accept, Types
  <2> QED BY <1>2, <2>1
<1>11. ASSUME NEW i \in Services, \/ Connect(i) \/ Leave(i)
                                  \/ \E k \in {"other", "stop", "go on"} : Send(i, k)
       PROVE  SessionTypes'
  <2>1. /\ open' = open /\ sender' = sender
        /\ \E x \in {"connecting", "sent", "gone"} : client' = [client EXCEPT ![i] = x]
        /\ kind' = kind \/ \E k \in {"other", "stop", "go on"} : kind' = [kind EXCEPT ![i] = k]
    BY <1>11, Zenon DEF Connect, Leave, Send, Does, ClientStep, sessionVars
  <2>2. client' \in [Services -> {"absent", "connecting", "quiet", "sent", "waiting", "gone"}]
    BY <2>1 DEF Types
  <2>3. kind' \in [Services -> {"other", "stop", "go on"}]
    BY <2>1 DEF Types
  <2> QED BY <2>1, <2>2, <2>3 DEF Types
<1> QED BY <1>2, <1>3, <1>4, <1>5, <1>6, <1>7, <1>8, <1>9, <1>10, <1>11, Zenon
        DEF Next, Sender, Receiver, Srv11Thread, Main, Environment, Arm9

(* The buffers, and what is counted.                                        *)
LEMMA BufferTypesStep == ASSUME Types, [Next]_vars PROVE BufferTypes'
<1> USE DEF BufferTypes
<1>1. ASSUME UNCHANGED <<used, freeStaticBuffers, currentlyProvidedStaticBuffers>>
      PROVE  BufferTypes'
  BY <1>1 DEF Types
<1>2. CASE SenderTakesReply
  <2>1. ASSUME NEW i \in Services, Takes(i) PROVE BufferTypes'
    <3>1. used[i] \in SUBSET (1 .. NbBuffers)
      BY DEF Types
    <3>2. /\ used' = [used EXCEPT ![i] = {}]
          /\ freeStaticBuffers' = freeStaticBuffers \cup used[i]
          /\ currentlyProvidedStaticBuffers' = currentlyProvidedStaticBuffers
      BY <2>1, Zenon DEF Takes
    <3> QED BY <3>1, <3>2 DEF Types
  <2>2. CASE Panicking
    BY <1>1, <2>2, Zenon DEF Panicking, sessionVars, buffers
  <2> QED BY <1>2, <2>1, <2>2, TakesOne, Zenon
<1>3. ASSUME NEW i \in Services, SenderReceives(i) PROVE BufferTypes'
  <2>1. CASE Receives(i)
    <3>1. \A S, n : clearMSBs(S, n) \subseteq S
      BY DEF clearMSBs
    <3>2. Kept(i) \in SUBSET (1 .. NbBuffers)
      BY <3>1 DEF Kept, Types
    <3>3. /\ used' = [used EXCEPT ![i] = Kept(i)]
          /\ Acquire(freeStaticBuffers \cup (currentlyProvidedStaticBuffers \ Kept(i)))
      BY <2>1, Zenon DEF Receives
    <3>4. used' \in [Services -> SUBSET (1 .. NbBuffers)]
      BY <3>2, <3>3 DEF Types
    <3>5. /\ freeStaticBuffers' \in SUBSET (1 .. NbBuffers)
          /\ currentlyProvidedStaticBuffers' \in SUBSET (1 .. NbBuffers)
      BY <3>1, <3>2, <3>3 DEF Acquire, Types
    <3> QED BY <3>4, <3>5
  <2>2. CASE Panicking
    BY <1>1, <2>2, Zenon DEF Panicking, sessionVars, buffers
  <2> QED BY <1>3, <2>1, <2>2, ReceivesOne, Zenon
<1>4. ASSUME \/ UNCHANGED vars \/ SenderSends \/ SenderReplies \/ SenderTerminates
             \/ SenderIsAwoken \/ Receiver \/ Srv11Thread \/ Main \/ Environment \/ Arm9
             \/ \E i \in Services : SenderSeesClosed(i)
      PROVE  UNCHANGED <<used, buffers>>
  BY <1>4, Zenon DEF vars, sessionVars, SenderSends, SenderReplies, SenderTerminates,
     SenderIsAwoken, SenderSeesClosed, Receiver, ReceiverGets, ReceiverGoesOn, ReceiverTerminates,
     Srv11Thread, Srv11Starts, Srv11Answers, Srv11Terminates, Main, Accept, Terminate, Joined,
     Environment, Connect, Leave, Send, ClientStep, Arm9Commands, Arm9, Arm9Replies, Arm9Step,
     Panicking
<1>5. UNCHANGED <<used, buffers>> => BufferTypes'
  BY <1>1, Zenon DEF buffers
<1> QED BY <1>2, <1>3, <1>4, <1>5, Zenon DEF Next, Sender

LEMMA CountTypesStep == ASSUME Types, [Next]_vars PROVE CountTypes'
<1> USE DEF CountTypes
<1>1. ASSUME UNCHANGED <<latest_PXI_MC5_val, pendingArm9Commands, replySemaphore>>
      PROVE  CountTypes'
  BY <1>1 DEF Types
<1>2. CASE SenderTakesReply
  <2>1. ASSUME NEW i \in Services, Takes(i) PROVE CountTypes'
    <3>1. /\ pendingArm9Commands' = PendingAfterReply /\ replySemaphore > 0
          /\ latest_PXI_MC5_val' = latest_PXI_MC5_val /\ replySemaphore' = replySemaphore - 1
      BY <2>1, Zenon DEF Takes
    <3> QED BY <3>1 DEF Types, PendingAfterReply
  <2>2. CASE Panicking
    BY <1>1, <2>2, Zenon DEF Panicking, mc5
  <2> QED BY <1>2, <2>1, <2>2, TakesOne, Zenon
<1>3. ASSUME NEW i \in Services, SenderReceives(i) PROVE CountTypes'
  <2>1. CASE Receives(i)
    <3>1. kind[i] \in {"other", "stop", "go on"}
      BY DEF Types, SessionTypes
    <3>2. latest_PXI_MC5_val' \in {0, 1, 2}
      BY <2>1, <3>1, Zenon DEF Receives
    <3>3. UNCHANGED <<pendingArm9Commands, replySemaphore>>
      BY <2>1, Zenon DEF Receives
    <3> QED BY <3>2, <3>3 DEF Types
  <2>2. CASE Panicking
    BY <1>1, <2>2, Zenon DEF Panicking, mc5
  <2> QED BY <1>3, <2>1, <2>2, ReceivesOne, Zenon
<1>4. CASE SenderSends
  <2>1. CASE SendsNone
    <3>1. UNCHANGED <<latest_PXI_MC5_val, pendingArm9Commands, replySemaphore>>
      BY <1>4, <2>1, SendsOne, Zenon DEF SendsNone
    <3> QED BY <1>1, <3>1
  <2>2. ASSUME NEW sent \in {{}, Ready}, Sends(sent) PROVE CountTypes'
    <3>1. Cardinality(sent) \in Nat
      <4>1. Cardinality({}) \in Nat /\ Cardinality(Ready) \in Nat
        BY SenderCounts DEF Types
      <4>2. sent = {} \/ sent = Ready
        BY Zenon
      <4> QED BY <4>1, <4>2, Zenon
    <3>2. pendingArm9Commands' = PendingAfter(sent) /\ UNCHANGED <<latest_PXI_MC5_val, replySemaphore>>
      BY <1>4, <2>2, SendsOne, Zenon DEF Sends
    <3>3. pendingArm9Commands' \in Int
      BY <3>1, <3>2 DEF PendingAfter, Types
    <3> QED BY <3>2, <3>3 DEF Types
  <2> QED BY <1>4, <2>1, <2>2, SendsOne, Zenon
<1>5. CASE ReceiverGets
  <2>1. ASSUME NEW i \in All, Gets(i) PROVE CountTypes'
    <3>1. UNCHANGED <<latest_PXI_MC5_val, pendingArm9Commands>>
      BY <2>1, Zenon DEF Gets, mc5
    <3>2. replySemaphore' = replySemaphore \/ replySemaphore' = replySemaphore + 1
      BY <2>1, Zenon DEF Gets
    <3> QED BY <3>1, <3>2 DEF Types
  <2>2. CASE Panicking
    BY <1>1, <2>2, Zenon DEF Panicking, mc5
  <2> QED BY <1>5, <2>1, <2>2, GetsOne, Zenon DEF Types
<1>6. ASSUME \/ UNCHANGED vars \/ SenderReplies \/ SenderTerminates
             \/ SenderIsAwoken \/ ReceiverGoesOn \/ ReceiverTerminates \/ Srv11Thread \/ Main
             \/ Environment \/ Arm9 \/ \E i \in Services : SenderSeesClosed(i)
      PROVE  UNCHANGED <<mc5, replySemaphore>>
  BY <1>6, Zenon DEF vars, sessionVars, SenderReplies, SenderTerminates,
     SenderIsAwoken, SenderSeesClosed, ReceiverGoesOn, ReceiverTerminates,
     Srv11Thread, Srv11Starts, Srv11Answers, Srv11Terminates, Main, Accept, Terminate, Joined,
     Environment, Connect, Leave, Send, ClientStep, Arm9Commands, Arm9, Arm9Replies, Arm9Step,
     Panicking
<1>7. UNCHANGED <<mc5, replySemaphore>> => CountTypes'
  BY <1>1, Zenon DEF mc5
<1> QED BY <1>2, <1>3, <1>4, <1>5, <1>6, <1>7, Zenon DEF Next, Sender, Receiver

LEMMA TypesStep == ASSUME Types, [Next]_vars PROVE Types'
BY FlowTypesStep, SessionTypesStep, BufferTypesStep, CountTypesStep DEF Types

-----------------------------------------------------------------------------
(* What Process9 has is what the sessions wait for.                         *)
LEMMA Received ==
    ASSUME NEW S, NEW s \in Seq(S), s # <<>>, Once(s)
    PROVE  /\ Once(Tail(s)) /\ In(s, s[1]) /\ ~In(Tail(s), s[1])
           /\ \A i : i # s[1] => (In(Tail(s), i) <=> In(s, i))
<1>1. Len(s) \in Nat /\ Len(s) > 0 /\ DOMAIN s = 1 .. Len(s)
  OBVIOUS
<1>2. DOMAIN Tail(s) = 1 .. Len(s) - 1 /\ \A k \in 1 .. Len(s) - 1 : Tail(s)[k] = s[k + 1]
  OBVIOUS
<1>3. Once(Tail(s))
  BY <1>1, <1>2 DEF Once
<1>4. In(s, s[1])
  BY <1>1 DEF In
<1>5. ~In(Tail(s), s[1])
  BY <1>1, <1>2 DEF In, Once
<1>6. ASSUME NEW i, i # s[1] PROVE In(Tail(s), i) <=> In(s, i)
  <2>1. ASSUME In(s, i) PROVE In(Tail(s), i)
    <3>1. PICK k \in 1 .. Len(s) : s[k] = i
      BY <1>1, <2>1 DEF In
    <3>2. k - 1 \in 1 .. Len(s) - 1 /\ (k - 1) + 1 = k
      BY <1>1, <1>6, <3>1
    <3> QED BY <1>2, <3>1, <3>2 DEF In
  <2>2. ASSUME In(Tail(s), i) PROVE In(s, i)
    <3>1. PICK k \in 1 .. Len(s) - 1 : Tail(s)[k] = i
      BY <1>2, <2>2 DEF In
    <3>2. k + 1 \in 1 .. Len(s)
      BY <1>1
    <3> QED BY <1>1, <1>2, <3>1, <3>2 DEF In
  <2> QED BY <2>1, <2>2
<1> QED BY <1>3, <1>4, <1>5, <1>6

LEMMA Appended ==
    ASSUME NEW S, NEW s \in Seq(S), NEW x \in S, Once(s), ~In(s, x)
    PROVE  /\ Once(Append(s, x)) /\ In(Append(s, x), x)
           /\ \A i : i # x => (In(Append(s, x), i) <=> In(s, i))
<1> DEFINE t == Append(s, x)
<1>1. Len(s) \in Nat /\ DOMAIN s = 1 .. Len(s) /\ DOMAIN t = 1 .. Len(s) + 1
  OBVIOUS
<1>2. t[Len(s) + 1] = x /\ \A k \in 1 .. Len(s) : t[k] = s[k]
  OBVIOUS
<1>3. \A k \in 1 .. Len(s) + 1 : k \in 1 .. Len(s) \/ k = Len(s) + 1
  BY <1>1
<1>4. \A k \in 1 .. Len(s) : k \in 1 .. Len(s) + 1
  BY <1>1
<1>5. Len(s) + 1 \in 1 .. Len(s) + 1
  BY <1>1
<1> HIDE DEF t
<1>6. \A k \in 1 .. Len(s) : s[k] # x
  BY <1>1 DEF In
<1>7. Once(t)
  BY <1>1, <1>2, <1>3, <1>6, Zenon DEF Once
<1>8. In(t, x)
  BY <1>1, <1>2, <1>5, Zenon DEF In
<1>9. ASSUME NEW i, i # x PROVE In(t, i) <=> In(s, i)
  BY <1>1, <1>2, <1>3, <1>4, <1>9, Zenon DEF In
<1> QED BY <1>7, <1>8, <1>9 DEF t

LEMMA Moved ==
    ASSUME NEW A, NEW f \in [A -> Nat], NEW i \in A
    PROVE  /\ f[i] = 0 => [f EXCEPT ![i] = f[i] + 1][i] = 1
           /\ f[i] = 1 => [f EXCEPT ![i] = f[i] - 1][i] = 0
           /\ \A x : \A j \in A : j # i => [f EXCEPT ![i] = x][j] = f[j]
OBVIOUS

LEMMA FlowStep == ASSUME Base, [Next]_vars PROVE FlowOK'
<1> USE DEF FlowOK
<1>0. /\ state \in [All -> Places] /\ arm9 \in [All -> Nat] /\ fromArm9 \in Seq(All)
      /\ FlowOK /\ FlowTypes /\ SessionTypes
  BY Zenon DEF Base, Types, FlowTypes
<1>1. ASSUME UNCHANGED <<state, arm9, fromArm9>> PROVE FlowOK'
  BY <1>0, <1>1, Zenon DEF Sent
<1>2. ASSUME \/ UNCHANGED vars \/ Panicking \/ SenderReplies \/ SenderTerminates \/ SenderIsAwoken
             \/ \E i \in Services : SenderSeesClosed(i) \/ Accept(i) \/ Connect(i) \/ Leave(i)
                                    \/ \E k \in {"other", "stop", "go on"} : Send(i, k)
             \/ ReceiverGoesOn \/ ReceiverTerminates \/ Srv11Terminates \/ Joined
      PROVE  FlowOK'
  <2>1. UNCHANGED <<state, arm9, fromArm9>>
    BY <1>2, Zenon DEF vars, sessionVars, Panicking, SenderReplies, SenderTerminates,
       SenderIsAwoken, SenderSeesClosed, Accept, Connect, Leave, Send, ClientStep, ReceiverGoesOn,
       ReceiverTerminates, Srv11Terminates, Joined
  <2> QED BY <1>1, <2>1
<1>3. CASE SenderSends
  <2>1. ASSUME NEW sent \in {{}, Ready}, Sends(sent) PROVE FlowOK'
    <3>1. /\ state' = [i \in All |-> IF i \in sent THEN "to arm9" ELSE state[i]]
          /\ arm9' = [i \in All |-> IF i \in sent THEN arm9[i] + 1 ELSE arm9[i]]
      BY <2>1, Zenon DEF Sends
    <3>2. fromArm9' = fromArm9
      BY <1>3, SendsOne, Zenon
    <3>3. \A i \in sent : i \in Services /\ state[i] = "from arm11"
      BY <1>0 DEF Ready, SessionTypes
    <3>4. \A i \in sent : i \in All /\ ~Sent(i) /\ arm9[i] = 0
      <4>1. \A i \in sent : i \in Services /\ i \in All /\ state[i] # "to arm9"
        BY <3>3, Constants
      <4>2. \A i \in sent : ~Sent(i) /\ arm9[i] \in {0, 1} /\ arm9[i] # 1
        BY <1>0, <4>1, Zenon
      <4> QED BY <4>1, <4>2, Zenon
    <3>5. \A i \in Services : i \in All
      BY Constants
    <3>6. \A i \in All : Sent(i)' <=> Sent(i)
      BY <3>2 DEF Sent
    <3>7. \A i \in All : /\ i \in sent => state'[i] = "to arm9" /\ arm9'[i] = 1
                         /\ i \notin sent => state'[i] = state[i] /\ arm9'[i] = arm9[i]
      <4>1. \A i \in sent : arm9[i] + 1 = 1
        BY <3>4
      <4> QED BY <3>1, <3>4, <4>1, Zenon
    <3>8. Once(fromArm9') /\ \A i \in All : arm9'[i] \in {0, 1} /\ (Sent(i)' => arm9'[i] = 0)
      BY <1>0, <3>2, <3>4, <3>6, <3>7, Zenon
    <3>9. ASSUME NEW i \in Services PROVE arm9'[i] = 1 \/ Sent(i)' <=> state'[i] = "to arm9"
      <4>1. CASE i \in sent
        BY <3>5, <3>7, <4>1, Zenon
      <4>2. CASE i \notin sent
        BY <1>0, <3>5, <3>6, <3>7, <4>2, Zenon
      <4> QED BY <4>1, <4>2
    <3> QED BY <3>8, <3>9, Zenon
  <2>2. CASE SendsNone
    BY <1>1, <1>3, <2>2, SendsOne, Zenon DEF SendsNone
  <2> QED BY <1>3, <2>1, <2>2, SendsOne, Zenon
<1>4. CASE SenderTakesReply
  <2>1. ASSUME NEW i \in Services, Takes(i) PROVE FlowOK'
    <3>1. /\ state' = [state EXCEPT ![i] = "idle"] /\ arm9' = arm9 /\ fromArm9' = fromArm9
          /\ state[i] = "from arm9"
      BY <2>1, Zenon DEF Takes
    <3> QED BY <1>0, <3>1, Constants DEF Sent
  <2> QED BY <1>2, <1>4, <2>1, TakesOne, Zenon
<1>5. ASSUME NEW i \in Services, SenderReceives(i) PROVE FlowOK'
  <2>1. CASE Receives(i)
    <3>1. /\ state' = [state EXCEPT ![i] = "from arm11"] /\ arm9' = arm9 /\ fromArm9' = fromArm9
          /\ state[i] = "idle"
      BY <2>1, Zenon DEF Receives
    <3> QED BY <1>0, <3>1, Constants DEF Sent
  <2> QED BY <1>2, <1>5, <2>1, ReceivesOne, Zenon
<1>6. CASE ReceiverGets
  <2>1. ASSUME NEW i \in All, Gets(i) PROVE FlowOK'
    <3>1. /\ state' = [state EXCEPT ![i] = "from arm9"] /\ arm9' = arm9
          /\ fromArm9 # <<>> /\ i = fromArm9[1] /\ fromArm9' = Tail(fromArm9)
      BY <2>1, Zenon DEF Gets
    <3>2. /\ Once(fromArm9') /\ Sent(i) /\ ~Sent(i)'
          /\ \A j \in All : j # i => (Sent(j)' <=> Sent(j))
      BY <1>0, <3>1, Received, Zenon DEF Sent
    <3>3. arm9[i] = 0
      BY <1>0, <3>2
    <3>4. /\ \A j \in All : j # i => state'[j] = state[j]
          /\ state'[i] = "from arm9"
      BY <1>0, <3>1
    <3>5. \A j \in All : arm9'[j] \in {0, 1} /\ (Sent(j)' => arm9'[j] = 0)
      BY <1>0, <3>1, <3>2, Zenon
    <3>6. \A j \in Services : j \in All
      BY Constants
    <3>7. \A j \in Services : arm9'[j] = 1 \/ Sent(j)' <=> state'[j] = "to arm9"
      <4>1. arm9'[i] # 1 /\ state'[i] # "to arm9"
        <5>1. arm9'[i] = 0 /\ state'[i] = "from arm9"
          BY <3>1, <3>3, <3>4, Zenon
        <5>2. arm9'[i] # 1
          <6>1. arm9'[i] = 0
            BY <5>1, Zenon
          <6> QED BY <6>1
        <5>3. state'[i] # "to arm9"
          <6>1. state'[i] = "from arm9"
            BY <5>1, Zenon
          <6> QED BY <6>1
        <5> QED BY <5>2, <5>3
      <4> QED BY <1>0, <3>1, <3>2, <3>4, <3>6, <4>1, Zenon
    <3> QED BY <3>2, <3>5, <3>7, Zenon
  <2> QED BY <1>0, <1>2, <1>6, <2>1, GetsOne, Zenon
<1>7. CASE Srv11Starts \/ Srv11Answers
  <2>1. CASE ~Panicking
    <3>1. CASE Srv11Starts
      <4>1. /\ state' = [state EXCEPT ![Srv11] = "to arm9"] /\ fromArm9' = fromArm9 /\ arm9' = arm9
        BY <3>1, Zenon DEF Srv11Starts
      <4> QED BY <1>0, <4>1, Constants DEF Sent
    <3>2. CASE Srv11Answers
      <4>1. /\ state' = [state EXCEPT ![Srv11] = "to arm9"] /\ fromArm9' = fromArm9
            /\ arm9' = [arm9 EXCEPT ![Srv11] = arm9[Srv11] + 1] /\ state[Srv11] = "from arm9"
        BY <2>1, <3>2, Zenon DEF Srv11Answers
      <4>2. arm9[Srv11] # 1 /\ ~Sent(Srv11)
        BY <4>1, Zenon DEF Base, Srv11OK
      <4>3. arm9[Srv11] = 0
        BY <1>0, <4>2, Constants, Zenon
      <4>4. \A i \in All : /\ i # Srv11 => state'[i] = state[i] /\ arm9'[i] = arm9[i]
                           /\ i = Srv11 => arm9'[i] = 1
        <5>1. Srv11 \in All /\ \A i \in All : i # Srv11 => state'[i] = state[i]
          BY <1>0, <4>1, Constants
        <5>2. arm9 \in [All -> Nat] /\ arm9' = [arm9 EXCEPT ![Srv11] = arm9[Srv11] + 1]
          BY <1>0, <4>1, Zenon
        <5>3. arm9'[Srv11] = 1 /\ \A i \in All : i # Srv11 => arm9'[i] = arm9[i]
          <6> HIDE DEF FlowOK
          <6> QED BY <4>3, <5>1, <5>2, Moved, Zenon
        <5> QED BY <5>1, <5>3, Zenon
      <4>5. \A i \in All : Sent(i)' <=> Sent(i)
        BY <4>1 DEF Sent
      <4> QED BY <1>0, <4>1, <4>2, <4>4, <4>5, Constants, Zenon
    <3> QED BY <1>7, <3>1, <3>2
  <2> QED BY <1>2, <2>1
<1>8. CASE Terminate
  <2>1. /\ state' = [state EXCEPT ![0] = "to arm9"] /\ fromArm9' = fromArm9
        /\ arm9' = [arm9 EXCEPT ![0] = arm9[0] + 1]
        /\ mainThread = "serve" /\ \A i \in Services : client[i] \in {"absent", "quiet"}
    BY <1>8, Zenon DEF Terminate
  <2>2. state[0] = "idle"
    BY <2>1, Constants DEF Base, SessionsOK
  <2>3. arm9[0] = 0 /\ ~Sent(0)
    <3>1. state[0] # "to arm9" /\ 0 \in Services /\ 0 \in All
      BY <2>2, Constants
    <3>2. arm9[0] # 1 /\ ~Sent(0)
      BY <1>0, <3>1, Zenon
    <3>3. arm9[0] \in {0, 1}
      BY <1>0, <3>1, Zenon
    <3> QED BY <3>2, <3>3, Zenon
  <2>4. \A i \in All : /\ i # 0 => state'[i] = state[i] /\ arm9'[i] = arm9[i]
                       /\ i = 0 => state'[i] = "to arm9" /\ arm9'[i] = 1
    <3>1. /\ 0 \in All /\ \A i \in All : i # 0 => state'[i] = state[i]
          /\ state'[0] = "to arm9"
      BY <1>0, <2>1, Constants
    <3>2. arm9 \in [All -> Nat] /\ arm9' = [arm9 EXCEPT ![0] = arm9[0] + 1]
      BY <1>0, <2>1, Zenon
    <3>3. arm9'[0] = 1 /\ \A i \in All : i # 0 => arm9'[i] = arm9[i]
      <4> HIDE DEF FlowOK
      <4> QED BY <2>3, <3>1, <3>2, Moved, Zenon
    <3> QED BY <3>1, <3>3, Zenon
  <2>5. \A i \in All : Sent(i)' <=> Sent(i)
    BY <2>1 DEF Sent
  <2>6. Once(fromArm9') /\ \A i \in All : arm9'[i] \in {0, 1} /\ (Sent(i)' => arm9'[i] = 0)
    BY <1>0, <2>1, <2>3, <2>4, <2>5, Zenon
  <2>7. \A i \in Services : arm9'[i] = 1 \/ Sent(i)' <=> state'[i] = "to arm9"
    BY <1>0, <2>4, <2>5, Constants, Zenon
  <2> QED BY <2>6, <2>7, Zenon
<1>9. CASE Arm9Commands \/ \E i \in Services : Arm9Replies(i)
  <2>1. PICK i \in All : /\ arm9[i] > 0 /\ UNCHANGED state
                         /\ arm9' = [arm9 EXCEPT ![i] = @ - 1]
                         /\ fromArm9' = Append(fromArm9, i)
    BY <1>9, Constants, Zenon DEF Arm9Commands, Arm9Replies, Arm9Step, sessionVars
  <2>2. arm9[i] = 1 /\ ~Sent(i)
    <3>1. arm9[i] \in {0, 1} /\ (Sent(i) => arm9[i] = 0)
      BY <1>0, Zenon
    <3>2. arm9[i] > 0
      BY <2>1, Zenon
    <3>3. arm9[i] # 0
      BY <3>2
    <3> QED BY <3>1, <3>3, Zenon
  <2>3. /\ Once(fromArm9') /\ Sent(i)' /\ \A j \in All : j # i => (Sent(j)' <=> Sent(j))
    BY <1>0, <2>1, <2>2, Appended, Zenon DEF Sent
  <2>4. /\ \A j \in All : j # i => arm9'[j] = arm9[j]
        /\ arm9'[i] = 0
    BY <1>0, <2>1, <2>2, Moved, Zenon
  <2>5. \A j \in All : arm9'[j] \in {0, 1} /\ (Sent(j)' => arm9'[j] = 0)
    BY <1>0, <2>1, <2>2, <2>3, <2>4, Zenon
  <2>6. \A j \in Services : arm9'[j] = 1 \/ Sent(j)' <=> state'[j] = "to arm9"
    BY <1>0, <2>1, <2>2, <2>3, <2>4, Constants, Zenon
  <2> QED BY <2>3, <2>5, <2>6, Zenon
<1> QED BY <1>2, <1>3, <1>4, <1>5, <1>6, <1>7, <1>8, <1>9, Zenon
        DEF Next, Sender, Receiver, Srv11Thread, Main, Environment, Arm9

-----------------------------------------------------------------------------
(* The sessions.                                                            *)
LEMMA SessionsStep == ASSUME Base, [Next]_vars PROVE SessionsOK'
<1>0. /\ state \in [All -> Places] /\ SessionTypes /\ SessionsOK /\ FlowTypes
      /\ client \in [Services -> {"absent", "connecting", "quiet", "sent", "waiting", "gone"}]
  BY Zenon DEF Base, Types, FlowTypes, SessionTypes
<1>1. ASSUME UNCHANGED <<state, open, client, sender, shouldTerminate, terminationRequestedEvent,
                         mainThread>>
      PROVE  SessionsOK'
  BY <1>0, <1>1, Zenon DEF SessionsOK, Answering
<1>2. ASSUME \/ UNCHANGED vars \/ Panicking \/ Srv11Terminates \/ ReceiverGoesOn
             \/ ReceiverTerminates \/ Arm9Commands \/ \E i \in Services : Arm9Replies(i)
      PROVE  SessionsOK'
  <2>1. UNCHANGED <<state, open, client, sender, shouldTerminate, terminationRequestedEvent,
                    mainThread>>
    BY <1>2, Zenon DEF vars, sessionVars, clients, ending, threads, Panicking, Srv11Terminates,
       ReceiverGoesOn, ReceiverTerminates, Arm9Commands, Arm9Replies, Arm9Step
  <2> QED BY <1>1, <2>1
<1>3. CASE SenderSends
  <2>1. /\ open' = open /\ client' = client /\ shouldTerminate' = shouldTerminate
        /\ terminationRequestedEvent' = terminationRequestedEvent /\ mainThread' = mainThread
        /\ sender.pc = "send" /\ sender' = [sender EXCEPT !.pc = "reply"]
    BY <1>3, SendsOne, Zenon DEF clients, ending, threads
  <2>2. \A i \in Services : Answering(i)' <=> Answering(i)
    BY <1>0, <2>1 DEF Answering, SessionTypes
  <2>3. /\ \A i \in Services : state'[i] # state[i] => state[i] = "from arm11" /\ state'[i] # "idle"
        /\ \A i \in Services : state[i] # "idle" => state'[i] # "idle"
    <3>1. CASE SendsNone
      BY <3>1, Zenon DEF SendsNone
    <3>2. ASSUME NEW sent \in {{}, Ready}, Sends(sent)
          PROVE  \A i \in Services : \/ state'[i] = state[i]
                                     \/ state[i] = "from arm11" /\ state'[i] = "to arm9"
      <4>1. state' = [i \in All |-> IF i \in sent THEN "to arm9" ELSE state[i]]
        BY <3>2, Zenon DEF Sends
      <4>2. \A i \in sent : state[i] = "from arm11"
        BY DEF Ready
      <4> QED BY <4>1, <4>2, Constants
    <3> QED BY <1>3, <3>1, <3>2, SendsOne
  <2>4. \A i \in Services : state'[i] # "idle" => state[i] # "idle"
    BY <2>3
  <2>5. shouldTerminate => state'[0] = state[0]
    BY <1>0, <2>3, Constants DEF SessionsOK
  <2>6. \A i \in Services : Answering(i) => state'[i] = "idle"
    BY <1>0, <2>3 DEF SessionsOK
  <2> QED BY <1>0, <2>1, <2>2, <2>4, <2>5, <2>6, Zenon DEF SessionsOK
<1>4. ASSUME NEW i \in Services, Closes(i) PROVE SessionsOK'
  <2>1. /\ state' = state /\ shouldTerminate' = shouldTerminate
        /\ terminationRequestedEvent' = terminationRequestedEvent /\ mainThread' = mainThread
        /\ client[i] = "gone" /\ open' = open \ {i} /\ client' = [client EXCEPT ![i] = "absent"]
        /\ sender' = [pc |-> "send", replyTarget |-> None]
        /\ Idle(i) \/ Answering(i)
    BY <1>4, Zenon DEF Closes, CloseSession, ending, threads, Answering
  <2>2. state[i] = "idle"
    BY <1>0, <2>1, Zenon DEF Idle, SessionsOK
  <2>3. \A j \in Services : ~Answering(j)'
    BY <2>1, Constants DEF Answering
  <2>4. client'[i] = "absent" /\ \A j \in Services : j # i => client'[j] = client[j]
    BY <1>0, <2>1
  <2>5. ~shouldTerminate
    BY <1>0, <2>1 DEF SessionsOK
  <2>6. ASSUME NEW j \in Services PROVE j \in open' <=> client'[j] \notin {"absent", "connecting"}
    BY <1>0, <2>1, <2>4 DEF SessionsOK
  <2>7. ASSUME NEW j \in Services, state[j] # "idle" PROVE client'[j] \in {"waiting", "gone"}
    BY <1>0, <2>2, <2>4, <2>5, <2>7 DEF SessionsOK
  <2> QED BY <1>0, <2>1, <2>3, <2>5, <2>6, <2>7, Zenon DEF SessionsOK
<1>5. CASE SenderReplies
  <2>1. ASSUME NEW i \in Services \cup {None}, Replies(i) PROVE SessionsOK'
    <3>1. /\ state' = state /\ shouldTerminate' = shouldTerminate
          /\ terminationRequestedEvent' = terminationRequestedEvent /\ mainThread' = mainThread
          /\ open' = open /\ sender.pc = "reply" /\ i = sender.replyTarget
          /\ sender' = [sender EXCEPT !.pc = "wait"]
      BY <2>1, Zenon DEF Replies, ending, threads
    <3>2. \A j \in Services : ~Answering(j)'
      BY <1>0, <3>1 DEF Answering, SessionTypes
    <3>3. CASE i = None
      <4>1. client' = client
        BY <2>1, <3>3, Zenon DEF Replies
      <4> QED BY <1>0, <3>1, <3>2, <4>1, Zenon DEF SessionsOK
    <3>4. CASE i # None
      <4>1. client' = [client EXCEPT ![i] = "quiet"] /\ i \in Services /\ Answering(i)
        BY <2>1, <3>1, <3>4, Zenon DEF Replies, Answering
      <4>2. state[i] = "idle" /\ client[i] \in {"waiting", "gone"}
        BY <1>0, <4>1 DEF SessionsOK
      <4>3. client'[i] = "quiet" /\ \A j \in Services : j # i => client'[j] = client[j]
        BY <1>0, <4>1
      <4>4. ~shouldTerminate
        BY <1>0, <4>1, <4>2 DEF SessionsOK
      <4>5. ASSUME NEW j \in Services PROVE j \in open' <=> client'[j] \notin {"absent", "connecting"}
        BY <1>0, <3>1, <4>1, <4>2, <4>3 DEF SessionsOK
      <4>6. ASSUME NEW j \in Services, state[j] # "idle" PROVE client'[j] \in {"waiting", "gone"}
        BY <1>0, <4>2, <4>3, <4>4, <4>6 DEF SessionsOK
      <4> QED BY <1>0, <3>1, <3>2, <4>4, <4>5, <4>6, Zenon DEF SessionsOK
    <3> QED BY <3>3, <3>4
  <2> QED BY <1>0, <1>4, <1>5, <2>1, RepliesOne, Zenon
<1>6. CASE SenderTerminates
  <2>1. /\ state' = state /\ shouldTerminate' = shouldTerminate /\ terminationRequestedEvent
        /\ terminationRequestedEvent' = terminationRequestedEvent /\ mainThread' = mainThread
        /\ open' = {} /\ sender' = [pc |-> "ended", replyTarget |-> None]
        /\ client' = [i \in Services |-> IF i \in open THEN "absent" ELSE client[i]]
    BY <1>6, Zenon DEF SenderTerminates, ending, threads
  <2>2. shouldTerminate /\ \A i \in Services : client[i] \in {"absent", "quiet"}
    BY <1>0, <2>1 DEF SessionsOK
  <2>3. \A i \in Services : client'[i] = "absent"
    BY <1>0, <2>1, <2>2 DEF SessionsOK
  <2>4. \A i \in Services : ~Answering(i)'
    BY <2>1 DEF Answering
  <2>5. \A i \in Services : i # 0 => state[i] = "idle"
    BY <1>0, <2>2 DEF SessionsOK
  <2> QED BY <1>0, <2>1, <2>2, <2>3, <2>4, <2>5 DEF SessionsOK
<1>7. CASE SenderIsAwoken
  <2>1. /\ state' = state /\ shouldTerminate' = shouldTerminate /\ open' = open
        /\ client' = client /\ sender' = [pc |-> "send", replyTarget |-> None]
        /\ terminationRequestedEvent' = terminationRequestedEvent /\ mainThread' = mainThread
    BY <1>7, Zenon DEF SenderIsAwoken, ending, threads, clients, sessionVars
  <2>2. \A i \in Services : ~Answering(i)'
    BY <2>1, Constants DEF Answering
  <2> QED BY <1>0, <2>1, <2>2, Zenon DEF SessionsOK
<1>8. ASSUME NEW i \in Services, SenderSeesClosed(i) PROVE SessionsOK'
  <2>1. Closes(i)
    <3>1. sender.pc = "wait" /\ Idle(i)
      BY <1>8, Zenon DEF SenderSeesClosed, At
    <3> QED BY <1>8, <3>1, Zenon DEF SenderSeesClosed, Closes
  <2> QED BY <1>4, <2>1
<1>9. CASE SenderTakesReply
  <2>1. ASSUME NEW i \in Services, Takes(i), replySemaphore > 0 PROVE SessionsOK'
    <3>1. /\ state' = [state EXCEPT ![i] = "idle"] /\ state[i] = "from arm9"
          /\ shouldTerminate' = shouldTerminate
          /\ terminationRequestedEvent' = terminationRequestedEvent /\ mainThread' = mainThread
          /\ open' = open /\ client' = client /\ sender' = [pc |-> "send", replyTarget |-> i]
      BY <2>1, Zenon DEF Takes, ending, threads, clients
    <3>2. ~shouldTerminate
      <4>1. replySemaphore # 0
        BY <2>1
      <4> QED BY <4>1, Zenon DEF Base, ReplyCounted
    <3>3. client[i] \in {"waiting", "gone"}
      BY <1>0, <3>1, <3>2 DEF SessionsOK
    <3>4. \A j \in Services : Answering(j)' => j = i
      BY <3>1 DEF Answering
    <3>5. state'[i] = "idle" /\ \A j \in Services : j # i => state'[j] = state[j]
      BY <1>0, <3>1, Constants
    <3> QED BY <1>0, <3>1, <3>2, <3>3, <3>4, <3>5, Zenon DEF SessionsOK
  <2>2. replySemaphore > 0
    BY <1>9, Zenon DEF SenderTakesReply
  <2> QED BY <1>2, <1>9, <2>1, <2>2, TakesOne, Zenon
<1>10. ASSUME NEW i \in Services, SenderReceives(i) PROVE SessionsOK'
  <2>1. CASE Receives(i)
    <3>1. /\ state' = [state EXCEPT ![i] = "from arm11"] /\ state[i] = "idle"
          /\ shouldTerminate' = shouldTerminate
          /\ terminationRequestedEvent' = terminationRequestedEvent /\ mainThread' = mainThread
          /\ open' = open /\ client' = [client EXCEPT ![i] = "waiting"] /\ client[i] = "sent"
          /\ sender' = [pc |-> "send", replyTarget |-> None]
      BY <2>1, Zenon DEF Receives, ending, threads
    <3>2. ~shouldTerminate
      BY <1>0, <3>1 DEF SessionsOK
    <3>3. \A j \in Services : ~Answering(j)'
      BY <3>1, Constants DEF Answering
    <3>4. client'[i] = "waiting" /\ \A j \in Services : j # i => client'[j] = client[j]
      BY <1>0, <3>1
    <3>5. \A j \in Services : j # i => state'[j] = state[j]
      BY <1>0, <3>1, Constants
    <3>6. ASSUME NEW j \in Services PROVE j \in open' <=> client'[j] \notin {"absent", "connecting"}
      BY <1>0, <3>1, <3>4 DEF SessionsOK
    <3>7. ASSUME NEW j \in Services, state'[j] # "idle" PROVE client'[j] \in {"waiting", "gone"}
      BY <1>0, <3>2, <3>4, <3>5, <3>7, Zenon DEF SessionsOK
    <3> QED BY <1>0, <3>1, <3>2, <3>3, <3>6, <3>7, Zenon DEF SessionsOK
  <2> QED BY <1>2, <1>10, <2>1, ReceivesOne, Zenon
<1>11. CASE ReceiverGets
  <2>1. ASSUME NEW i \in All, Gets(i) PROVE SessionsOK'
    <3>1. /\ state' = [state EXCEPT ![i] = "from arm9"] /\ state[i] = "to arm9"
          /\ shouldTerminate' = shouldTerminate
          /\ mainThread' = mainThread /\ open' = open /\ client' = client /\ sender' = sender
          /\ terminationRequestedEvent' = terminationRequestedEvent \/ Ends(i)
      BY <2>1, Zenon DEF Gets, clients
    <3>2. \A j \in Services : Answering(j)' <=> Answering(j)
      BY <3>1 DEF Answering
    <3>3. state'[i] = "from arm9" /\ \A j \in Services : j # i => state'[j] = state[j]
      BY <1>0, <3>1, Constants
    <3>4. \A j \in Services : state'[j] = "idle" <=> state[j] = "idle"
      BY <3>1, <3>3
    <3>5. shouldTerminate => state'[0] \in {"to arm9", "from arm9"}
      BY <1>0, <3>3, Constants, Zenon DEF SessionsOK
    <3>6. terminationRequestedEvent' => shouldTerminate
      BY <1>0, <3>1, Zenon DEF SessionsOK, Ends
    <3> QED BY <1>0, <3>1, <3>2, <3>4, <3>5, <3>6, Zenon DEF SessionsOK
  <2> QED BY <1>0, <1>2, <1>11, <2>1, GetsOne, Zenon
<1>12. CASE Srv11Starts \/ Srv11Answers
  <2>1. CASE ~Panicking
    <3>1. /\ state' = [state EXCEPT ![Srv11] = "to arm9"] /\ sender' = sender
          /\ shouldTerminate' = shouldTerminate /\ mainThread' = mainThread
          /\ open' = open /\ client' = client
          /\ terminationRequestedEvent' = terminationRequestedEvent
      BY <1>12, <2>1, Zenon DEF Srv11Starts, Srv11Answers, clients, ending, threads
    <3>2. \A j \in Services : state'[j] = state[j] /\ (Answering(j)' <=> Answering(j))
      BY <1>0, <3>1, Constants DEF Answering
    <3> QED BY <1>0, <3>1, <3>2, Constants, Zenon DEF SessionsOK
  <2> QED BY <1>2, <2>1
<1>13. ASSUME NEW i \in Services, Accept(i) PROVE SessionsOK'
  <2>1. CASE ~Panicking
    <3>1. /\ open' = open \cup {i} /\ client' = [client EXCEPT ![i] = "quiet"]
          /\ client[i] = "connecting" /\ state' = state /\ sender' = sender
          /\ shouldTerminate' = shouldTerminate /\ mainThread' = mainThread
          /\ terminationRequestedEvent' = terminationRequestedEvent
      BY <1>13, <2>1, Zenon DEF Accept, ending, threads
    <3>2. client'[i] = "quiet" /\ \A j \in Services : j # i => client'[j] = client[j]
      BY <1>0, <3>1
    <3>3. ~shouldTerminate /\ state[i] = "idle" /\ ~Answering(i)
      BY <1>0, <3>1 DEF SessionsOK
    <3>4. \A j \in Services : Answering(j)' <=> Answering(j)
      BY <3>1 DEF Answering
    <3>5. ASSUME NEW j \in Services PROVE j \in open' <=> client'[j] \notin {"absent", "connecting"}
      BY <1>0, <3>1, <3>2 DEF SessionsOK
    <3>6. ASSUME NEW j \in Services, state[j] # "idle" \/ Answering(j)
          PROVE  client'[j] \in {"waiting", "gone"}
      BY <1>0, <3>2, <3>3, <3>6, Zenon DEF SessionsOK
    <3> QED BY <1>0, <3>1, <3>3, <3>4, <3>5, <3>6, Zenon DEF SessionsOK
  <2> QED BY <1>2, <2>1
<1>14. CASE Terminate
  <2>1. /\ state' = [state EXCEPT ![0] = "to arm9"] /\ sender' = sender
        /\ shouldTerminate' /\ mainThread' = "join" /\ open' = open /\ client' = client
        /\ mainThread = "serve" /\ \A i \in Services : client[i] \in {"absent", "quiet"}
    BY <1>14, Zenon DEF Terminate, clients
  <2>2. \A i \in Services : state[i] = "idle" /\ ~Answering(i) /\ ~Answering(i)'
    BY <1>0, <2>1 DEF SessionsOK, Answering
  <2>3. state'[0] = "to arm9" /\ \A i \in Services : i # 0 => state'[i] = "idle"
    BY <1>0, <2>1, <2>2, Constants
  <2>4. mainThread' # "serve"
    BY <2>1
  <2> QED BY <1>0, <2>1, <2>2, <2>3, <2>4, Zenon DEF SessionsOK
<1>15. CASE Joined
  <2>1. /\ state' = state /\ shouldTerminate' = shouldTerminate /\ open' = open
        /\ client' = client /\ sender' = sender /\ mainThread' = "ended"
        /\ terminationRequestedEvent' = terminationRequestedEvent
    BY <1>15, Zenon DEF Joined, ending, clients, sessionVars
  <2>2. mainThread' # "serve" /\ \A i \in Services : Answering(i)' <=> Answering(i)
    BY <2>1 DEF Answering
  <2> QED BY <1>0, <2>1, <2>2, Zenon DEF SessionsOK
<1>16. ASSUME NEW i \in Services, \/ Connect(i) \/ Leave(i)
                                  \/ \E k \in {"other", "stop", "go on"} : Send(i, k)
       PROVE  SessionsOK'
  <2>1. PICK x \in {"connecting", "sent", "gone"} :
          /\ client' = [client EXCEPT ![i] = x]
          /\ x = "connecting" => client[i] = "absent"
          /\ x = "sent" => client[i] = "quiet"
          /\ x = "gone" => client[i] \in {"quiet", "waiting"}
    BY <1>16, Zenon DEF Connect, Leave, Send, Does
  <2>2. /\ ~shouldTerminate /\ state' = state /\ shouldTerminate' = shouldTerminate /\ open' = open
        /\ sender' = sender /\ terminationRequestedEvent' = terminationRequestedEvent
        /\ mainThread' = mainThread
    BY <1>16, Zenon DEF Connect, Leave, Send, ClientStep, ending, threads, sessionVars
  <2>3. client'[i] = x /\ \A j \in Services : j # i => client'[j] = client[j]
    BY <1>0, <2>1
  <2>4. \A j \in Services : Answering(j)' <=> Answering(j)
    BY <2>2 DEF Answering
  <2>5. ASSUME NEW j \in Services PROVE j \in open' <=> client'[j] \notin {"absent", "connecting"}
    BY <1>0, <2>1, <2>2, <2>3 DEF SessionsOK
  <2>6. ASSUME NEW j \in Services, state[j] # "idle" \/ Answering(j)
        PROVE  client'[j] \in {"waiting", "gone"}
    <3>1. client[j] \in {"waiting", "gone"}
      BY <1>0, <2>2, <2>6, Zenon DEF SessionsOK
    <3> QED BY <2>1, <2>3, <3>1
  <2> QED BY <1>0, <2>2, <2>4, <2>5, <2>6, Zenon DEF SessionsOK
<1> QED BY <1>2, <1>3, <1>5, <1>6, <1>7, <1>8, <1>9, <1>10, <1>11, <1>12, <1>13, <1>14, <1>15, <1>16,
           Zenon
        DEF Next, Sender, Receiver, Srv11Thread, Main, Environment, Arm9

-----------------------------------------------------------------------------
(* The replies there are to take, and pxi:srv11.                            *)
LEMMA RepliedCounts ==
    ASSUME NEW S \in SUBSET Services
    PROVE  /\ IsFiniteSet(S) /\ Cardinality(S) \in Nat
           /\ \A i \in S : Cardinality(S \ {i}) = Cardinality(S) - 1
           /\ \A i \in Services \ S : Cardinality(S \cup {i}) = Cardinality(S) + 1
<1>1. IsFiniteSet(S)
  BY Constants, FS_Subset
<1>2. Cardinality(S) \in Nat
  BY <1>1, FS_CardinalityType
<1>3. ASSUME NEW i \in S PROVE Cardinality(S \ {i}) = Cardinality(S) - 1
  BY <1>1, <1>3, FS_RemoveElement
<1>4. ASSUME NEW i \in Services \ S PROVE Cardinality(S \cup {i}) = Cardinality(S) + 1
  BY <1>1, <1>4, FS_AddElement
<1> QED BY <1>1, <1>2, <1>3, <1>4

LEMMA ReplyStep == ASSUME Base, [Next]_vars PROVE ReplyCounted'
<1>0. /\ state \in [All -> Places] /\ SessionTypes /\ SessionsOK /\ FlowTypes /\ ReplyCounted
      /\ replySemaphore \in Nat /\ Replied \in SUBSET Services
  BY Zenon DEF Base, Types, FlowTypes, CountTypes, Replied
<1>1. ASSUME UNCHANGED <<replySemaphore, shouldTerminate>>,
             \A i \in Services : state'[i] = "from arm9" <=> state[i] = "from arm9"
      PROVE  ReplyCounted'
  <2>1. Replied' = Replied
    BY <1>1, Zenon DEF Replied
  <2> QED BY <1>0, <1>1, <2>1, Zenon DEF ReplyCounted
<1>2. ASSUME \/ UNCHANGED vars \/ Panicking \/ SenderReplies \/ SenderTerminates \/ SenderIsAwoken
             \/ \E i \in Services : SenderSeesClosed(i) \/ Accept(i) \/ Connect(i) \/ Leave(i)
                                    \/ \E k \in {"other", "stop", "go on"} : Send(i, k)
             \/ ReceiverGoesOn \/ ReceiverTerminates \/ Srv11Terminates \/ Joined
             \/ Arm9Commands \/ \E i \in Services : Arm9Replies(i)
      PROVE  ReplyCounted'
  <2>1. UNCHANGED <<replySemaphore, shouldTerminate, state>>
    BY <1>2, Zenon DEF vars, sessionVars, ending, Panicking, SenderReplies, SenderTerminates,
       SenderIsAwoken, SenderSeesClosed, Accept, Connect, Leave, Send, ClientStep, ReceiverGoesOn,
       ReceiverTerminates, Srv11Terminates, Joined, Arm9Commands, Arm9Replies, Arm9Step
  <2> QED BY <1>1, <2>1, Zenon
<1>3. CASE SenderSends
  <2>1. UNCHANGED <<replySemaphore, shouldTerminate>>
    BY <1>3, SendsOne, Zenon DEF ending
  <2>2. ASSUME NEW sent \in {{}, Ready}, Sends(sent)
        PROVE  \A i \in Services : state'[i] = "from arm9" <=> state[i] = "from arm9"
    <3>1. state' = [i \in All |-> IF i \in sent THEN "to arm9" ELSE state[i]]
      BY <2>2, Zenon DEF Sends
    <3>2. \A i \in sent : state[i] = "from arm11"
      BY DEF Ready
    <3> QED BY <3>1, <3>2, Constants
  <2>3. SendsNone => state' = state
    BY Zenon DEF SendsNone
  <2> QED BY <1>1, <1>3, <2>1, <2>2, <2>3, SendsOne, Zenon
<1>4. CASE SenderTakesReply
  <2>1. ASSUME NEW i \in Services, Takes(i) PROVE ReplyCounted'
    <3>1. /\ state' = [state EXCEPT ![i] = "idle"] /\ state[i] = "from arm9"
          /\ shouldTerminate' = shouldTerminate
          /\ replySemaphore' = replySemaphore - 1 /\ replySemaphore > 0
      BY <2>1, Zenon DEF Takes, ending
    <3>2. ~shouldTerminate
      <4>1. replySemaphore # 0
        <5>1. replySemaphore > 0
          BY <3>1, Zenon
        <5> QED BY <5>1
      <4> QED BY <1>0, <4>1, Zenon DEF ReplyCounted
    <3>3. Replied' = Replied \ {i} /\ i \in Replied
      BY <1>0, <3>1, Constants DEF Replied
    <3>4. Cardinality(Replied \ {i}) = Cardinality(Replied) - 1
      BY <1>0, <3>3, RepliedCounts, Zenon
    <3>5. replySemaphore = Cardinality(Replied)
      BY <1>0, <3>2, Zenon DEF ReplyCounted
    <3> QED BY <3>1, <3>2, <3>3, <3>4, <3>5, Zenon DEF ReplyCounted
  <2> QED BY <1>2, <1>4, <2>1, TakesOne, Zenon
<1>5. ASSUME NEW i \in Services, SenderReceives(i) PROVE ReplyCounted'
  <2>1. CASE Receives(i)
    <3>1. /\ state' = [state EXCEPT ![i] = "from arm11"] /\ state[i] = "idle"
          /\ UNCHANGED <<replySemaphore, shouldTerminate>>
      BY <2>1, Zenon DEF Receives, ending
    <3>2. \A j \in Services : state'[j] = "from arm9" <=> state[j] = "from arm9"
      BY <1>0, <3>1, Constants
    <3> QED BY <1>1, <3>1, <3>2, Zenon
  <2> QED BY <1>2, <1>5, <2>1, ReceivesOne, Zenon
<1>6. CASE ReceiverGets
  <2>1. ASSUME NEW i \in All, Gets(i) PROVE ReplyCounted'
    <3>1. /\ state' = [state EXCEPT ![i] = "from arm9"] /\ state[i] = "to arm9"
          /\ shouldTerminate' = shouldTerminate
          /\ \/ Ends(i) /\ replySemaphore' = replySemaphore
             \/ i # Srv11 /\ ~Ends(i) /\ replySemaphore' = replySemaphore + 1
             \/ i = Srv11 /\ replySemaphore' = replySemaphore
      BY <2>1, Zenon DEF Gets
    <3>2. CASE i = Srv11
      <4>1. \A j \in Services : state'[j] = state[j]
        BY <1>0, <3>1, <3>2, Constants
      <4>2. replySemaphore' = replySemaphore
        BY <3>1, <3>2, Constants, Zenon DEF Ends
      <4> QED BY <1>1, <3>1, <4>1, <4>2, Zenon
    <3>3. CASE Ends(i)
      <4>1. replySemaphore' = replySemaphore /\ shouldTerminate
        BY <3>1, <3>3, Constants, Zenon DEF Ends
      <4> QED BY <1>0, <3>1, <4>1, Zenon DEF ReplyCounted
    <3>4. CASE i # Srv11 /\ ~Ends(i)
      <4>1. i \in Services /\ replySemaphore' = replySemaphore + 1
        BY <3>1, <3>4, Zenon DEF All
      <4>2. ~shouldTerminate
        <5>1. shouldTerminate => i # 0
          BY <3>4, Zenon DEF Ends
        <5> QED BY <1>0, <3>1, <4>1, <5>1 DEF SessionsOK
      <4>3. Replied' = Replied \cup {i} /\ i \in Services \ Replied
        BY <1>0, <3>1, <4>1, Constants DEF Replied
      <4>4. Cardinality(Replied \cup {i}) = Cardinality(Replied) + 1
        BY <1>0, <4>3, RepliedCounts, Zenon
      <4>5. replySemaphore = Cardinality(Replied)
        BY <1>0, <4>2, Zenon DEF ReplyCounted
      <4> QED BY <3>1, <4>1, <4>2, <4>3, <4>4, <4>5, Zenon DEF ReplyCounted
    <3> QED BY <3>2, <3>3, <3>4
  <2> QED BY <1>0, <1>2, <1>6, <2>1, GetsOne, Zenon
<1>7. CASE Srv11Starts \/ Srv11Answers
  <2>1. CASE ~Panicking
    <3>1. /\ state' = [state EXCEPT ![Srv11] = "to arm9"]
          /\ UNCHANGED <<replySemaphore, shouldTerminate>>
      BY <1>7, <2>1, Zenon DEF Srv11Starts, Srv11Answers, ending
    <3>2. \A j \in Services : state'[j] = state[j]
      BY <1>0, <3>1, Constants
    <3> QED BY <1>1, <3>1, <3>2, Zenon
  <2> QED BY <1>2, <2>1
<1>8. CASE Terminate
  <2>1. /\ shouldTerminate' /\ replySemaphore' = replySemaphore /\ mainThread = "serve"
        /\ \A i \in Services : client[i] \in {"absent", "quiet"}
    BY <1>8, Zenon DEF Terminate
  <2>2. \A i \in Services : state[i] # "from arm9"
    BY <1>0, <2>1 DEF SessionsOK
  <2>3. Replied = {}
    BY <2>2, Zenon DEF Replied
  <2>4. Cardinality(Replied) = 0
    BY <2>3, SenderCounts, <1>0
  <2>5. replySemaphore = 0
    BY <1>0, <2>4, Zenon DEF ReplyCounted
  <2> QED BY <2>1, <2>5, Zenon DEF ReplyCounted
<1> QED BY <1>2, <1>3, <1>4, <1>5, <1>6, <1>7, <1>8, Zenon
        DEF Next, Sender, Receiver, Srv11Thread, Main, Environment, Arm9

LEMMA Srv11Step == ASSUME Base, [Next]_vars PROVE Srv11OK'
<1>0. /\ state \in [All -> Places] /\ SessionTypes /\ SessionsOK /\ FlowTypes /\ FlowOK /\ Srv11OK
      /\ arm9 \in [All -> Nat] /\ fromArm9 \in Seq(All)
  BY Zenon DEF Base, Types, FlowTypes
<1> DEFINE S == Sent(Srv11)
           Waits == arm9[Srv11] = 1 \/ Sent(Srv11)
<1>1. ASSUME UNCHANGED <<receiver, srv11Handler, srv11Events>>, state'[Srv11] = state[Srv11],
             Waits' <=> Waits
      PROVE  Srv11OK'
  <2>1. UNCHANGED <<receiver, srv11Handler, PXISRV11CommandReceivedEvent, PXISRV11ReplySentEvent>>
    BY <1>1, Zenon DEF srv11Events
  <2> QED BY <1>0, <1>1, <2>1, Zenon DEF Srv11OK
<1>2. ASSUME UNCHANGED <<arm9, fromArm9>> PROVE Waits' <=> Waits
  BY <1>2, Zenon DEF Sent
<1>3. ASSUME \/ UNCHANGED vars \/ Panicking \/ SenderReplies \/ SenderTerminates \/ SenderIsAwoken
             \/ \E i \in Services : SenderSeesClosed(i) \/ Accept(i) \/ Connect(i) \/ Leave(i)
                                    \/ \E k \in {"other", "stop", "go on"} : Send(i, k)
             \/ Joined
      PROVE  Srv11OK'
  <2>1. UNCHANGED <<receiver, srv11Handler, srv11Events, state, arm9, fromArm9>>
    BY <1>3, Zenon DEF vars, sessionVars, threads, Panicking, SenderReplies, SenderTerminates,
       SenderIsAwoken, SenderSeesClosed, Accept, Connect, Leave, Send, ClientStep, Joined
  <2> QED BY <1>1, <1>2, <2>1, Zenon
<1>4. CASE SenderSends
  <2>1. UNCHANGED <<receiver, srv11Handler, srv11Events, fromArm9>>
    BY <1>4, SendsOne, Zenon DEF threads
  <2>2. state'[Srv11] = state[Srv11] /\ arm9'[Srv11] = arm9[Srv11]
    <3>1. ASSUME NEW sent \in {{}, Ready}, Sends(sent)
          PROVE  state'[Srv11] = state[Srv11] /\ arm9'[Srv11] = arm9[Srv11]
      <4>1. /\ state' = [i \in All |-> IF i \in sent THEN "to arm9" ELSE state[i]]
            /\ arm9' = [i \in All |-> IF i \in sent THEN arm9[i] + 1 ELSE arm9[i]]
        BY <3>1, Zenon DEF Sends
      <4>2. Srv11 \notin sent
        BY <1>0, Constants DEF Ready, SessionTypes
      <4> QED BY <4>1, <4>2, Constants, Zenon
    <3> QED BY <1>4, <3>1, SendsOne, Zenon DEF SendsNone
  <2> QED BY <1>1, <2>1, <2>2, Zenon DEF Sent
<1>5. CASE SenderTakesReply
  <2>1. ASSUME NEW i \in Services, Takes(i) PROVE Srv11OK'
    <3>1. /\ UNCHANGED <<receiver, srv11Handler, srv11Events, arm9, fromArm9>>
          /\ state' = [state EXCEPT ![i] = "idle"]
      BY <2>1, Zenon DEF Takes, threads
    <3>2. state'[Srv11] = state[Srv11]
      BY <1>0, <3>1, Constants
    <3> QED BY <1>1, <1>2, <3>1, <3>2, Zenon
  <2> QED BY <1>3, <1>5, <2>1, TakesOne, Zenon
<1>6. ASSUME NEW i \in Services, SenderReceives(i) PROVE Srv11OK'
  <2>1. CASE Receives(i)
    <3>1. /\ UNCHANGED <<receiver, srv11Handler, srv11Events, arm9, fromArm9>>
          /\ state' = [state EXCEPT ![i] = "from arm11"]
      BY <2>1, Zenon DEF Receives, threads
    <3>2. state'[Srv11] = state[Srv11]
      BY <1>0, <3>1, Constants
    <3> QED BY <1>1, <1>2, <3>1, <3>2, Zenon
  <2> QED BY <1>3, <1>6, <2>1, ReceivesOne, Zenon
<1>7. CASE ReceiverGets
  <2>1. ASSUME NEW i \in All, Gets(i) PROVE Srv11OK'
    <3>1. /\ state' = [state EXCEPT ![i] = "from arm9"] /\ state[i] = "to arm9" /\ arm9' = arm9
          /\ fromArm9 # <<>> /\ i = fromArm9[1] /\ fromArm9' = Tail(fromArm9)
          /\ receiver = "wait" /\ srv11Handler' = srv11Handler
          /\ PXISRV11ReplySentEvent' = PXISRV11ReplySentEvent
      BY <2>1, Zenon DEF Gets
    <3>2. /\ Sent(i) /\ ~Sent(i)' /\ \A j \in All : j # i => (Sent(j)' <=> Sent(j))
      BY <1>0, <3>1, Received, Zenon DEF Sent, FlowOK
    <3>3. CASE i # Srv11
      <4>1. UNCHANGED <<receiver, PXISRV11CommandReceivedEvent>>
        BY <2>1, <3>3, Zenon DEF Gets
      <4>2. state'[Srv11] = state[Srv11] /\ (Waits' <=> Waits)
        <5>1. state'[Srv11] = state[Srv11]
          BY <1>0, <3>1, <3>3, Constants
        <5> QED BY <3>1, <3>2, <3>3, <5>1, Constants, Zenon
      <4> QED BY <1>1, <3>1, <4>1, <4>2, Zenon DEF srv11Events
    <3>4. CASE i = Srv11
      <4>1. PXISRV11CommandReceivedEvent' = TRUE /\ receiver' = "srv11"
        BY <2>1, <3>4, Constants, Zenon DEF Gets, Ends
      <4>2. state'[Srv11] = "from arm9"
        BY <1>0, <3>1, <3>4, Constants
      <4>3. ~Waits'
        <5>1. arm9[Srv11] = 0
          BY <1>0, <3>2, <3>4, Constants, Zenon DEF FlowOK
        <5>2. arm9'[Srv11] # 1
          <6>1. arm9'[Srv11] = 0
            BY <3>1, <5>1, Zenon
          <6> QED BY <6>1
        <5> QED BY <3>2, <3>4, <5>2, Zenon
      <4>4. srv11Handler # "start" /\ ~PXISRV11ReplySentEvent
        BY <1>0, <3>1 DEF Srv11OK
      <4>5. PXISRV11CommandReceivedEvent' /\ ~PXISRV11ReplySentEvent' /\ srv11Handler' # "start"
        BY <3>1, <4>1, <4>4, Zenon
      <4> QED BY <4>1, <4>2, <4>3, <4>5, Zenon DEF Srv11OK
    <3> QED BY <3>3, <3>4
  <2> QED BY <1>0, <1>3, <1>7, <2>1, GetsOne, Zenon
<1>8. CASE ReceiverGoesOn
  <2>1. /\ receiver \in {"start", "srv11"} /\ PXISRV11ReplySentEvent /\ ~PXISRV11ReplySentEvent'
        /\ receiver' = "wait" /\ UNCHANGED <<state, arm9, fromArm9, srv11Handler>>
        /\ PXISRV11CommandReceivedEvent' = PXISRV11CommandReceivedEvent
    BY <1>8, Zenon DEF ReceiverGoesOn, sessionVars
  <2>2. state[Srv11] = "to arm9" /\ srv11Handler # "start" /\ ~PXISRV11CommandReceivedEvent
    BY <1>0, <2>1, Zenon DEF Srv11OK
  <2>3. Waits' <=> Waits
    BY <1>2, <2>1, Zenon
  <2> QED BY <1>0, <2>1, <2>2, <2>3, Zenon DEF Srv11OK
<1>9. CASE ReceiverTerminates
  <2>1. /\ receiver = "wait" /\ receiver' = "ended"
        /\ UNCHANGED <<state, arm9, fromArm9, srv11Handler, PXISRV11CommandReceivedEvent,
                       PXISRV11ReplySentEvent>>
    BY <1>9, Zenon DEF ReceiverTerminates, sessionVars, srv11Events
  <2>2. Waits' <=> Waits
    BY <1>2, <2>1, Zenon
  <2>3. receiver \notin {"start", "srv11"}
    BY <2>1
  <2>4. /\ srv11Handler # "start" /\ state[Srv11] = "to arm9"
        /\ ~PXISRV11ReplySentEvent /\ ~PXISRV11CommandReceivedEvent
    BY <1>0, <2>3, Zenon DEF Srv11OK
  <2> QED BY <1>0, <2>1, <2>2, <2>4, Zenon DEF Srv11OK
<1>10. CASE Srv11Starts
  <2>1. /\ srv11Handler = "start" /\ srv11Handler' = "wait" /\ PXISRV11ReplySentEvent'
        /\ state' = [state EXCEPT ![Srv11] = "to arm9"]
        /\ UNCHANGED <<arm9, fromArm9, receiver, PXISRV11CommandReceivedEvent>>
    BY <1>10, Zenon DEF Srv11Starts
  <2>2. receiver = "start" /\ state[Srv11] = "idle" /\ ~PXISRV11CommandReceivedEvent
    BY <1>0, <2>1, Zenon DEF Srv11OK
  <2>3. state'[Srv11] = "to arm9" /\ srv11Handler' # "start"
    BY <1>0, <2>1, Constants
  <2>4. state[Srv11] # "from arm9" /\ state'[Srv11] # "from arm9"
    BY <2>2, <2>3
  <2>5. Waits' <=> Waits
    BY <1>2, <2>1, Zenon
  <2> QED BY <1>0, <2>1, <2>2, <2>3, <2>4, <2>5, Zenon DEF Srv11OK
<1>11. CASE Srv11Answers
  <2>1. CASE ~Panicking
    <3>1. /\ PXISRV11CommandReceivedEvent /\ ~PXISRV11CommandReceivedEvent'
          /\ PXISRV11ReplySentEvent' /\ state[Srv11] = "from arm9"
          /\ state' = [state EXCEPT ![Srv11] = "to arm9"]
          /\ arm9' = [arm9 EXCEPT ![Srv11] = arm9[Srv11] + 1]
          /\ UNCHANGED <<receiver, srv11Handler>>
      BY <1>11, <2>1, Zenon DEF Srv11Answers, threads
    <3>2. receiver = "srv11" /\ srv11Handler # "start" /\ arm9[Srv11] # 1
      BY <1>0, <3>1, Zenon DEF Srv11OK
    <3>3. arm9[Srv11] = 0
      BY <1>0, <3>2, Constants, Zenon DEF FlowOK
    <3>4. arm9'[Srv11] = 1
      BY <1>0, <3>1, <3>3, Constants, Moved, Zenon
    <3>5. state'[Srv11] = "to arm9"
      BY <1>0, <3>1, Constants
    <3>6. state'[Srv11] # "from arm9"
      BY <3>5
    <3> QED BY <3>1, <3>2, <3>4, <3>5, <3>6, Zenon DEF Srv11OK
  <2> QED BY <1>3, <2>1
<1>12. CASE Srv11Terminates
  <2>1. /\ srv11Handler = "wait" /\ srv11Handler' = "ended"
        /\ UNCHANGED <<arm9, fromArm9, receiver, PXISRV11CommandReceivedEvent,
                       PXISRV11ReplySentEvent, state>>
    BY <1>12, Zenon DEF Srv11Terminates, sessionVars, srv11Events
  <2>2. srv11Handler # "start" /\ srv11Handler' # "start"
    BY <2>1
  <2>3. Waits' <=> Waits
    BY <1>2, <2>1, Zenon
  <2> QED BY <1>0, <2>1, <2>2, <2>3, Zenon DEF Srv11OK
<1>13. CASE Terminate
  <2>1. /\ state' = [state EXCEPT ![0] = "to arm9"]
        /\ arm9' = [arm9 EXCEPT ![0] = arm9[0] + 1]
        /\ UNCHANGED <<fromArm9, receiver, srv11Handler, srv11Events>>
    BY <1>13, Zenon DEF Terminate
  <2>2. state'[Srv11] = state[Srv11]
    BY <1>0, <2>1, Constants
  <2>3. arm9'[Srv11] = arm9[Srv11]
    BY <1>0, <2>1, Constants, Moved, Zenon
  <2> QED BY <1>1, <2>1, <2>2, <2>3, Zenon DEF Sent
<1>14. CASE Arm9Commands \/ \E i \in Services : Arm9Replies(i)
  <2>1. PICK i \in All : /\ arm9[i] > 0
                         /\ UNCHANGED <<state, receiver, srv11Handler, srv11Events>>
                         /\ arm9' = [arm9 EXCEPT ![i] = @ - 1]
                         /\ fromArm9' = Append(fromArm9, i)
    BY <1>14, Constants, Zenon DEF Arm9Commands, Arm9Replies, Arm9Step, sessionVars, threads
  <2>2. arm9[i] = 1 /\ ~Sent(i)
    <3>1. arm9[i] \in {0, 1} /\ (Sent(i) => arm9[i] = 0)
      BY <1>0, Zenon DEF FlowOK
    <3>2. arm9[i] > 0
      BY <2>1, Zenon
    <3>3. arm9[i] # 0
      BY <3>2
    <3> QED BY <3>1, <3>3, Zenon
  <2>3. /\ Sent(i)' /\ \A j \in All : j # i => (Sent(j)' <=> Sent(j))
    BY <1>0, <2>1, <2>2, Appended, Zenon DEF Sent, FlowOK
  <2>4. \A j \in All : j # i => arm9'[j] = arm9[j]
    BY <1>0, <2>1, <2>2, Moved, Zenon
  <2>5. Waits' <=> Waits
    BY <2>2, <2>3, <2>4, Constants, Zenon
  <2> QED BY <1>1, <2>1, <2>5, Zenon
<1> QED BY <1>3, <1>4, <1>5, <1>6, <1>7, <1>8, <1>9, <1>10, <1>11, <1>12, <1>13, <1>14, Zenon
        DEF Next, Sender, Receiver, Srv11Thread, Main, Environment, Arm9

-----------------------------------------------------------------------------
(* The static buffers.                                                      *)
LEMMA Provided ==
    ASSUME NEW F \in SUBSET (1 .. NbBuffers)
    PROVE  /\ clearMSBs(F, Slots) \in SUBSET F
           /\ Cardinality(F \ clearMSBs(F, Slots)) <= Slots
<1>1. F \in SUBSET Nat /\ Slots \in Nat
  BY Constants
<1>2. IsFiniteSet(F)
  <2>1. IsFiniteSet(1 .. NbBuffers)
    <3>1. NbBuffers \in Int /\ 1 \in Int
      BY Constants
    <3> QED BY <3>1, FS_Interval
  <2> QED BY <2>1, FS_Subset
<1> QED BY <1>1, <1>2, Cleared

LEMMA KeptFits ==
    ASSUME BufferTypes, ProvidedFit, NEW i \in Services,
           ~(Cardinality(currentlyProvidedStaticBuffers) < Slots)
    PROVE  Cardinality(Kept(i)) = Needs[i]
<1> DEFINE P == currentlyProvidedStaticBuffers
           n == Slots - Needs[i]
<1>1. P \in SUBSET Nat
  BY DEF BufferTypes
<1>2. IsFiniteSet(P)
  <2>1. IsFiniteSet(1 .. NbBuffers)
    <3>1. NbBuffers \in Int /\ 1 \in Int
      BY Constants
    <3> QED BY <3>1, FS_Interval
  <2> QED BY <2>1, FS_Subset DEF BufferTypes
<1>3. Needs[i] \in 0 .. Slots /\ Slots \in Nat
  BY Constants
<1>4. n \in Nat /\ n <= Slots /\ Slots - n = Needs[i]
  BY <1>3
<1>5. Cardinality(P) \in Nat
  BY <1>2, FS_CardinalityType
<1>6. Cardinality(P) = Slots
  BY <1>3, <1>5 DEF ProvidedFit
<1> HIDE DEF n, P
<1>7. n <= Cardinality(P) => Cardinality(clearMSBs(P, n)) = Cardinality(P) - n
  BY <1>1, <1>2, <1>4, Cleared
<1>8. Cardinality(clearMSBs(P, n)) = Needs[i]
  BY <1>4, <1>6, <1>7, Zenon
<1> QED BY <1>8 DEF Kept, P, n

LEMMA Apart ==
    ASSUME BuffersOwned, NEW j \in Services, NEW k \in Services, j # k
    PROVE  used[j] \cap used[k] = {}
<1> SUFFICES ASSUME NEW x, x \in used[j], x \in used[k] PROVE FALSE
  OBVIOUS
<1>1. used[k] \in {used[l] : l \in Services \ {j}}
  BY Zenon
<1>2. x \in UNION {used[l] : l \in Services \ {j}}
  BY <1>1, Zenon
<1>3. used[j] \cap (freeStaticBuffers \cup currentlyProvidedStaticBuffers
                   \cup UNION {used[l] : l \in Services \ {j}}) = {}
  BY Zenon DEF BuffersOwned
<1> QED BY <1>2, <1>3, Zenon

LEMMA BuffersInit == PXIInit => Buffers
<1> SUFFICES ASSUME PXIInit PROVE Buffers
  OBVIOUS
<1>1. ProvidedFit
  <2>1. 1 .. NbBuffers \in SUBSET (1 .. NbBuffers)
    OBVIOUS
  <2> QED BY <2>1, Provided, Zenon DEF PXIInit, ProvidedFit
<1>2. /\ used = [i \in Services |-> {}] /\ state = [i \in All |-> "idle"]
      /\ freeStaticBuffers \cap currentlyProvidedStaticBuffers = {}
  BY DEF PXIInit
<1>3. \A i \in Services : state[i] = "idle" /\ used[i] = {}
  BY <1>2, Constants
<1> QED BY <1>1, <1>2, <1>3 DEF Buffers, BuffersOwned

LEMMA BuffersStep == ASSUME Base, [Next]_vars PROVE Buffers'
<1>0. /\ state \in [All -> Places] /\ SessionTypes /\ FlowTypes /\ BufferTypes /\ SessionsOK
      /\ used \in [Services -> SUBSET (1 .. NbBuffers)] /\ BuffersOwned /\ ProvidedFit
  BY Zenon DEF Base, Types, FlowTypes, BufferTypes, Buffers
<1> DEFINE Busy(i) == state[i] \in {"from arm11", "to arm9"} /\ ~shouldTerminate
<1>1. ASSUME UNCHANGED <<used, buffers>>, \A i \in Services : Busy(i)' => Busy(i)
      PROVE  Buffers'
  <2>1. UNCHANGED <<used, currentlyProvidedStaticBuffers, freeStaticBuffers, scarce>>
    BY <1>1, Zenon DEF buffers
  <2>2. \A i \in Services \ scarce' : Busy(i)' => Cardinality(used'[i]) = Needs[i]
    BY <1>0, <1>1, <2>1, Zenon DEF BuffersOwned
  <2>3. /\ \A i \in Services :
              used'[i] \cap (freeStaticBuffers' \cup currentlyProvidedStaticBuffers'
                            \cup UNION {used'[j] : j \in Services \ {i}}) = {}
        /\ freeStaticBuffers' \cap currentlyProvidedStaticBuffers' = {}
    <3>1. /\ \A i \in Services :
                used[i] \cap (freeStaticBuffers \cup currentlyProvidedStaticBuffers
                             \cup UNION {used[j] : j \in Services \ {i}}) = {}
          /\ freeStaticBuffers \cap currentlyProvidedStaticBuffers = {}
      BY <1>0, Zenon DEF BuffersOwned
    <3> QED BY <2>1, <3>1
  <2>4. ProvidedFit'
    BY <1>0, <2>1, Zenon DEF ProvidedFit
  <2> QED BY <2>2, <2>3, <2>4, Zenon DEF Buffers, BuffersOwned
<1>2. ASSUME \/ UNCHANGED vars \/ Panicking \/ SenderReplies \/ SenderTerminates \/ SenderIsAwoken
             \/ \E i \in Services : SenderSeesClosed(i) \/ Accept(i) \/ Connect(i) \/ Leave(i)
                                    \/ \E k \in {"other", "stop", "go on"} : Send(i, k)
             \/ ReceiverGoesOn \/ ReceiverTerminates \/ Srv11Terminates \/ Joined
             \/ Arm9Commands \/ \E i \in Services : Arm9Replies(i)
      PROVE  Buffers'
  <2>1. UNCHANGED <<used, buffers, shouldTerminate, state>>
    BY <1>2, Zenon DEF vars, sessionVars, ending, Panicking, SenderReplies, SenderTerminates,
       SenderIsAwoken, SenderSeesClosed, Accept, Connect, Leave, Send, ClientStep, ReceiverGoesOn,
       ReceiverTerminates, Srv11Terminates, Joined, Arm9Commands, Arm9Replies, Arm9Step
  <2> QED BY <1>1, <2>1, Zenon
<1>3. CASE SenderSends
  <2>1. UNCHANGED <<used, buffers, shouldTerminate>>
    BY <1>3, SendsOne, Zenon DEF ending
  <2>2. ASSUME NEW sent \in {{}, Ready}, Sends(sent)
        PROVE  \A i \in Services : state'[i] = state[i] \/ state[i] = "from arm11"
    <3>1. state' = [i \in All |-> IF i \in sent THEN "to arm9" ELSE state[i]]
      BY <2>2, Zenon DEF Sends
    <3>2. \A i \in sent : state[i] = "from arm11"
      BY DEF Ready
    <3> QED BY <3>1, <3>2, Constants
  <2>3. \A i \in Services : state'[i] = state[i] \/ state[i] = "from arm11"
    BY <1>3, <2>2, SendsOne, Zenon DEF SendsNone
  <2> QED BY <1>1, <2>1, <2>3, Zenon
<1>4. CASE SenderTakesReply
  <2>1. ASSUME NEW i \in Services, Takes(i) PROVE Buffers'
    <3>1. /\ state' = [state EXCEPT ![i] = "idle"] /\ shouldTerminate' = shouldTerminate
          /\ freeStaticBuffers' = freeStaticBuffers \cup used[i]
          /\ used' = [used EXCEPT ![i] = {}]
          /\ currentlyProvidedStaticBuffers' = currentlyProvidedStaticBuffers
          /\ scarce' = scarce
      BY <2>1, Zenon DEF Takes, ending
    <3>2. /\ state'[i] = "idle" /\ used'[i] = {}
          /\ \A j \in Services : j # i => state'[j] = state[j] /\ used'[j] = used[j]
      BY <1>0, <3>1, Constants
    <3>3. \A j \in Services \ scarce : Busy(j)' => Cardinality(used'[j]) = Needs[j]
      <4>1. ASSUME NEW j \in Services \ scarce, Busy(j)' PROVE j # i
        BY <3>2, <4>1
      <4> QED BY <1>0, <3>1, <3>2, <4>1, Zenon DEF BuffersOwned
    <3>4. \A j, k \in Services : j # k => used[j] \cap used[k] = {}
      BY <1>0, Apart, Zenon
    <3>5. \A j \in Services : used[j] \cap (freeStaticBuffers \cup currentlyProvidedStaticBuffers) = {}
      BY <1>0 DEF BuffersOwned
    <3>6. \A j, k \in Services : j # k => used'[j] \cap used'[k] = {}
      BY <3>2, <3>4
    <3>7. \A j \in Services :
             used'[j] \cap (freeStaticBuffers' \cup currentlyProvidedStaticBuffers') = {}
      BY <3>1, <3>2, <3>4, <3>5
    <3>8. freeStaticBuffers' \cap currentlyProvidedStaticBuffers' = {}
      BY <1>0, <3>1, <3>5 DEF BuffersOwned
    <3>9. \A j \in Services :
             used'[j] \cap (freeStaticBuffers' \cup currentlyProvidedStaticBuffers'
                            \cup UNION {used'[k] : k \in Services \ {j}}) = {}
      BY <3>6, <3>7
    <3>10. ProvidedFit'
      BY <1>0, <3>1, Zenon DEF ProvidedFit
    <3> QED BY <3>1, <3>3, <3>8, <3>9, <3>10, Zenon DEF Buffers, BuffersOwned
  <2> QED BY <1>2, <1>4, <2>1, TakesOne, Zenon
<1>5. ASSUME NEW i \in Services, SenderReceives(i) PROVE Buffers'
  <2>1. CASE Receives(i)
    <3> DEFINE P == currentlyProvidedStaticBuffers
               F == freeStaticBuffers \cup (P \ Kept(i))
    <3>1. /\ state' = [state EXCEPT ![i] = "from arm11"] /\ shouldTerminate' = shouldTerminate
          /\ i \notin scarce' => ~(Cardinality(P) < Slots)
          /\ \A j \in Services \ {i} : j \in scarce' <=> j \in scarce
          /\ used' = [used EXCEPT ![i] = Kept(i)]
          /\ freeStaticBuffers' = clearMSBs(F, Slots)
          /\ currentlyProvidedStaticBuffers' = F \ clearMSBs(F, Slots)
      BY <2>1, Zenon DEF Receives, ending, Acquire
    <3>2. Kept(i) \in SUBSET P
      BY DEF Kept, clearMSBs
    <3>3. /\ used'[i] = Kept(i)
          /\ \A j \in Services : j # i => state'[j] = state[j] /\ used'[j] = used[j]
      BY <1>0, <3>1, Constants
    <3>4. F \in SUBSET (1 .. NbBuffers)
      BY <1>0, <3>2 DEF BufferTypes
    <3>5. clearMSBs(F, Slots) \in SUBSET F /\ Cardinality(F \ clearMSBs(F, Slots)) <= Slots
      BY <3>4, Provided
    <3>6. ProvidedFit' /\ freeStaticBuffers' \cap currentlyProvidedStaticBuffers' = {}
      BY <3>1, <3>5, Zenon DEF ProvidedFit
    <3>7. ASSUME NEW j \in Services \ scarce', Busy(j)' PROVE Cardinality(used'[j]) = Needs[j]
      <4>1. CASE j = i
        <5>1. Cardinality(Kept(i)) = Needs[i]
          BY <1>0, <3>1, <3>7, <4>1, KeptFits, Zenon
        <5> QED BY <3>3, <4>1, <5>1, Zenon
      <4>2. CASE j # i
        <5>1. j \in Services \ scarce /\ Busy(j)
          BY <3>1, <3>3, <3>7, <4>2, Zenon
        <5> QED BY <1>0, <3>3, <4>2, <5>1, Zenon DEF BuffersOwned
      <4> QED BY <4>1, <4>2
    <3>8. \A j \in Services :
             used'[j] \cap (freeStaticBuffers' \cup currentlyProvidedStaticBuffers'
                            \cup UNION {used'[k] : k \in Services \ {j}}) = {}
      <4>1. freeStaticBuffers \cap P = {}
        BY <1>0, Zenon DEF BuffersOwned
      <4>2. \A j, k \in Services : j # k => used[j] \cap used[k] = {}
        BY <1>0, Apart, Zenon
      <4>3. \A j \in Services : used[j] \cap freeStaticBuffers = {} /\ used[j] \cap P = {}
        BY <1>0 DEF BuffersOwned
      <4> HIDE DEF P
      <4>4. freeStaticBuffers' \cup currentlyProvidedStaticBuffers' = F
        <5> HIDE DEF F
        <5> QED BY <3>1, <3>5
      <4>5. Kept(i) \cap F = {} /\ \A j \in Services : used[j] \cap F = {}
        BY <3>2, <4>1, <4>3
      <4>6. \A j \in Services : used'[j] \cap F = {}
        <5> HIDE DEF F
        <5> QED BY <3>3, <4>5, Zenon
      <4>7. \A j, k \in Services : j # k => used'[j] \cap used'[k] = {}
        <5>1. \A j \in Services : used[j] \cap Kept(i) = {}
          BY <3>2, <4>3
        <5> QED BY <3>3, <4>2, <5>1
      <4> HIDE DEF F
      <4> QED BY <4>4, <4>6, <4>7
    <3> HIDE DEF P, F
    <3> QED BY <3>6, <3>7, <3>8, Zenon DEF Buffers, BuffersOwned
  <2> QED BY <1>2, <1>5, <2>1, ReceivesOne, Zenon
<1>6. CASE ReceiverGets
  <2>1. ASSUME NEW i \in All, Gets(i) PROVE Buffers'
    <3>1. /\ state' = [state EXCEPT ![i] = "from arm9"] /\ state[i] = "to arm9"
          /\ shouldTerminate' = shouldTerminate /\ UNCHANGED <<used, buffers>>
      BY <2>1, Zenon DEF Gets
    <3>2. \A j \in Services : Busy(j)' => Busy(j)
      BY <1>0, <3>1, Constants
    <3> QED BY <1>1, <3>1, <3>2, Zenon
  <2> QED BY <1>0, <1>2, <1>6, <2>1, GetsOne, Zenon
<1>7. CASE Srv11Starts \/ Srv11Answers
  <2>1. CASE ~Panicking
    <3>1. /\ state' = [state EXCEPT ![Srv11] = "to arm9"]
          /\ UNCHANGED <<used, buffers, shouldTerminate>>
      BY <1>7, <2>1, Zenon DEF Srv11Starts, Srv11Answers, ending
    <3>2. \A j \in Services : state'[j] = state[j]
      BY <1>0, <3>1, Constants
    <3> QED BY <1>1, <3>1, <3>2, Zenon
  <2> QED BY <1>2, <2>1
<1>8. CASE Terminate
  <2>1. shouldTerminate' /\ UNCHANGED <<used, buffers>>
    BY <1>8, Zenon DEF Terminate
  <2> QED BY <1>1, <2>1, Zenon
<1> QED BY <1>2, <1>3, <1>4, <1>5, <1>6, <1>7, <1>8, Zenon
        DEF Next, Sender, Receiver, Srv11Thread, Main, Environment, Arm9

-----------------------------------------------------------------------------
(* Command 5 of pxi:mc, when it is sent with consideration.                 *)
LEMMA BaseInit == PXIInit => Base
<1> SUFFICES ASSUME PXIInit PROVE Base
  OBVIOUS
<1>1. SessionsOK
  <2>1. \A i \in Services : state[i] = "idle" /\ client[i] = "absent" /\ i \notin open /\ ~Answering(i)
    BY Constants DEF PXIInit, Answering
  <2>2. ~shouldTerminate /\ ~terminationRequestedEvent
    BY Zenon DEF PXIInit
  <2> QED BY <2>1, <2>2 DEF SessionsOK
<1>2. DOMAIN fromArm9 = {} /\ arm9 = [i \in All |-> IF i = Srv11 THEN 1 ELSE 0]
      /\ state = [i \in All |-> "idle"]
  BY DEF PXIInit
<1>3. /\ Once(fromArm9) /\ \A i : ~Sent(i)
      /\ arm9[Srv11] = 1 /\ state[Srv11] = "idle"
      /\ \A i \in All : arm9[i] \in {0, 1}
      /\ \A i \in Services : arm9[i] = 0 /\ state[i] = "idle"
  BY <1>2, Constants DEF Once, Sent, In
<1>4. FlowOK
  <2>1. \A i \in Services : arm9[i] # 1 /\ state[i] # "to arm9"
    <3>1. \A i \in Services : arm9[i] = 0
      BY <1>3, Zenon
    <3>2. \A i \in Services : state[i] = "idle"
      BY <1>3, Zenon
    <3>3. \A i \in Services : arm9[i] # 1
      BY <3>1
    <3>4. \A i \in Services : state[i] # "to arm9"
      BY <3>2
    <3> QED BY <3>3, <3>4, Zenon
  <2> QED BY <1>3, <2>1, Zenon DEF FlowOK
<1>5. Srv11OK
  BY <1>3 DEF Srv11OK, PXIInit
<1>6. ReplyCounted
  <2>1. Replied = {}
    BY <1>3 DEF Replied
  <2>2. Cardinality(Replied) = 0
    BY <2>1, FS_EmptySet
  <2> QED BY <2>2, Zenon DEF PXIInit, ReplyCounted
<1> QED BY <1>1, <1>4, <1>5, <1>6, TypesInit, BuffersInit, Zenon DEF Base

LEMMA BaseStep == ASSUME Base, [Next]_vars PROVE Base'
<1>1. Types
  BY Zenon DEF Base
<1> QED BY <1>1, TypesStep, SessionsStep, FlowStep, ReplyStep, Srv11Step, BuffersStep, Zenon DEF Base

(* What nothing that command 5 goes by is changed by.                       *)
LEMMA ModeKept ==
    ASSUME Mode, UNCHANGED <<latest_PXI_MC5_val, pendingArm9Commands, sendingDisabled, kind,
                             shouldTerminate>>,
           \A i \in Services : client'[i] = "sent" => client[i] = "sent",
           \A i \in Services : /\ state'[i] = "idle" <=> state[i] = "idle"
                               /\ state'[i] \in {"to arm9", "from arm9"}
                                    <=> state[i] \in {"to arm9", "from arm9"}
    PROVE  Mode'
<1>1. Pending' = Pending
  BY Zenon DEF Pending
<1>2. PendingCounted'
  BY <1>1, Zenon DEF Mode, PendingCounted, Pending
<1>3. Five' => Five
  BY Constants, Zenon DEF Five
<1>4. \A i \in Services : Latest(i)' <=> Latest(i)
  BY Zenon DEF Latest
<1> QED BY <1>2, <1>3, <1>4, Constants, Zenon DEF Mode

(* When nothing is being done, nothing is counted; command 5 is being done  *)
(* when sending is disabled, or sent when nothing is.                       *)
LEMMA FiveAlone ==
    ASSUME Base, Mode
    PROVE  /\ ~sendingDisabled /\ ~shouldTerminate => (Five <=> kind[0] = "stop" /\ client[0] = "sent")
           /\ (\A i \in Services : state[i] = "idle") => pendingArm9Commands = 0
<1>0. /\ SessionsOK /\ 0 \in Services /\ kind[0] \in {"other", "stop", "go on"}
  BY Constants DEF Base, Types, SessionTypes
<1>1. ASSUME ~sendingDisabled, ~shouldTerminate, Five
      PROVE  kind[0] = "stop" /\ client[0] = "sent"
  <2>1. kind[0] \in {"stop", "go on"} /\ (client[0] = "sent" \/ state[0] # "idle")
    BY <1>0, <1>1, Zenon DEF Five
  <2>2. state[0] = "idle"
    BY <1>0, <1>1, <2>1, Zenon DEF Mode, Latest
  <2> QED BY <1>0, <1>1, <2>1, <2>2, Zenon DEF Mode
<1>2. ASSUME kind[0] = "stop", client[0] = "sent" PROVE Five
  BY <1>2 DEF Five
<1>3. ASSUME \A i \in Services : state[i] = "idle" PROVE pendingArm9Commands = 0
  <2>1. Pending = {}
    BY <1>3 DEF Pending
  <2>2. Cardinality(Pending) = 0
    BY <2>1, FS_EmptySet
  <2>3. ~sendingDisabled /\ ~shouldTerminate => pendingArm9Commands = Cardinality(Pending)
    BY Zenon DEF Mode, PendingCounted, Pending
  <2>4. sendingDisabled \/ shouldTerminate => pendingArm9Commands = 0
    BY Zenon DEF Mode
  <2> QED BY <2>2, <2>3, <2>4, Zenon
<1> QED BY <1>1, <1>2, <1>3, Zenon

LEMMA ModeStep == ASSUME Base, Mode, Considerate, [Next]_vars PROVE Mode'
<1>0. /\ state \in [All -> Places] /\ SessionTypes /\ SessionsOK /\ FlowTypes
      /\ client \in [Services -> {"absent", "connecting", "quiet", "sent", "waiting", "gone"}]
      /\ kind \in [Services -> {"other", "stop", "go on"}] /\ 0 \in Services
  BY Constants, Zenon DEF Base, Types, FlowTypes, SessionTypes
<1>1. ASSUME UNCHANGED <<mc5, kind, shouldTerminate, state>>,
             \A i \in Services : client'[i] = "sent" => client[i] = "sent"
      PROVE  Mode'
  BY <1>1, ModeKept, Zenon DEF mc5
<1>2. ASSUME \/ UNCHANGED vars \/ Panicking \/ SenderIsAwoken
             \/ ReceiverGoesOn \/ ReceiverTerminates \/ Srv11Terminates \/ Joined
             \/ Arm9Commands \/ \E i \in Services : Arm9Replies(i)
      PROVE  Mode'
  <2>1. UNCHANGED <<mc5, kind, shouldTerminate, state, client>>
    BY <1>2, Zenon DEF vars, sessionVars, ending, clients, Panicking, SenderIsAwoken,
       ReceiverGoesOn, ReceiverTerminates, Srv11Terminates, Joined, Arm9Commands, Arm9Replies,
       Arm9Step
  <2> QED BY <1>1, <2>1, Zenon
<1>3. ASSUME NEW i \in Services, NEW x \in {"absent", "connecting", "quiet", "gone"},
             client' = [client EXCEPT ![i] = x],
             UNCHANGED <<mc5, kind, shouldTerminate, state>>
      PROVE  Mode'
  <2>1. \A j \in Services : client'[j] = "sent" => client[j] = "sent"
    BY <1>0, <1>3
  <2> QED BY <1>1, <1>3, <2>1, Zenon
<1>4. ASSUME NEW i \in Services, Accept(i) \/ Connect(i) \/ Leave(i) \/ Closes(i) PROVE Mode'
  <2>1. CASE ~Panicking
    <3>1. UNCHANGED <<mc5, kind, shouldTerminate, state>>
      BY <1>4, <2>1, Zenon
         DEF Accept, Connect, Leave, ClientStep, Closes, ending, sessionVars
    <3>2. \E x \in {"absent", "connecting", "quiet", "gone"} : client' = [client EXCEPT ![i] = x]
      BY <1>4, <2>1, Zenon DEF Accept, Connect, Leave, Does, Closes, CloseSession
    <3> QED BY <1>3, <3>1, <3>2, Zenon
  <2> QED BY <1>2, <2>1
<1>5. CASE SenderReplies
  <2>1. ASSUME NEW i \in Services \cup {None}, Replies(i) PROVE Mode'
    <3>1. UNCHANGED <<mc5, kind, shouldTerminate, state>>
      BY <2>1, Zenon DEF Replies, ending
    <3>2. CASE i = None
      <4>1. client' = client
        BY <2>1, <3>2, Zenon DEF Replies
      <4> QED BY <1>1, <3>1, <4>1, Zenon
    <3>3. CASE i # None
      <4>1. client' = [client EXCEPT ![i] = "quiet"] /\ i \in Services
        BY <2>1, <3>3, Zenon DEF Replies
      <4> QED BY <1>3, <3>1, <4>1, Zenon
    <3> QED BY <3>2, <3>3
  <2> QED BY <1>0, <1>4, <1>5, <2>1, RepliesOne, Zenon
<1>6. CASE SenderTerminates
  <2>1. /\ UNCHANGED <<mc5, kind, shouldTerminate, state>>
        /\ client' = [i \in Services |-> IF i \in open THEN "absent" ELSE client[i]]
    BY <1>6, Zenon DEF SenderTerminates, ending
  <2>2. \A i \in Services : client'[i] = "sent" => client[i] = "sent"
    BY <2>1
  <2> QED BY <1>1, <2>1, <2>2, Zenon
<1>7. ASSUME NEW i \in Services, SenderSeesClosed(i) PROVE Mode'
  <2>1. UNCHANGED <<mc5, kind, shouldTerminate, state>>
    BY <1>7, Zenon DEF SenderSeesClosed, ending
  <2>2. client' = [client EXCEPT ![i] = "absent"]
    BY <1>7, Zenon DEF SenderSeesClosed, CloseSession
  <2> QED BY <1>3, <2>1, <2>2, Zenon
<1>8. CASE ReceiverGets
  <2>1. ASSUME NEW i \in All, Gets(i) PROVE Mode'
    <3>1. /\ state' = [state EXCEPT ![i] = "from arm9"] /\ state[i] = "to arm9"
          /\ UNCHANGED <<latest_PXI_MC5_val, pendingArm9Commands, sendingDisabled, kind,
                         shouldTerminate, client>>
      BY <2>1, Zenon DEF Gets, mc5, clients
    <3>2. \A j \in Services : /\ state'[j] = "idle" <=> state[j] = "idle"
                              /\ state'[j] \in {"to arm9", "from arm9"}
                                   <=> state[j] \in {"to arm9", "from arm9"}
      BY <1>0, <3>1, Constants
    <3> QED BY <3>1, <3>2, ModeKept, Zenon
  <2> QED BY <1>0, <1>2, <1>8, <2>1, GetsOne, Zenon
<1>9. CASE Srv11Starts \/ Srv11Answers
  <2>1. CASE ~Panicking
    <3>1. /\ state' = [state EXCEPT ![Srv11] = "to arm9"]
          /\ UNCHANGED <<latest_PXI_MC5_val, pendingArm9Commands, sendingDisabled, kind,
                         shouldTerminate, client>>
      BY <1>9, <2>1, Zenon DEF Srv11Starts, Srv11Answers, ending, mc5, clients
    <3>2. \A j \in Services : state'[j] = state[j]
      BY <1>0, <3>1, Constants
    <3> QED BY <3>1, <3>2, ModeKept, Zenon
  <2> QED BY <1>2, <2>1
<1>10. CASE Terminate
  <2>1. /\ state' = [state EXCEPT ![0] = "to arm9"] /\ shouldTerminate'
        /\ UNCHANGED <<pendingArm9Commands, sendingDisabled, kind, client>>
        /\ mainThread = "serve" /\ \A i \in Services : client[i] \in {"absent", "quiet"}
    BY <1>10, Zenon DEF Terminate, mc5, clients
  <2>2. \A i \in Services : state[i] = "idle"
    BY <1>0, <2>1 DEF SessionsOK
  <2>3. pendingArm9Commands' = 0
    BY <2>1, <2>2, FiveAlone, Zenon
  <2>4. \A i \in Services : client'[i] # "sent" /\ (i # 0 => state'[i] = "idle")
    BY <1>0, <2>1, <2>2, Constants
  <2>5. \A i \in Services : kind'[i] # "other" => i = 0
    BY <2>1, Zenon DEF Mode
  <2>6. PendingCounted'
    BY <2>1, Zenon DEF PendingCounted
  <2> QED BY <1>0, <2>1, <2>3, <2>4, <2>5, <2>6, Zenon DEF Mode
<1>11. CASE SenderSends
  <2>1. UNCHANGED <<latest_PXI_MC5_val, sendingDisabled, kind, shouldTerminate, client>>
    BY <1>11, SendsOne, Zenon DEF ending, clients
  <2>2. CASE SendsNone
    BY <1>1, <2>1, <2>2, Zenon DEF SendsNone, mc5
  <2>3. ASSUME NEW sent \in {{}, Ready}, Sends(sent) PROVE Mode'
    <3>1. /\ state' = [i \in All |-> IF i \in sent THEN "to arm9" ELSE state[i]]
          /\ pendingArm9Commands' = PendingAfter(sent)
          /\ IF MaySend THEN sent = Ready ELSE sent = {}
      BY <2>3, Zenon DEF Sends
    <3>2. \A i \in sent : i \in Services /\ state[i] = "from arm11"
      BY <1>0 DEF Ready, SessionTypes
    <3>3. \A i \in Services : /\ i \in sent => state'[i] = "to arm9" /\ state[i] = "from arm11"
                              /\ i \notin sent => state'[i] = state[i]
      BY <3>1, <3>2, Constants
    <3>4. \A i \in Services : state'[i] = "idle" <=> state[i] = "idle"
      BY <3>3
    <3>5. Five' <=> Five
      BY <1>0, <2>1, <3>4, Zenon DEF Five
    <3>6. ~MaySend => sendingDisabled
      BY Zenon DEF MaySend
    <3>7. shouldTerminate => sent = {}
      <4>1. \A i \in sent : shouldTerminate => client[i] \in {"waiting", "gone"} \/ i = 0
        BY <1>0, <3>2 DEF SessionsOK
      <4>2. \A i \in sent : ~shouldTerminate
        BY <1>0, <3>2, <4>1 DEF SessionsOK
      <4> QED BY <4>2, Zenon
    <3>8. Five /\ ~sendingDisabled /\ ~shouldTerminate => sent = {}
      <4>1. ASSUME Five, ~sendingDisabled, ~shouldTerminate PROVE \A i \in Services : state[i] = "idle"
        <5>1. client[0] = "sent"
          BY <4>1, FiveAlone, Zenon
        <5>2. state[0] = "idle"
          BY <1>0, <4>1, <5>1 DEF SessionsOK
        <5> QED BY <4>1, <5>2, Zenon DEF Mode
      <4>2. (\A i \in Services : state[i] = "idle") => sent = {}
        BY <3>2
      <4> QED BY <4>1, <4>2, Zenon
    <3>9. /\ sendingDisabled => pendingArm9Commands' = pendingArm9Commands
          /\ sent = {} => pendingArm9Commands' = pendingArm9Commands
      <4>1. CountTypes /\ Cardinality({}) = 0
        BY FS_EmptySet, Zenon DEF Base, Types
      <4>2. pendingArm9Commands + 0 = pendingArm9Commands
        BY <4>1 DEF CountTypes
      <4> QED BY <3>1, <4>1, <4>2, Zenon DEF PendingAfter
    <3>10. Five \/ sendingDisabled => pendingArm9Commands' = 0
      <4>1. Five \/ sendingDisabled => pendingArm9Commands = 0
        BY Zenon DEF Mode
      <4> QED BY <3>7, <3>8, <3>9, <4>1, Zenon
    <3>11. shouldTerminate => pendingArm9Commands' = 0
      BY <3>7, <3>9, Zenon DEF Mode
    <3>12. ASSUME ~sendingDisabled, ~shouldTerminate
           PROVE  pendingArm9Commands' = Cardinality(Pending')
      <4>1. Pending' = Pending \cup sent /\ Pending \cap sent = {}
        BY <3>2, <3>3 DEF Pending
      <4>2. Pending \in SUBSET Services /\ sent \in SUBSET Services
        BY <3>2 DEF Pending
      <4>3. IsFiniteSet(Pending) /\ IsFiniteSet(sent)
        BY <4>2, RepliedCounts, Zenon
      <4>4. Cardinality(Pending \cup sent)
              = Cardinality(Pending) + Cardinality(sent) - Cardinality(Pending \cap sent)
        BY <4>3, FS_Union, Zenon
      <4>5. /\ Cardinality(Pending) \in Nat /\ Cardinality(sent) \in Nat
            /\ Cardinality(Pending \cap sent) = 0
        BY <4>1, <4>2, RepliedCounts, FS_EmptySet, Zenon
      <4>6. Cardinality(Pending \cup sent) = Cardinality(Pending) + Cardinality(sent)
        BY <4>4, <4>5
      <4>7. pendingArm9Commands = Cardinality(Pending)
        BY <3>12, Zenon DEF Mode, PendingCounted, Pending
      <4>8. pendingArm9Commands' = pendingArm9Commands + Cardinality(sent)
        BY <3>1, <3>12, Zenon DEF PendingAfter
      <4> QED BY <4>1, <4>6, <4>7, <4>8, Zenon
    <3>13. PendingCounted'
      BY <2>1, <3>12, Zenon DEF PendingCounted, Pending
    <3>14. \A i \in Services : Latest(i)' <=> Latest(i)
      BY <2>1, Zenon DEF Latest
    <3>15. \A i \in Services : kind[i] # "other" => i = 0
      BY Zenon DEF Mode
    <3>16. Five \/ sendingDisabled =>
              /\ \A i \in Services : i # 0 => state[i] = "idle" /\ client[i] # "sent"
              /\ kind[0] = "other" => client[0] # "sent" /\ (state[0] = "idle" \/ shouldTerminate)
      BY Zenon DEF Mode
    <3>17. client[0] = "sent" => /\ kind[0] = "stop" => ~sendingDisabled
                                 /\ kind[0] = "go on" => sendingDisabled
      BY Zenon DEF Mode
    <3>18. ~shouldTerminate => \A i \in Services : state[i] # "idle" => Latest(i)
      BY Zenon DEF Mode
    <3> QED BY <1>0, <2>1, <3>4, <3>5, <3>10, <3>11, <3>13, <3>14, <3>15, <3>16, <3>17, <3>18, Zenon
            DEF Mode
  <2> QED BY <1>11, <2>2, <2>3, SendsOne, Zenon
<1>12. CASE SenderTakesReply
  <2>1. ASSUME NEW i \in Services, Takes(i) PROVE Mode'
    <3>1. /\ state' = [state EXCEPT ![i] = "idle"] /\ state[i] = "from arm9" /\ replySemaphore > 0
          /\ shouldTerminate' = shouldTerminate /\ client' = client /\ kind' = kind
          /\ sendingDisabled' = (sendingDisabled /\ latest_PXI_MC5_val # 2)
          /\ pendingArm9Commands' = PendingAfterReply
      BY <2>1, Zenon DEF Takes, ending, clients
    <3>2. ~shouldTerminate
      <4>1. replySemaphore # 0
        <5>1. replySemaphore > 0
          BY <3>1, Zenon
        <5> QED BY <5>1
      <4> QED BY <4>1, Zenon DEF Base, ReplyCounted
    <3>3. /\ state'[i] = "idle" /\ state[i] # "idle" /\ client[i] # "sent"
          /\ \A j \in Services : j # i => state'[j] = state[j]
      BY <1>0, <3>1, <3>2, Constants DEF SessionsOK
    <3>4. Latest(i)
      BY <3>2, <3>3, Zenon DEF Mode
    <3>5. kind[i] \in {"other", "stop", "go on"}
      BY <1>0
    <3>6. \A j \in Services : kind[j] # "other" => j = 0
      BY Zenon DEF Mode
    <3>7. CASE kind[i] = "other"
      <4>1. latest_PXI_MC5_val = 0 /\ ~sendingDisabled /\ ~sendingDisabled'
        BY <3>1, <3>4, <3>7, Zenon DEF Latest
      <4>2. ~Five
        <5>1. ASSUME Five PROVE FALSE
          <6>1. kind[0] = "stop"
            BY <3>2, <4>1, <5>1, FiveAlone, Zenon
          <6>2. i # 0
            BY <3>7, <6>1
          <6> QED BY <3>3, <5>1, <6>2, Zenon DEF Mode
        <5> QED BY <5>1
      <4>3. ~Five'
        BY <3>1, <3>3, <4>2, <1>0, Zenon DEF Five
      <4>4. PendingCounted'
        <5>1. Pending' = Pending \ {i} /\ i \in Pending /\ Pending \in SUBSET Services
          BY <3>1, <3>3 DEF Pending
        <5>2. Cardinality(Pending \ {i}) = Cardinality(Pending) - 1
          BY <5>1, RepliedCounts, Zenon
        <5>3. pendingArm9Commands = Cardinality(Pending)
          BY <3>2, <4>1, Zenon DEF Mode, PendingCounted, Pending
        <5>4. pendingArm9Commands' = pendingArm9Commands - 1
          BY <3>1, <4>1, Zenon DEF PendingAfterReply
        <5> QED BY <5>1, <5>2, <5>3, <5>4, Zenon DEF PendingCounted, Pending
      <4>5. client[0] = "sent" => kind[0] # "go on"
        BY <4>1, Zenon DEF Mode
      <4>6. \A j \in Services : state'[j] # "idle" => Latest(j)'
        <5>1. \A j \in Services : state'[j] # "idle" => Latest(j)
          BY <3>2, <3>3, Zenon DEF Mode
        <5>2. latest_PXI_MC5_val' = latest_PXI_MC5_val
          BY <2>1, Zenon DEF Takes
        <5> QED BY <3>1, <4>1, <5>1, <5>2, Zenon DEF Latest
      <4> QED BY <3>1, <3>2, <3>6, <4>1, <4>3, <4>4, <4>5, <4>6, Zenon DEF Mode
    <3>8. CASE kind[i] # "other"
      <4>1. /\ i = 0 /\ Five /\ sendingDisabled
            /\ kind[i] = "stop" => latest_PXI_MC5_val = 1
            /\ kind[i] = "go on" => latest_PXI_MC5_val = 2
        BY <3>2, <3>3, <3>4, <3>5, <3>6, <3>8, Zenon DEF Five, Latest
      <4>2. /\ pendingArm9Commands = 0
            /\ \A j \in Services : j # 0 => state[j] = "idle" /\ client[j] # "sent"
        BY <4>1, Zenon DEF Mode
      <4>3. latest_PXI_MC5_val # 0
        <5>1. latest_PXI_MC5_val \in {1, 2}
          BY <3>5, <3>8, <4>1, Zenon
        <5> QED BY <5>1
      <4>4. pendingArm9Commands' = 0
        BY <3>1, <4>2, <4>3, Zenon DEF PendingAfterReply
      <4>5. \A j \in Services : state'[j] = "idle" /\ client'[j] # "sent"
        BY <3>1, <3>3, <4>1, <4>2, Zenon
      <4>6. PendingCounted'
        <5>1. Pending' = {}
          BY <4>5 DEF Pending
        <5>2. Cardinality(Pending') = 0
          BY <5>1, FS_EmptySet
        <5> QED BY <4>4, <5>2, Zenon DEF PendingCounted, Pending
      <4> QED BY <1>0, <3>1, <3>6, <4>4, <4>5, <4>6, Zenon DEF Mode
    <3> QED BY <3>7, <3>8
  <2> QED BY <1>2, <1>12, <2>1, TakesOne, Zenon
<1>13. ASSUME NEW i \in Services, SenderReceives(i) PROVE Mode'
  <2>1. CASE Receives(i)
    <3>1. /\ state' = [state EXCEPT ![i] = "from arm11"] /\ state[i] = "idle"
          /\ client' = [client EXCEPT ![i] = "waiting"] /\ client[i] = "sent"
          /\ shouldTerminate' = shouldTerminate /\ kind' = kind
          /\ pendingArm9Commands' = pendingArm9Commands
          /\ sendingDisabled' = (sendingDisabled \/ kind[i] = "stop")
      BY <2>1, Zenon DEF Receives, ending
    <3>2. ~shouldTerminate
      BY <1>0, <3>1 DEF SessionsOK
    <3>3. /\ state'[i] = "from arm11" /\ state'[i] # "idle"
          /\ client'[i] = "waiting" /\ client'[i] # "sent"
          /\ \A j \in Services : j # i => state'[j] = state[j] /\ client'[j] = client[j]
      BY <1>0, <3>1, Constants
    <3>4. /\ \A j \in Services : kind[j] # "other" => j = 0
          /\ kind[i] \in {"other", "stop", "go on"}
      BY <1>0, Zenon DEF Mode
    <3>5. PendingCounted'
      <4>1. Pending' = Pending
        BY <3>1, <3>3 DEF Pending
      <4>2. ~sendingDisabled' => ~sendingDisabled
        BY <3>1, Zenon
      <4> QED BY <3>1, <4>1, <4>2, Zenon DEF Mode, PendingCounted, Pending
    <3>6. CASE kind[i] = "other"
      <4>1. latest_PXI_MC5_val' = 0
        BY <2>1, <3>6, Zenon DEF Receives
      <4>2. ~sendingDisabled
        BY <3>1, <3>6, Zenon DEF Mode
      <4>3. ~sendingDisabled'
        <5>1. kind[i] # "stop"
          BY <3>6
        <5> QED BY <3>1, <4>2, <5>1, Zenon
      <4>4. ~Five
        <5>1. ASSUME Five PROVE FALSE
          <6>1. kind[0] = "stop"
            BY <3>2, <4>2, <5>1, FiveAlone, Zenon
          <6>2. i # 0
            BY <3>6, <6>1
          <6> QED BY <3>1, <5>1, <6>2, Zenon DEF Mode
        <5> QED BY <5>1
      <4>5. ~Five'
        <5>1. kind[0] # "other" => i # 0
          BY <3>6, Zenon
        <5> QED BY <1>0, <3>1, <3>3, <4>4, <5>1, Zenon DEF Five
      <4>6. \A j \in Services : state'[j] # "idle" => kind[j] = "other"
        <5>1. \A j \in Services : j # i /\ state'[j] # "idle" => Latest(j)
          BY <3>2, <3>3, Zenon DEF Mode
        <5>2. \A j \in Services : Latest(j) => kind[j] = "other"
          BY <1>0, <4>2, Zenon DEF Latest
        <5> QED BY <3>6, <5>1, <5>2, Zenon
      <4>7. \A j \in Services : state'[j] # "idle" => Latest(j)'
        <5>1. \A j \in Services : kind[j] = "other" => kind[j] # "stop" /\ kind[j] # "go on"
          OBVIOUS
        <5> QED BY <3>1, <4>1, <4>3, <4>6, <5>1, Zenon DEF Latest
      <4>8. client'[0] = "sent" => kind[0] # "go on"
        BY <1>0, <3>3, <4>2, Zenon DEF Mode
      <4> QED BY <3>1, <3>2, <3>4, <3>5, <4>3, <4>5, <4>7, <4>8, Zenon DEF Mode
    <3>7. CASE kind[i] # "other"
      <4>1. i = 0 /\ Five
        BY <3>1, <3>4, <3>7, Zenon DEF Five
      <4>2. /\ pendingArm9Commands = 0
            /\ \A j \in Services : j # 0 => state[j] = "idle" /\ client[j] # "sent"
        BY <4>1, Zenon DEF Mode
      <4>3. /\ kind[i] = "stop" => latest_PXI_MC5_val' = 1 /\ sendingDisabled'
            /\ kind[i] = "go on" => latest_PXI_MC5_val' = 2 /\ sendingDisabled'
        BY <2>1, <3>1, Zenon DEF Receives
      <4>4. Latest(i)'
        BY <3>1, <3>7, <4>3, Zenon DEF Latest
      <4>5. \A j \in Services : /\ client'[j] # "sent" /\ (state'[j] # "idle" => Latest(j)')
                                /\ j # 0 => state'[j] = "idle"
        BY <3>3, <4>1, <4>2, <4>4, Zenon
      <4> QED BY <1>0, <3>1, <3>2, <3>4, <3>5, <3>7, <4>1, <4>2, <4>5, Zenon DEF Mode
    <3> QED BY <3>6, <3>7
  <2> QED BY <1>2, <1>13, <2>1, ReceivesOne, Zenon
<1>14. ASSUME NEW i \in Services, NEW k \in {"other", "stop", "go on"}, Send(i, k) PROVE Mode'
  <2>1. /\ ~shouldTerminate /\ client[i] = "quiet"
        /\ k # "other" => i = 0 /\ Quiet(Services)
        /\ k = "stop" => ~sendingDisabled
        /\ k = "go on" => sendingDisabled
        /\ k = "other" => ~sendingDisabled /\ (kind[0] = "other" \/ client[0] \in {"absent", "quiet"})
        /\ kind' = [kind EXCEPT ![i] = k] /\ client' = [client EXCEPT ![i] = "sent"]
    BY <1>14, Zenon DEF Send, ClientStep, Does
  <2>2. UNCHANGED <<latest_PXI_MC5_val, pendingArm9Commands, sendingDisabled, shouldTerminate, state>>
    BY <1>14, Zenon DEF Send, ClientStep, mc5, ending, sessionVars
  <2>3. /\ state[i] = "idle" /\ kind'[i] = k /\ client'[i] = "sent"
        /\ \A j \in Services : j # i => kind'[j] = kind[j] /\ client'[j] = client[j]
    BY <1>0, <2>1 DEF SessionsOK
  <2>4. \A j \in Services : kind'[j] # "other" => j = 0
    BY <2>1, <2>3, Zenon DEF Mode
  <2>5. PendingCounted'
    BY <2>2, Zenon DEF Mode, PendingCounted
  <2>6. \A j \in Services : state'[j] # "idle" => Latest(j)'
    <3>1. \A j \in Services : state'[j] # "idle" => j # i /\ Latest(j)
      BY <2>1, <2>2, <2>3, Zenon DEF Mode
    <3> QED BY <2>2, <2>3, <3>1, Zenon DEF Latest
  <2>7. CASE k = "other"
    <3>1. ~sendingDisabled' /\ ~shouldTerminate
      BY <2>1, <2>2, <2>7, Zenon
    <3>2. ASSUME Five' PROVE FALSE
      <4>1. i # 0
        BY <2>3, <2>7, <3>2, Zenon DEF Five
      <4>2. kind[0] # "other" /\ client'[0] = client[0] /\ kind'[0] = kind[0]
        BY <1>0, <2>3, <3>2, <4>1, Zenon DEF Five
      <4>3. client[0] # "sent"
        BY <2>1, <2>7, <4>2
      <4>4. Five
        BY <2>2, <3>2, <4>2, Zenon DEF Five
      <4> QED BY <2>1, <2>7, <4>3, <4>4, FiveAlone, Zenon
    <3>3. client'[0] = "sent" => kind'[0] # "go on"
      <4>1. CASE i = 0
        BY <2>3, <2>7, <4>1
      <4>2. CASE i # 0
        BY <1>0, <2>1, <2>3, <2>7, <4>2, Zenon DEF Mode
      <4> QED BY <4>1, <4>2
    <3> QED BY <2>2, <2>4, <2>5, <2>6, <3>1, <3>2, <3>3, Zenon DEF Mode
  <2>8. CASE k # "other"
    <3>1. i = 0 /\ \A j \in Services : client[j] \in {"absent", "quiet", "connecting"}
      BY <2>1, <2>8, Zenon DEF Quiet
    <3>2. \A j \in Services : state[j] = "idle" /\ client[j] # "sent"
      BY <1>0, <2>1, <3>1 DEF SessionsOK
    <3>3. pendingArm9Commands = 0
      BY <3>2, FiveAlone, Zenon
    <3>4. \A j \in Services : state'[j] = "idle" /\ (j # 0 => client'[j] # "sent")
      BY <2>2, <2>3, <3>1, <3>2, Zenon
    <3>5. /\ kind'[0] = k
          /\ kind'[0] = "stop" => ~sendingDisabled'
          /\ kind'[0] = "go on" => sendingDisabled'
      BY <2>1, <2>2, <2>3, <3>1, Zenon
    <3> QED BY <1>0, <2>1, <2>2, <2>4, <2>5, <2>6, <2>8, <3>3, <3>4, <3>5, Zenon DEF Mode
  <2> QED BY <2>7, <2>8
<1> QED BY <1>2, <1>4, <1>5, <1>6, <1>7, <1>8, <1>9, <1>10, <1>11, <1>12, <1>13, <1>14, Zenon
        DEF Next, Sender, Receiver, Srv11Thread, Main, Environment, Arm9

LEMMA ModeInit == PXIInit => Mode /\ ~panicked
<1> SUFFICES ASSUME PXIInit PROVE Mode /\ ~panicked
  OBVIOUS
<1>1. /\ state = [i \in All |-> "idle"] /\ client = [i \in Services |-> "absent"]
      /\ kind = [i \in Services |-> "other"] /\ pendingArm9Commands = 0
      /\ sendingDisabled = FALSE /\ shouldTerminate = FALSE /\ panicked = FALSE
  BY Zenon DEF PXIInit
<1>2. \A i \in Services : state[i] = "idle" /\ client[i] # "sent" /\ kind[i] = "other"
  BY <1>1, Constants
<1>3. PendingCounted
  <2>1. Pending = {}
    BY <1>2 DEF Pending
  <2>2. Cardinality(Pending) = 0
    BY <2>1, FS_EmptySet
  <2> QED BY <1>1, <2>2, Zenon DEF PendingCounted, Pending
<1>4. ~Five
  BY <1>2, Constants, Zenon DEF Five
<1> QED BY <1>1, <1>2, <1>3, <1>4, Constants, Zenon DEF Mode

(* Every svcBreak is in a step that cannot be taken.                        *)
LEMMA PanicStep == ASSUME Base, Mode, ~panicked, [Next]_vars PROVE ~panicked'
<1>0. /\ state \in [All -> Places] /\ SessionTypes /\ SessionsOK /\ FlowTypes /\ FlowOK /\ Srv11OK
      /\ fromArm9 \in Seq(All)
  BY Zenon DEF Base, Types, FlowTypes
<1>1. CASE SenderTakesReply
  <2>1. replySemaphore # 0
    <3>1. replySemaphore > 0
      BY <1>1, Zenon DEF SenderTakesReply
    <3> QED BY <3>1
  <2>2. ~shouldTerminate /\ replySemaphore = Cardinality(Replied)
    BY <2>1, Zenon DEF Base, ReplyCounted
  <2>3. Replied # {}
    <3>1. Cardinality({}) = 0
      BY FS_EmptySet
    <3> QED BY <2>1, <2>2, <3>1, Zenon
  <2>4. ASSUME latest_PXI_MC5_val = 2 PROVE pendingArm9Commands = 0
    <3>1. PICK i \in Services : state[i] # "idle"
      BY <2>3 DEF Replied
    <3>2. Latest(i)
      BY <2>2, <3>1, Zenon DEF Mode
    <3>3. latest_PXI_MC5_val # 0
      BY <2>4
    <3>4. kind[i] \in {"other", "stop", "go on"}
      BY <1>0 DEF SessionTypes
    <3>5. sendingDisabled
      BY <3>2, <3>3, <3>4, Zenon DEF Latest
    <3> QED BY <3>5, Zenon DEF Mode
  <2>5. PICK i \in Services : Takes(i)
    BY <1>1, <2>3, <2>4, TakesOne, Zenon
  <2> QED BY <2>5, Zenon DEF Takes
<1>2. ASSUME NEW i \in Services, SenderReceives(i) PROVE ~panicked'
  <2>1. \/ Receives(i)
        \/ /\ client[i] = "sent"
           /\ \/ kind[i] = "stop" /\ sendingDisabled
              \/ kind[i] = "go on" /\ ~sendingDisabled
    BY <1>2, ReceivesOne, Zenon
  <2>2. kind[i] = "stop" \/ kind[i] = "go on" => i = 0
    <3>1. kind[i] = "stop" \/ kind[i] = "go on" => kind[i] # "other"
      OBVIOUS
    <3> QED BY <3>1, Zenon DEF Mode
  <2>3. Receives(i)
    BY <2>1, <2>2, Zenon DEF Mode
  <2> QED BY <2>3, Zenon DEF Receives
<1>3. CASE ReceiverGets
  <2>1. fromArm9 # <<>> /\ receiver = "wait"
    BY <1>3, Zenon DEF ReceiverGets
  <2>2. In(fromArm9, fromArm9[1]) /\ fromArm9[1] \in All
    <3>1. fromArm9[1] \in All
      BY <1>0, <2>1
    <3> QED BY <1>0, <2>1, <3>1, Received, Zenon DEF FlowOK
  <2>3. state[fromArm9[1]] = "to arm9"
    <3>1. CASE fromArm9[1] \in Services
      BY <1>0, <2>2, <3>1, Zenon DEF FlowOK, Sent
    <3>2. CASE fromArm9[1] = Srv11
      <4>1. receiver \notin {"start", "srv11"}
        BY <2>1
      <4> QED BY <1>0, <3>2, <4>1, Zenon DEF Srv11OK
    <3> QED BY <2>2, <3>1, <3>2 DEF All
  <2>4. PICK i \in All : Gets(i)
    BY <1>0, <1>3, <2>3, GetsOne, Zenon
  <2> QED BY <2>4, Zenon DEF Gets
<1>4. CASE ReceiverGoesOn
  <2>1. PXISRV11ReplySentEvent /\ panicked' = (state[Srv11] # "to arm9")
    BY <1>4, Zenon DEF ReceiverGoesOn
  <2>2. state[Srv11] = "to arm9"
    BY <1>0, <2>1, Zenon DEF Srv11OK
  <2> QED BY <2>1, <2>2, Zenon
<1>5. CASE Srv11Answers
  <2>1. PXISRV11CommandReceivedEvent
    BY <1>5, Zenon DEF Srv11Answers
  <2>2. state[Srv11] = "from arm9"
    BY <1>0, <2>1, Zenon DEF Srv11OK
  <2> QED BY <1>5, <2>2, Zenon DEF Srv11Answers
<1>6. ASSUME NEW i \in Services, Accept(i) PROVE ~panicked'
  <2>1. client[i] = "connecting"
    BY <1>6, Zenon DEF Accept
  <2>2. i \notin open
    BY <1>0, <2>1 DEF SessionsOK
  <2> QED BY <1>6, <2>2, Zenon DEF Accept
<1>7. ASSUME \/ UNCHANGED vars \/ SenderSends \/ SenderReplies \/ SenderTerminates \/ SenderIsAwoken
             \/ \E i \in Services : SenderSeesClosed(i) \/ Connect(i) \/ Leave(i)
                                    \/ \E k \in {"other", "stop", "go on"} : Send(i, k)
             \/ ReceiverTerminates \/ Srv11Starts \/ Srv11Terminates \/ Terminate \/ Joined
             \/ Arm9Commands \/ \E i \in Services : Arm9Replies(i)
      PROVE  ~panicked'
  <2>1. panicked' = panicked
    BY <1>7, Zenon DEF vars, SenderSends, SenderReplies, SenderTerminates, SenderIsAwoken,
       SenderSeesClosed, Connect, Leave, Send, ClientStep, ReceiverTerminates, Srv11Starts,
       Srv11Terminates, Terminate, Joined, Arm9Commands, Arm9Replies, Arm9Step
  <2> QED BY <2>1, Zenon
<1> QED BY <1>1, <1>2, <1>3, <1>4, <1>5, <1>6, <1>7, Zenon
        DEF Next, Sender, Receiver, Srv11Thread, Main, Environment, Arm9

-----------------------------------------------------------------------------
(* Whatever the clients and Process9 do: a session is open to one client,   *)
(* that waits while it is being served; Process9 has, or has answered, at   *)
(* most one command of a session, and the semaphore counts the replies that *)
(* can be taken.                                                            *)
THEOREM SessionsServed == PXISpec => [](SessionsOK /\ FlowOK /\ ReplyCounted /\ Srv11OK)
<1>1. PXIInit => Base
  BY BaseInit
<1>2. Base /\ [Next]_vars => Base'
  BY BaseStep
<1>3. Base => SessionsOK /\ FlowOK /\ ReplyCounted /\ Srv11OK
  BY Zenon DEF Base
<1> QED BY <1>1, <1>2, <1>3, PTL DEF PXISpec

(* A static buffer is free, provided, or of one command, and a command that *)
(* came when as many as a command can use were provided has as many as its  *)
(* service needs, whatever the commands and whatever the order they are     *)
(* answered in.                                                             *)
THEOREM BuffersNeverShared == PXISpec => []BuffersOwned
<1>1. PXIInit => Base
  BY BaseInit
<1>2. Base /\ [Next]_vars => Base'
  BY BaseStep
<1>3. Base => BuffersOwned
  BY Zenon DEF Base, Buffers
<1> QED BY <1>1, <1>2, <1>3, PTL DEF PXISpec

(* When command 5 of pxi:mc is sent as Process9 and the clients do, what it *)
(* goes by is right: it is alone from when it is sent, the commands pending *)
(* are counted, and the last value received is that of the command at hand. *)
LEMMA ConsiderateInvariant ==
    ASSUME Considerate PROVE PXISpec => [](Base /\ Mode /\ ~panicked)
<1>1. PXIInit => Base /\ Mode /\ ~panicked
  BY BaseInit, ModeInit
<1>2. Base /\ Mode /\ ~panicked /\ [Next]_vars => (Base /\ Mode /\ ~panicked)'
  BY BaseStep, ModeStep, PanicStep
<1> QED BY <1>1, <1>2, PTL DEF PXISpec

(* The types, the count of the commands pending and the buffers.            *)
THEOREM CountsAndBuffers == ASSUME Considerate PROVE PXISpec => []PXIInv
<1>1. Base /\ Mode => PXIInv
  <2> SUFFICES ASSUME Base, Mode PROVE PXIInv
    OBVIOUS
  <2>1. PendingCounted /\ BuffersOwned
    BY Zenon DEF Mode, Base, Buffers
  <2> DEFINE N == Cardinality(Services)
  <2>2. \A S \in SUBSET Services : Cardinality(S) \in 0 .. N
    <3> SUFFICES ASSUME NEW S \in SUBSET Services PROVE Cardinality(S) \in 0 .. N
      OBVIOUS
    <3>1. Cardinality(S) \in Nat /\ Cardinality(Services) \in Nat
      BY RepliedCounts
    <3>2. Cardinality(S) <= Cardinality(Services)
      BY Constants, FS_Subset
    <3> QED BY <3>1, <3>2
  <2>3. 0 \in 0 .. N
    <3>1. N \in Nat
      BY RepliedCounts
    <3> QED BY <3>1
  <2>4. replySemaphore \in 0 .. N
    <3>1. Cardinality(Replied) \in 0 .. N
      BY <2>2 DEF Replied
    <3> QED BY <2>3, <3>1, Zenon DEF Base, ReplyCounted
  <2>5. pendingArm9Commands \in 0 .. N
    <3>1. Cardinality(Pending) \in 0 .. N
      BY <2>2 DEF Pending
    <3>2. ~sendingDisabled /\ ~shouldTerminate => pendingArm9Commands = Cardinality(Pending)
      BY <2>1, Zenon DEF PendingCounted, Pending
    <3>3. sendingDisabled \/ shouldTerminate => pendingArm9Commands = 0
      BY Zenon DEF Mode
    <3> QED BY <2>3, <3>1, <3>2, <3>3, Zenon
  <2>6. /\ state \in [All -> Places] /\ open \subseteq Services
        /\ used \in [Services -> SUBSET (1 .. NbBuffers)] /\ latest_PXI_MC5_val \in 0 .. 2
        /\ sender \in [pc : {"send", "reply", "wait", "ended"}, replyTarget : Services \cup {None}]
    BY Zenon DEF Base, Types, FlowTypes, SessionTypes, BufferTypes, CountTypes
  <2>7. sender.replyTarget \in Services \cup {None}
    BY <2>6
  <2>8. PXITypeOK
    BY <2>4, <2>5, <2>6, <2>7, Zenon DEF PXITypeOK, Places
  <2> QED BY <2>1, <2>8 DEF PXIInv
<1> QED BY <1>1, ConsiderateInvariant, PTL

(* No svcBreak is reached: the reply the semaphore announces is there, the  *)
(* command the receiver gets is one somebody waits for, and command 5 finds *)
(* sending as it should.                                                    *)
THEOREM NeverBreaks == ASSUME Considerate PROVE PXISpec => []NoPanic
<1>1. Base /\ Mode /\ ~panicked => NoPanic
  BY DEF NoPanic
<1> QED BY <1>1, ConsiderateInvariant, PTL
=============================================================================
