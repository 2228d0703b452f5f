------------------------------ MODULE PM_proof ------------------------------
(***************************************************************************)
(* Proofs about pm: every node of the process list is on one of its two    *)
(* lists and types are kept, whatever the clients do; and, when they wait  *)
(* for pm, the pointers to the applications do not outlive the nodes and   *)
(* two applications never run at once.                                     *)
(***************************************************************************)
EXTENDS PMLaunch, FiniteSetTheorems, SequenceTheorems, TLAPS

-----------------------------------------------------------------------------
(* Rows: sequences of nodes without repetition, as the two lists are.       *)
Row(w) == w \in Seq(Nodes) /\ \A j, k \in 1 .. Len(w) : w[j] = w[k] => j = k

LEMMA RowFacts ==
    ASSUME NEW w, Row(w)
    PROVE  /\ Len(w) \in Nat /\ DOMAIN w = 1 .. Len(w)
           /\ \A k \in 1 .. Len(w) : w[k] \in Nodes
           /\ \A n : n \in ToSet(w) <=> \E k \in 1 .. Len(w) : w[k] = n
           /\ ToSet(w) \subseteq Nodes
<1>1. Len(w) \in Nat /\ DOMAIN w = 1 .. Len(w)  BY LenProperties DEF Row
<1>2. \A k \in 1 .. Len(w) : w[k] \in Nodes  BY ElementOfSeq DEF Row
<1>3. QED BY <1>1, <1>2 DEF ToSet

(* A function on 1 .. m is a sequence of length m.                          *)
LEMMA LenIs ==
    ASSUME NEW S, NEW m \in Nat, NEW w \in [1 .. m -> S]
    PROVE  w \in Seq(S) /\ Len(w) = m
<1>1. w \in Seq(S)  BY SeqDef
<1>2. DOMAIN w = 1 .. Len(w) /\ Len(w) \in Nat  BY <1>1, LenProperties
<1>3. 1 .. m = 1 .. Len(w)  BY <1>2
<1>4. ASSUME NEW a \in Nat, NEW b \in Nat, a < b PROVE 1 .. a # 1 .. b
  <2>1. b \in 1 .. b /\ b \notin 1 .. a  BY <1>4
  <2>2. QED BY <2>1
<1>5. ~(m < Len(w)) /\ ~(Len(w) < m)  BY <1>2, <1>3, <1>4
<1>6. QED BY <1>1, <1>2, <1>5

(* A node appended to a row it is not on.                                   *)
LEMMA AppendRow ==
    ASSUME NEW w, Row(w), NEW n \in Nodes, n \notin ToSet(w)
    PROVE  Row(Append(w, n)) /\ ToSet(Append(w, n)) = ToSet(w) \cup {n}
<1> DEFINE v == Append(w, n)
<1>1. /\ Len(w) \in Nat /\ \A k \in 1 .. Len(w) : w[k] \in Nodes /\ w[k] # n
      /\ \A j, k \in 1 .. Len(w) : w[j] = w[k] => j = k
  BY RowFacts DEF Row
<1>2. /\ v \in Seq(Nodes) /\ Len(v) = Len(w) + 1
      /\ \A k \in 1 .. Len(w) : v[k] = w[k] /\ v[Len(w) + 1] = n
  BY AppendProperties DEF Row
<1>3. v[Len(w) + 1] = n  BY AppendProperties DEF Row
<1> HIDE DEF v
<1>4. Row(v)  BY <1>1, <1>2, <1>3 DEF Row
<1>5. ASSUME NEW m PROVE m \in ToSet(v) <=> m \in ToSet(w) \cup {n}
  <2>1. m \in ToSet(v) <=> \E k \in 1 .. Len(v) : v[k] = m  BY <1>4, RowFacts
  <2>2. m \in ToSet(w) <=> \E k \in 1 .. Len(w) : w[k] = m  BY RowFacts
  <2>3. 1 .. Len(v) = 1 .. Len(w) \cup {Len(w) + 1}  BY <1>1, <1>2
  <2>4. QED BY <2>1, <2>2, <2>3, <1>2, <1>3
<1>6. QED BY <1>4, <1>5 DEF v

(* A row without its first node.                                            *)
LEMMA TailRow ==
    ASSUME NEW w, Row(w), w # <<>>
    PROVE  /\ Head(w) \in Nodes /\ Head(w) \in ToSet(w) /\ Row(Tail(w))
           /\ ToSet(Tail(w)) = ToSet(w) \ {Head(w)}
<1> DEFINE v == Tail(w)
<1>1. /\ Len(w) \in Nat \ {0} /\ \A k \in 1 .. Len(w) : w[k] \in Nodes
      /\ \A j, k \in 1 .. Len(w) : w[j] = w[k] => j = k
  BY RowFacts, EmptySeq DEF Row
<1>2. /\ v \in Seq(Nodes) /\ Len(v) = Len(w) - 1
      /\ \A k \in 1 .. Len(v) : v[k] = w[k + 1]
  BY HeadTailProperties DEF Row
<1>3. Head(w) = w[1] /\ 1 \in 1 .. Len(w)  BY <1>1, HeadTailProperties DEF Row
<1> HIDE DEF v
<1>4. Row(v)  BY <1>1, <1>2 DEF Row
<1>5. ASSUME NEW m PROVE m \in ToSet(v) <=> m \in ToSet(w) \ {Head(w)}
  <2>1. m \in ToSet(v) <=> \E k \in 1 .. Len(v) : v[k] = m  BY <1>4, RowFacts
  <2>2. m \in ToSet(w) <=> \E k \in 1 .. Len(w) : w[k] = m  BY RowFacts
  <2>3. ASSUME NEW k \in 1 .. Len(v), v[k] = m PROVE m \in ToSet(w) /\ m # Head(w)
    <3>1. k + 1 \in 1 .. Len(w) /\ k + 1 # 1 /\ w[k + 1] = m  BY <2>3, <1>1, <1>2
    <3>2. QED BY <3>1, <2>2, <1>1, <1>3
  <2>4. ASSUME NEW k \in 1 .. Len(w), w[k] = m, m # Head(w) PROVE \E j \in 1 .. Len(v) : v[j] = m
    <3>1. k - 1 \in 1 .. Len(v) /\ (k - 1) + 1 = k  BY <2>4, <1>1, <1>2, <1>3
    <3>2. QED BY <3>1, <2>4, <1>2
  <2>5. QED BY <2>1, <2>2, <2>3, <2>4
<1>6. QED BY <1>1, <1>3, <1>4, <1>5, RowFacts DEF v

(* A row of two.                                                            *)
LEMMA ShortRow ==
    ASSUME NEW m \in Nodes, NEW n \in Nodes, m # n
    PROVE  /\ Row(<<n>>) /\ ToSet(<<n>>) = {n}
           /\ Row(<<m, n>>) /\ ToSet(<<m, n>>) = {m, n} /\ Len(<<m, n>>) = 2
<1>1. <<n>> \in Seq(Nodes) /\ <<m, n>> \in Seq(Nodes)  OBVIOUS
<1>2. DOMAIN <<n>> = {1} /\ DOMAIN <<m, n>> = {1, 2}  OBVIOUS
<1>3. ToSet(<<n>>) = {n} /\ ToSet(<<m, n>>) = {m, n}  BY <1>2 DEF ToSet
<1>4. Row(<<n>>) /\ Row(<<m, n>>)  BY <1>1 DEF Row
<1>5. QED BY <1>3, <1>4

(* One row after another that has none of its nodes.                        *)
LEMMA ConcatRow ==
    ASSUME NEW v, NEW w, Row(v), Row(w), ToSet(v) \cap ToSet(w) = {}
    PROVE  Row(v \o w) /\ ToSet(v \o w) = ToSet(v) \cup ToSet(w)
<1> DEFINE u == v \o w
<1>1. /\ Len(v) \in Nat /\ Len(w) \in Nat
      /\ \A j, k \in 1 .. Len(v) : v[j] = v[k] => j = k
      /\ \A j, k \in 1 .. Len(w) : w[j] = w[k] => j = k
  BY RowFacts DEF Row
<1>2. /\ u \in Seq(Nodes) /\ Len(u) = Len(v) + Len(w)
      /\ \A k \in 1 .. Len(v) + Len(w) : u[k] = IF k <= Len(v) THEN v[k] ELSE w[k - Len(v)]
  BY ConcatProperties DEF Row
<1>3. \A j \in 1 .. Len(v), k \in 1 .. Len(w) : v[j] # w[k]
  <2>1. \A j \in 1 .. Len(v) : v[j] \in ToSet(v)  BY RowFacts
  <2>2. \A k \in 1 .. Len(w) : w[k] \in ToSet(w)  BY RowFacts
  <2>3. QED BY <2>1, <2>2
<1> HIDE DEF u
<1>4. \A k \in 1 .. Len(v) : k \in 1 .. Len(u) /\ u[k] = v[k]  BY <1>1, <1>2
<1>5. \A k \in 1 .. Len(w) : Len(v) + k \in 1 .. Len(u) /\ u[Len(v) + k] = w[k]
  <2>1. ASSUME NEW k \in 1 .. Len(w)
        PROVE  Len(v) + k \in 1 .. Len(v) + Len(w) /\ ~(Len(v) + k <= Len(v)) /\ (Len(v) + k) - Len(v) = k
    BY <1>1
  <2>2. QED BY <2>1, <1>2
<1>6. \A k \in 1 .. Len(u) : k \in 1 .. Len(v) \/ k - Len(v) \in 1 .. Len(w)  BY <1>1, <1>2
<1>7. \A k \in 1 .. Len(u) : k \notin 1 .. Len(v) => u[k] = w[k - Len(v)]  BY <1>1, <1>2
<1>8. Row(u)
  <2>1. ASSUME NEW j \in 1 .. Len(u), NEW k \in 1 .. Len(u), u[j] = u[k] PROVE j = k
    <3>1. CASE j \in 1 .. Len(v) /\ k \in 1 .. Len(v)  BY <3>1, <2>1, <1>1, <1>4
    <3>2. CASE j \in 1 .. Len(v) /\ k \notin 1 .. Len(v)
      BY <3>2, <2>1, <1>3, <1>4, <1>6, <1>7
    <3>3. CASE j \notin 1 .. Len(v) /\ k \in 1 .. Len(v)
      BY <3>3, <2>1, <1>3, <1>4, <1>6, <1>7
    <3>4. CASE j \notin 1 .. Len(v) /\ k \notin 1 .. Len(v)
      <4>1. j - Len(v) = k - Len(v)  BY <3>4, <2>1, <1>1, <1>6, <1>7
      <4>2. QED BY <4>1, <1>1, <1>2
    <3>5. QED BY <3>1, <3>2, <3>3, <3>4
  <2>2. QED BY <2>1, <1>2 DEF Row
<1>9. ASSUME NEW m PROVE m \in ToSet(u) <=> m \in ToSet(v) \cup ToSet(w)
  <2>1. /\ m \in ToSet(u) <=> \E k \in 1 .. Len(u) : u[k] = m
        /\ m \in ToSet(v) <=> \E k \in 1 .. Len(v) : v[k] = m
        /\ m \in ToSet(w) <=> \E k \in 1 .. Len(w) : w[k] = m
    BY <1>8, RowFacts
  <2>2. QED BY <2>1, <1>4, <1>5, <1>6, <1>7
<1>10. QED BY <1>8, <1>9 DEF u

(* A row without the node at position p.                                    *)
LEMMA RemoveRow ==
    ASSUME NEW w, Row(w), NEW p \in 1 .. Len(w)
    PROVE  Row(RemoveAt(w, p)) /\ ToSet(RemoveAt(w, p)) = ToSet(w) \ {w[p]}
<1> DEFINE a == SubSeq(w, 1, p - 1)
           b == SubSeq(w, p + 1, Len(w))
<1>1. /\ Len(w) \in Nat /\ \A k \in 1 .. Len(w) : w[k] \in Nodes
      /\ \A j, k \in 1 .. Len(w) : w[j] = w[k] => j = k
      /\ p \in Nat /\ p - 1 \in Int /\ p + 1 \in Int
  BY RowFacts DEF Row
<1>2. a \in Seq(Nodes) /\ Len(a) = p - 1 /\ \A k \in 1 .. p - 1 : a[k] = w[k]
  <2>1. \A k \in 1 .. p - 1 : w[k] \in Nodes  BY <1>1
  <2>2. /\ a \in Seq(Nodes) /\ Len(a) = IF 1 <= p - 1 THEN (p - 1) - 1 + 1 ELSE 0
        /\ \A k \in 1 .. (p - 1) - 1 + 1 : a[k] = w[1 + k - 1]
    BY <2>1, <1>1, SubSeqProperties
  <2> HIDE DEF a
  <2>3. (p - 1) - 1 + 1 = p - 1 /\ \A k \in 1 .. p - 1 : 1 + k - 1 = k  BY <1>1
  <2>4. QED BY <2>2, <2>3, <1>1
<1>3. b \in Seq(Nodes) /\ Len(b) = Len(w) - p /\ \A k \in 1 .. Len(w) - p : b[k] = w[p + k]
  <2>1. \A k \in p + 1 .. Len(w) : w[k] \in Nodes  BY <1>1
  <2>2. /\ b \in Seq(Nodes) /\ Len(b) = IF p + 1 <= Len(w) THEN Len(w) - (p + 1) + 1 ELSE 0
        /\ \A k \in 1 .. Len(w) - (p + 1) + 1 : b[k] = w[(p + 1) + k - 1]
    BY <2>1, <1>1, SubSeqProperties
  <2> HIDE DEF b
  <2>3. /\ Len(w) - (p + 1) + 1 = Len(w) - p
        /\ (IF p + 1 <= Len(w) THEN Len(w) - p ELSE 0) = Len(w) - p
    BY <1>1
  <2>4. \A k \in 1 .. Len(w) - p : (p + 1) + k - 1 = p + k  BY <1>1
  <2>5. \A k \in 1 .. Len(w) - p : b[k] = w[(p + 1) + k - 1]  BY <2>2, <2>3
  <2>6. Len(b) = Len(w) - p  BY <2>2, <2>3
  <2>7. \A k \in 1 .. Len(w) - p : b[k] = w[p + k]
    <3>1. TAKE k \in 1 .. Len(w) - p
    <3>2. b[k] = w[(p + 1) + k - 1] /\ (p + 1) + k - 1 = p + k  BY <2>4, <2>5
    <3>3. QED BY <3>2
  <2>8. QED BY <2>2, <2>6, <2>7
<1>4. RemoveAt(w, p) = a \o b  BY DEF RemoveAt
<1> HIDE DEF a, b
<1>5. Row(a)  BY <1>1, <1>2 DEF Row
<1>6. Row(b)
  <2>1. ASSUME NEW j \in 1 .. Len(b), NEW k \in 1 .. Len(b), b[j] = b[k] PROVE j = k
    <3>1. p + j \in 1 .. Len(w) /\ p + k \in 1 .. Len(w)  BY <1>1, <1>3
    <3>2. w[p + j] = w[p + k]  BY <2>1, <1>3
    <3>3. p + j = p + k  BY <3>1, <3>2, <1>1
    <3>4. QED BY <3>3, <1>1, <1>3
  <2>2. QED BY <2>1, <1>3 DEF Row
<1>7. ASSUME NEW m PROVE m \in ToSet(a) <=> \E k \in 1 .. p - 1 : w[k] = m
  BY <1>2, <1>5, RowFacts
<1>8. ASSUME NEW m PROVE m \in ToSet(b) <=> \E k \in p + 1 .. Len(w) : w[k] = m
  <2>1. m \in ToSet(b) <=> \E k \in 1 .. Len(w) - p : w[p + k] = m
    <3>1. m \in ToSet(b) <=> \E k \in 1 .. Len(b) : b[k] = m  BY <1>6, RowFacts
    <3>2. 1 .. Len(b) = 1 .. Len(w) - p  BY <1>3
    <3>3. QED BY <3>1, <3>2, <1>3
  <2>2. \A k \in 1 .. Len(w) - p : p + k \in p + 1 .. Len(w)  BY <1>1
  <2>3. \A k \in p + 1 .. Len(w) : k - p \in 1 .. Len(w) - p /\ p + (k - p) = k  BY <1>1
  <2>4. QED BY <2>1, <2>2, <2>3
<1>9. \A k \in 1 .. p - 1 : k \in 1 .. Len(w) /\ k # p  BY <1>1
<1>10. \A k \in p + 1 .. Len(w) : k \in 1 .. Len(w) /\ k # p  BY <1>1
<1>11. \A j \in 1 .. p - 1, k \in p + 1 .. Len(w) : j # k  BY <1>1
<1>12. \A k \in 1 .. Len(w) : k = p \/ k \in 1 .. p - 1 \/ k \in p + 1 .. Len(w)  BY <1>1
<1>13. ToSet(a) \cap ToSet(b) = {}
  <2>1. ASSUME NEW m, m \in ToSet(a), m \in ToSet(b) PROVE FALSE
    BY <2>1, <1>1, <1>7, <1>8, <1>9, <1>10, <1>11
  <2>2. QED BY <2>1
<1>14. Row(a \o b) /\ ToSet(a \o b) = ToSet(a) \cup ToSet(b)  BY <1>5, <1>6, <1>13, ConcatRow
<1>15. ASSUME NEW m PROVE m \in ToSet(a) \cup ToSet(b) <=> m \in ToSet(w) \ {w[p]}
  <2>1. m \in ToSet(w) <=> \E k \in 1 .. Len(w) : w[k] = m  BY RowFacts
  <2>2. QED BY <2>1, <1>1, <1>7, <1>8, <1>9, <1>10, <1>12
<1>16. QED BY <1>4, <1>14, <1>15

-----------------------------------------------------------------------------
(* Processes.  What notifications, reference counts and flags do to one:    *)
(* it stays the same process, is not marked as ended, and neither becomes   *)
(* the application nor ceases to be it.                                     *)
Statuses == {"running", "notified", "failed", "terminated"}
IsProcess(p) ==
    /\ p = [pid |-> p.pid, title |-> p.title, flags |-> p.flags, status |-> p.status,
            refcount |-> p.refcount]
    /\ p.pid \in Pids \cup {0} /\ p.title \in Titles \cup {"none"}
    /\ p.status \in Statuses /\ p.refcount \in 0 .. 255
AreProcesses(ps) == ps = [n \in Nodes |-> ps[n]] /\ \A n \in Nodes : IsProcess(ps[n])

IsApplication(p) == "application" \in p.flags
Kept(p, q) ==
    /\ IsProcess(q) /\ q.pid = p.pid /\ q.title = p.title
    /\ q.status = "terminated" => p.status = "terminated"
    /\ IsApplication(q) <=> IsApplication(p)
AllKept(ps, qs) == AreProcesses(qs) /\ \A n \in Nodes : Kept(ps[n], qs[n])

LEMMA StatusKeeps ==
    ASSUME NEW p, IsProcess(p), NEW s \in Statuses, s # "terminated"
    PROVE  Kept(p, [p EXCEPT !.status = s])
<1> DEFINE q == [p EXCEPT !.status = s]
<1>1. q = [pid |-> p.pid, title |-> p.title, flags |-> p.flags, status |-> s,
           refcount |-> p.refcount]
  BY DEF IsProcess
<1>2. q.pid = p.pid /\ q.title = p.title /\ q.flags = p.flags /\ q.status = s
      /\ q.refcount = p.refcount
  BY <1>1
<1> HIDE DEF q
<1>3. IsProcess(q)  BY <1>1, <1>2 DEF IsProcess
<1>4. QED BY <1>2, <1>3 DEF Kept, IsApplication, q

LEMMA CountKeeps ==
    ASSUME NEW p, IsProcess(p), NEW r \in 0 .. 255
    PROVE  Kept(p, [p EXCEPT !.refcount = r])
<1> DEFINE q == [p EXCEPT !.refcount = r]
<1>1. q = [pid |-> p.pid, title |-> p.title, flags |-> p.flags, status |-> p.status,
           refcount |-> r]
  BY DEF IsProcess
<1>2. q.pid = p.pid /\ q.title = p.title /\ q.flags = p.flags /\ q.status = p.status
      /\ q.refcount = r
  BY <1>1
<1> HIDE DEF q
<1>3. IsProcess(q)  BY <1>1, <1>2 DEF IsProcess
<1>4. QED BY <1>2, <1>3 DEF Kept, IsApplication, q

LEMMA FlagsChange ==
    ASSUME NEW p, IsProcess(p), NEW fs
    PROVE  LET q == [p EXCEPT !.flags = fs]
           IN  /\ IsProcess(q) /\ q.pid = p.pid /\ q.title = p.title /\ q.flags = fs
               /\ q.status = p.status /\ q.refcount = p.refcount
<1> DEFINE q == [p EXCEPT !.flags = fs]
<1>1. q = [pid |-> p.pid, title |-> p.title, flags |-> fs, status |-> p.status,
           refcount |-> p.refcount]
  BY DEF IsProcess
<1>2. q.pid = p.pid /\ q.title = p.title /\ q.flags = fs /\ q.status = p.status
      /\ q.refcount = p.refcount
  BY <1>1
<1> HIDE DEF q
<1>3. IsProcess(q)  BY <1>1, <1>2 DEF IsProcess
<1>4. QED BY <1>2, <1>3 DEF q

LEMMA FlagsKeep ==
    ASSUME NEW p, IsProcess(p), NEW fs, "application" \in fs <=> IsApplication(p)
    PROVE  Kept(p, [p EXCEPT !.flags = fs])
<1>1. QED BY FlagsChange DEF Kept, IsApplication

LEMMA KeptItself == ASSUME NEW ps, AreProcesses(ps) PROVE AllKept(ps, ps)
BY DEF AllKept, AreProcesses, Kept

LEMMA KeptOn ==
    ASSUME NEW ps, NEW qs, NEW rs, AllKept(ps, qs), AllKept(qs, rs)
    PROVE  AllKept(ps, rs)
<1>1. ASSUME NEW n \in Nodes PROVE Kept(ps[n], rs[n])
  <2>1. Kept(ps[n], qs[n]) /\ Kept(qs[n], rs[n])  BY DEF AllKept
  <2>2. QED BY <2>1 DEF Kept
<1>2. QED BY <1>1 DEF AllKept

LEMMA NotifiedKeeps ==
    ASSUME NEW ps, AreProcesses(ps), NEW S PROVE AllKept(ps, Notified(ps, S))
<1>1. ASSUME NEW n \in Nodes PROVE Kept(ps[n], Notified(ps, S)[n])
  <2>1. IsProcess(ps[n])  BY DEF AreProcesses
  <2>2. Kept(ps[n], NotifiedIf(ps[n]))
    <3>1. (IF ps[n].pid \in registered THEN "notified" ELSE "failed") \in Statuses \ {"terminated"}
      BY DEF Statuses
    <3>2. QED BY <2>1, <3>1, StatusKeeps DEF NotifiedIf
  <2>3. Kept(ps[n], ps[n])  BY <2>1 DEF Kept
  <2>4. QED BY <2>2, <2>3 DEF Notified
<1>2. Notified(ps, S) = [n \in Nodes |-> Notified(ps, S)[n]]  BY DEF Notified
<1>3. QED BY <1>1, <1>2 DEF AllKept, AreProcesses, Kept

LEMMA IncrefKeeps ==
    ASSUME NEW ps, AreProcesses(ps), NEW S, NEW amount \in Nat PROVE AllKept(ps, Incref(ps, S, amount))
<1>1. ASSUME NEW n \in Nodes PROVE Kept(ps[n], Incref(ps, S, amount)[n])
  <2>1. IsProcess(ps[n])  BY DEF AreProcesses
  <2>2. ASSUME Fits(ps[n], amount)
        PROVE  Kept(ps[n], [ps[n] EXCEPT !.refcount = ps[n].refcount + amount])
    <3>1. ps[n].refcount \in 0 .. 255 /\ ps[n].refcount + amount <= 255
      BY <2>1, <2>2 DEF IsProcess, Fits
    <3>2. \A r \in 0 .. 255 : r + amount <= 255 => r + amount \in 0 .. 255  OBVIOUS
    <3>3. ps[n].refcount + amount \in 0 .. 255  BY <3>1, <3>2
    <3>4. QED BY <2>1, <3>3, CountKeeps
  <2>3. Kept(ps[n], ps[n])  BY <2>1 DEF Kept
  <2>4. QED BY <2>2, <2>3 DEF Incref
<1>2. Incref(ps, S, amount) = [n \in Nodes |-> Incref(ps, S, amount)[n]]  BY DEF Incref
<1>3. QED BY <1>1, <1>2 DEF AllKept, AreProcesses, Kept

LEMMA ReleasedKeeps ==
    ASSUME NEW ps, AreProcesses(ps), NEW deps PROVE AllKept(ps, Released(ps, deps))
<1> DEFINE used == UsedBy(ps, deps)
           less == [n \in Nodes |-> IF n \in used
                                    THEN [ps[n] EXCEPT !.refcount = (@ + 255) % 256] ELSE ps[n]]
           left == {n \in used : less[n].refcount = 0}
<1>1. ASSUME NEW n \in Nodes PROVE Kept(ps[n], less[n])
  <2>1. IsProcess(ps[n])  BY DEF AreProcesses
  <2>2. Kept(ps[n], [ps[n] EXCEPT !.refcount = (ps[n].refcount + 255) % 256])
    <3>1. (ps[n].refcount + 255) % 256 \in 0 .. 255  BY <2>1 DEF IsProcess
    <3>2. QED BY <2>1, <3>1, CountKeeps
  <2>3. Kept(ps[n], ps[n])  BY <2>1 DEF Kept
  <2>4. QED BY <2>2, <2>3
<1>2. less = [n \in Nodes |-> less[n]]  OBVIOUS
<1>3. Released(ps, deps) = Notified(less, left)  BY DEF Released
<1> HIDE DEF used, less, left
<1>4. AllKept(ps, less)  BY <1>1, <1>2 DEF AllKept, AreProcesses, Kept
<1>5. AllKept(less, Notified(less, left))  BY <1>4, NotifiedKeeps DEF AllKept
<1>6. QED BY <1>3, <1>4, <1>5, KeptOn

LEMMA OneFlagged ==
    ASSUME NEW ps, AreProcesses(ps), NEW n, NEW fs, "application" \in fs <=> IsApplication(ps[n])
    PROVE  AllKept(ps, [ps EXCEPT ![n].flags = fs])
<1> DEFINE qs == [ps EXCEPT ![n].flags = fs]
<1>1. /\ qs = [m \in Nodes |-> qs[m]]
      /\ \A m \in Nodes : qs[m] = IF m = n THEN [ps[n] EXCEPT !.flags = fs] ELSE ps[m]
  BY DEF AreProcesses
<1> HIDE DEF qs
<1>2. ASSUME NEW m \in Nodes PROVE Kept(ps[m], qs[m])
  <2>1. IsProcess(ps[m])  BY DEF AreProcesses
  <2>2. Kept(ps[m], ps[m])  BY <2>1 DEF Kept
  <2>3. CASE m = n  BY <2>1, <2>3, <1>1, FlagsKeep
  <2>4. QED BY <2>2, <2>3, <1>1
<1>3. QED BY <1>1, <1>2 DEF AllKept, AreProcesses, Kept, qs

LEMMA WithoutFlagsKeeps ==
    ASSUME NEW ps, AreProcesses(ps), NEW n, NEW fs, "application" \notin fs
    PROVE  AllKept(ps, WithoutFlags(ps, n, fs))
<1> DEFINE gs == ps[n].flags \ fs
<1>1. WithoutFlags(ps, n, fs) = [ps EXCEPT ![n].flags = gs]  BY DEF WithoutFlags
<1>2. "application" \in gs <=> IsApplication(ps[n])  BY DEF IsApplication
<1> HIDE DEF gs
<1>3. AllKept(ps, [ps EXCEPT ![n].flags = gs])  BY <1>2, OneFlagged
<1>4. QED BY <1>1, <1>3

LEMMA TerminatedKeeps ==
    ASSUME NEW ps, AreProcesses(ps), NEW n PROVE AllKept(ps, Terminated(ps, n))
<1> DEFINE qs == WithoutFlags(ps, n, {"dependencies loaded"})
<1>1. AllKept(ps, qs)  BY WithoutFlagsKeeps
<1>2. AllKept(qs, Notified(qs, {n}))  BY <1>1, NotifiedKeeps DEF AllKept
<1>3. AllKept(Notified(qs, {n}), Released(Notified(qs, {n}), Deps[ps[n].title]))
  BY <1>2, ReleasedKeeps DEF AllKept
<1>4. AllKept(ps, Notified(ps, {n}))  BY NotifiedKeeps
<1>5. AllKept(ps, Released(Notified(qs, {n}), Deps[ps[n].title]))  BY <1>1, <1>2, <1>3, KeptOn
<1>6. QED BY <1>4, <1>5 DEF Terminated

LEMMA TakeOverKeeps ==
    ASSUME NEW ps, AreProcesses(ps), NEW n PROVE AllKept(ps, TakeOver(ps, n))
<1> DEFINE fs == (ps[n].flags \ {"notify"}) \cup {"notify ended"}
<1>1. "application" \in fs <=> IsApplication(ps[n])  BY DEF IsApplication
<1>2. AllKept(ps, [ps EXCEPT ![n].flags = fs])  BY <1>1, OneFlagged
<1>3. AllKept(ps, ps)  BY KeptItself
<1>4. QED BY <1>2, <1>3 DEF TakeOver

(* The least of a set of numbers.                                           *)
LEMMA LeastNat == ASSUME NEW S \in SUBSET Nat, S # {} PROVE \E x \in S : \A y \in S : x <= y
<1> DEFINE upto(n) == 1 .. n
           R == StrictSubsetOrdering(Nat)
           T == {upto(n) : n \in S}
<1>1. ASSUME NEW n \in S PROVE upto(n) \in FiniteSubsetsOf(Nat)
  <2>1. IsFiniteSet(upto(n))  BY FS_Interval
  <2>2. upto(n) \in SUBSET Nat  OBVIOUS
  <2> HIDE DEF upto
  <2>3. QED BY <2>1, <2>2 DEF FiniteSubsetsOf
<1>2. \E t \in T : \A u \in T : <<u, t>> \notin R
  <2>1. IsWellFoundedOn(R, FiniteSubsetsOf(Nat))  BY FS_StrictSubsetOrderingWellFounded
  <2>2. T \subseteq FiniteSubsetsOf(Nat) /\ T # {}  BY <1>1
  <2> HIDE DEF R, T
  <2>3. QED BY <2>1, <2>2, WFMin
<1>3. PICK x \in S : \A y \in S : <<upto(y), upto(x)>> \notin R  BY <1>2
<1>4. ASSUME NEW y \in S, y < x PROVE FALSE
  <2>1. x \in upto(x) /\ x \notin upto(y)  BY <1>4
  <2>2. upto(y) \subseteq upto(x) /\ upto(x) \in SUBSET Nat /\ upto(y) \in SUBSET Nat
    BY <1>4
  <2> HIDE DEF upto
  <2>3. <<upto(y), upto(x)>> \in R  BY <2>1, <2>2 DEF StrictSubsetOrdering
  <2>4. QED BY <1>3, <2>3
<1>5. QED BY <1>3, <1>4

(* TerminateProcessOrTitleAsync, over all the processes of a title: the     *)
(* loop's function exists, and each of its steps keeps the processes.       *)
Step(ps, n, title) == IF procs[n].title = title THEN Terminated(TakeOver(ps, n), n) ELSE ps
Loops(f, m, title) ==
    f = [k \in 0 .. m |-> IF k = 0 THEN procs ELSE Step(f[k - 1], list[k], title)]

LEMMA LoopExists == ASSUME NEW title PROVE \A m \in Nat : \E f : Loops(f, m, title)
<1> DEFINE S == {m \in Nat : ~\E f : Loops(f, m, title)}
<1> SUFFICES ASSUME S # {} PROVE FALSE
  OBVIOUS
<1>1. PICK m \in S : \A k \in S : m <= k
  <2>1. S \in SUBSET Nat  OBVIOUS
  <2> HIDE DEF S
  <2>2. QED BY <2>1, LeastNat
<1>2. m \in Nat /\ ~\E f : Loops(f, m, title)  BY <1>1
<1>3. m # 0
  <2> SUFFICES ASSUME m = 0 PROVE FALSE
    OBVIOUS
  <2> DEFINE f == [k \in 0 .. 0 |-> procs]
  <2>1. \A k \in 0 .. 0 : k = 0  OBVIOUS
  <2>2. f = [k \in 0 .. 0 |-> IF k = 0 THEN procs ELSE Step(f[k - 1], list[k], title)]
    BY <2>1
  <2> HIDE DEF f
  <2>3. Loops(f, m, title)  BY <2>2 DEF Loops
  <2>4. QED BY <2>3, <1>2
<1>4. m - 1 \in Nat /\ m - 1 \notin S
  <2>1. m - 1 \in Nat /\ ~(m <= m - 1)  BY <1>2, <1>3
  <2> HIDE DEF S
  <2>2. QED BY <2>1, <1>1
<1>5. PICK g : Loops(g, m - 1, title)  BY <1>4
<1> DEFINE f == [k \in 0 .. m |-> IF k <= m - 1 THEN g[k] ELSE Step(g[m - 1], list[m], title)]
<1>6. \A k \in 0 .. m : k <= m - 1 => f[k] = g[k]  OBVIOUS
<1>7. f[m] = Step(g[m - 1], list[m], title)
  <2>1. m \in 0 .. m /\ ~(m <= m - 1)  BY <1>2
  <2> HIDE DEF Step
  <2>2. QED BY <2>1
<1>8. \A k \in 0 .. m - 1 : g[k] = IF k = 0 THEN procs ELSE Step(g[k - 1], list[k], title)
  <2> HIDE DEF Step
  <2>1. QED BY <1>5 DEF Loops
<1>9. ASSUME NEW k \in 0 .. m
      PROVE  f[k] = IF k = 0 THEN procs ELSE Step(f[k - 1], list[k], title)
  <2> HIDE DEF f, Step, S
  <2>1. CASE k <= m - 1
    <3>1. k \in 0 .. m - 1 /\ (k # 0 => k - 1 \in 0 .. m /\ k - 1 <= m - 1)  BY <2>1, <1>2
    <3>2. k # 0 => f[k - 1] = g[k - 1]  BY <3>1, <1>6
    <3>3. f[k] = g[k]  BY <2>1, <1>6
    <3>4. QED BY <3>1, <3>2, <3>3, <1>8
  <2>2. CASE ~(k <= m - 1)
    <3>1. k = m /\ k # 0 /\ k - 1 \in 0 .. m /\ k - 1 <= m - 1  BY <2>2, <1>2, <1>3
    <3>2. f[k - 1] = g[k - 1]  BY <3>1, <1>6
    <3>3. QED BY <3>1, <3>2, <1>7
  <2>3. QED BY <2>1, <2>2
<1>10. f = [k \in 0 .. m |-> f[k]]  OBVIOUS
<1> HIDE DEF f
<1>11. Loops(f, m, title)  BY <1>9, <1>10 DEF Loops
<1>12. QED BY <1>2, <1>11

LEMMA AllTerminatedKeeps ==
    ASSUME AreProcesses(procs), Row(list), NEW title
    PROVE  AllKept(procs, AllTerminated(title))
<1> DEFINE m == Len(list)
           after == CHOOSE f : Loops(f, m, title)
<1>1. m \in Nat  BY RowFacts
<1>2. AllTerminated(title) = after[m]  BY DEF AllTerminated, Loops, Step
<1> HIDE DEF m
<1>3. Loops(after, m, title)  BY <1>1, LoopExists
<1> HIDE DEF after
<1>4. after[0] = procs /\ \A k \in 1 .. m : after[k] = Step(after[k - 1], list[k], title)
  <2> HIDE DEF Step
  <2>1. \A k \in 1 .. m : k \in 0 .. m /\ k # 0  BY <1>1
  <2>2. 0 \in 0 .. m  BY <1>1
  <2>3. QED BY <1>3, <2>1, <2>2 DEF Loops
<1>5. ASSUME NEW k \in 0 .. m PROVE AllKept(procs, after[k])
  <2> DEFINE S == {j \in 0 .. m : ~AllKept(procs, after[j])}
  <2> SUFFICES ASSUME S # {} PROVE FALSE
    OBVIOUS
  <2>1. PICK j \in S : \A h \in S : j <= h
    <3>1. S \in SUBSET Nat  BY <1>1
    <3> HIDE DEF S
    <3>2. QED BY <3>1, LeastNat
  <2>2. j \in 0 .. m /\ ~AllKept(procs, after[j])  BY <2>1
  <2>3. j # 0  BY <2>2, <1>4, KeptItself
  <2>4. j \in 1 .. m /\ j - 1 \in 0 .. m /\ ~(j <= j - 1)  BY <2>2, <2>3, <1>1
  <2>5. AllKept(procs, after[j - 1])  BY <2>1, <2>4
  <2>6. AllKept(after[j - 1], Step(after[j - 1], list[j], title))
    <3> DEFINE ps == after[j - 1]
    <3>1. AreProcesses(ps)  BY <2>5 DEF AllKept
    <3> HIDE DEF ps
    <3>2. AllKept(ps, TakeOver(ps, list[j]))  BY <3>1, TakeOverKeeps
    <3>3. AllKept(TakeOver(ps, list[j]), Terminated(TakeOver(ps, list[j]), list[j]))
      BY <3>2, TerminatedKeeps DEF AllKept
    <3>4. AllKept(ps, Terminated(TakeOver(ps, list[j]), list[j]))  BY <3>2, <3>3, KeptOn
    <3>5. AllKept(ps, Step(ps, list[j], title))  BY <3>1, <3>4, KeptItself DEF Step
    <3>6. QED BY <3>5 DEF ps
  <2>7. QED BY <2>2, <2>4, <2>5, <2>6, <1>4, KeptOn
<1>6. QED BY <1>1, <1>2, <1>5

-----------------------------------------------------------------------------
(***************************************************************************)
(* What the processes, the lists, the pointers, the kernel and the monitor *)
(* keep whatever the clients do.                                           *)
(***************************************************************************)
ListsOK == /\ Row(list) /\ Row(freeList)
           /\ ToSet(list) \cap ToSet(freeList) = {}
           /\ ToSet(list) \cup ToSet(freeList) = Nodes
IsPointer(n) == n \in Nodes \cup {Null}
PointersOK == IsPointer(runningApplicationData) /\ IsPointer(debugData)
Lives == {"none", "created", "running", "dead"}
LifeOK == /\ life \in [Pids -> Lives]
          /\ \E k \in 0 .. MaxPid : \A p \in Pids : life[p] # "none" <=> p <= k
PidsOK ==
    /\ \A n \in Listed : procs[n].pid \in Pids /\ life[procs[n].pid] # "none"
    /\ \A m, n \in Listed : procs[m].pid = procs[n].pid => m = n
    /\ \A n \in Listed : procs[n].status = "terminated" => life[procs[n].pid] = "dead"
Cleans(pc) == pc \in {"retire", "dependencies", "clean up"}
IsMonitor(m) == m = [pc |-> m.pc, handles |-> m.handles, terminating |-> m.terminating,
                     process |-> m.process]
IsDead(p) == p \in Pids /\ life[p] = "dead"
MonitorOK == IsMonitor(monitor) /\ (Cleans(monitor.pc) => IsDead(monitor.process.pid))
KernelInv == /\ AreProcesses(procs) /\ ListsOK /\ PointersOK
             /\ LifeOK /\ PidsOK /\ MonitorOK

(* The kernel lets processes end (Fades), and pm runs those it created      *)
(* (Ages).                                                                  *)
Ages(f, g) ==
    /\ g \in [Pids -> Lives]
    /\ \A p \in Pids : g[p] = "none" <=> f[p] = "none"
    /\ \A p \in Pids : f[p] = "dead" => g[p] = "dead"
Fades(f, g) == Ages(f, g) /\ \A p \in Pids : g[p] = "running" => f[p] = "running"

LEMMA StayFades == LifeOK => Fades(life, life)
BY DEF LifeOK, Fades, Ages

LEMMA KilledFades == ASSUME LifeOK, NEW S PROVE Fades(life, Killed(S))
<1>1. \A p \in Pids : life[p] \in Lives  BY DEF LifeOK
<1>2. \A p \in Pids : Killed(S)[p] = IF p \in S /\ life[p] \in {"created", "running"}
                                    THEN "dead" ELSE life[p]
  BY DEF Killed
<1>3. Killed(S) = [p \in Pids |-> Killed(S)[p]]  BY DEF Killed
<1>4. \A p \in Pids : Killed(S)[p] \in Lives  BY <1>1, <1>2 DEF Lives
<1>5. Killed(S) \in [Pids -> Lives]  BY <1>3, <1>4
<1>6. QED BY <1>2, <1>5 DEF Fades, Ages

LEMMA RunAges ==
    ASSUME LifeOK, NEW p, p \in Pids => life[p] = "created"
    PROVE  Ages(life, [life EXCEPT ![p] = "running"])
BY DEF LifeOK, Ages, Lives

LEMMA DiesFades ==
    ASSUME LifeOK, NEW p, p \in Pids => life[p] = "running"
    PROVE  Fades(life, [life EXCEPT ![p] = "dead"])
BY DEF LifeOK, Ages, Fades, Lives

LEMMA MonitorWaits ==
    ASSUME MonitorOK, Ages(life, life'), monitor' = monitor PROVE MonitorOK'
BY DEF MonitorOK, Ages, IsDead

(* A step that leaves the lists alone.                                      *)
Remain(ps, qs) ==
    /\ AreProcesses(qs)
    /\ \A n \in Nodes : /\ qs[n].pid = ps[n].pid
                        /\ qs[n].status = "terminated" => ps[n].status = "terminated"
Calm == /\ UNCHANGED <<list, freeList>>
        /\ Remain(procs, procs') /\ PointersOK' /\ Ages(life, life') /\ MonitorOK'

LEMMA KeptRemain == ASSUME NEW ps, NEW qs, AllKept(ps, qs) PROVE Remain(ps, qs)
BY DEF AllKept, Kept, Remain

LEMMA ListedNodes ==
    ASSUME ListsOK
    PROVE  /\ Listed = ToSet(list) /\ Listed \subseteq Nodes
           /\ \A n \in Nodes : n \in Listed <=> n \notin ToSet(freeList)
BY RowFacts DEF ListsOK, Listed

LEMMA CalmKeeps == ASSUME KernelInv, Calm PROVE KernelInv' /\ Listed' = Listed
<1>1. Listed' = Listed /\ Listed \subseteq Nodes  BY ListedNodes DEF KernelInv, Calm, Listed
<1>2. AreProcesses(procs')  BY DEF Calm, Remain
<1>3. \A n \in Listed : /\ procs'[n].pid = procs[n].pid
                        /\ procs'[n].status = "terminated" => procs[n].status = "terminated"
  BY <1>1 DEF Calm, Remain
<1>4. ListsOK'
  <2>1. list' = list /\ freeList' = freeList  BY DEF Calm
  <2>2. QED BY <2>1 DEF KernelInv, ListsOK
<1>5. LifeOK'  BY DEF Calm, Ages, KernelInv, LifeOK
<1>6. PidsOK'
  <2>1. \A n \in Listed : procs[n].pid \in Pids /\ life[procs[n].pid] # "none"
    BY DEF KernelInv, PidsOK
  <2>2. \A n \in Listed : procs'[n].pid \in Pids /\ life'[procs'[n].pid] # "none"
    BY <2>1, <1>3 DEF Calm, Ages
  <2>3. \A m, n \in Listed : procs'[m].pid = procs'[n].pid => m = n
    BY <1>3 DEF KernelInv, PidsOK
  <2>4. \A n \in Listed : procs'[n].status = "terminated" => life'[procs'[n].pid] = "dead"
    <3>1. \A n \in Listed : procs[n].status = "terminated" => life[procs[n].pid] = "dead"
      BY DEF KernelInv, PidsOK
    <3>2. QED BY <3>1, <2>1, <1>3 DEF Calm, Ages
  <2>5. QED BY <2>2, <2>3, <2>4, <1>1 DEF PidsOK
<1>7. PointersOK' /\ MonitorOK'  BY DEF Calm
<1>8. QED BY <1>1, <1>2, <1>4, <1>5, <1>6, <1>7 DEF KernelInv

(* The first process of a title.                                            *)
LEMMA FindIs ==
    ASSUME ListsOK, NEW title
    PROVE  Find(title) = Null \/ (Find(title) \in Listed /\ Find(title) \in Nodes)
<1> SUFFICES ASSUME NEW n \in Listed, procs[n].title = title
             PROVE  Find(title) \in Listed /\ Find(title) \in Nodes
  BY DEF Find
<1> DEFINE Q(k) == /\ procs[list[k]].title = title
                   /\ \A j \in 1 .. k - 1 : procs[list[j]].title # title
<1>1. /\ Len(list) \in Nat /\ DOMAIN list = 1 .. Len(list)
      /\ \A m : m \in Listed <=> \E k \in 1 .. Len(list) : list[k] = m
  BY RowFacts DEF ListsOK, Listed
<1>2. \E k \in DOMAIN list : Q(k)
  <2> DEFINE S == {k \in 1 .. Len(list) : procs[list[k]].title = title}
  <2>1. S \in SUBSET Nat /\ S # {}  BY <1>1
  <2>2. PICK k \in S : \A j \in S : k <= j
    <3> HIDE DEF S
    <3>1. QED BY <2>1, LeastNat
  <2>3. \A j \in 1 .. k - 1 : j \in 1 .. Len(list) /\ ~(k <= j)  BY <1>1, <2>2
  <2>4. \A j \in 1 .. k - 1 : procs[list[j]].title # title  BY <2>2, <2>3
  <2>5. QED BY <2>2, <2>4, <1>1
<1> DEFINE k == CHOOSE k \in DOMAIN list : Q(k)
<1>3. k \in 1 .. Len(list)
  <2> HIDE DEF Q
  <2>1. QED BY <1>1, <1>2
<1>4. Find(title) = list[k]  BY DEF Find
<1> HIDE DEF k, Q
<1>5. list[k] \in Listed  BY <1>1, <1>3
<1>6. QED BY <1>4, <1>5, ListedNodes

-----------------------------------------------------------------------------
(* The lists themselves change when a node is taken, and when one is freed. *)
LEMMA FreedRow ==
    ASSUME Row(freeList), NEW n \in Nodes, n \notin ToSet(freeList)
    PROVE  Row(Freed(n)) /\ ToSet(Freed(n)) = ToSet(freeList) \cup {n}
<1>1. CASE freeList = <<>>
  <2>1. Freed(n) = <<n>>  BY <1>1 DEF Freed
  <2>2. ToSet(freeList) = {}  BY <1>1 DEF ToSet
  <2>3. <<n>> \in Seq(Nodes) /\ DOMAIN <<n>> = {1} /\ Len(<<n>>) = 1  OBVIOUS
  <2>4. Row(<<n>>)  BY <2>3 DEF Row
  <2>5. ToSet(<<n>>) = {n}  BY <2>3 DEF ToSet
  <2>6. QED BY <2>1, <2>2, <2>4, <2>5
<1>2. CASE freeList # <<>>
  <2> DEFINE m == Head(freeList)
             v == <<m, n>>
             w == Tail(freeList)
  <2>1. m \in Nodes /\ m \in ToSet(freeList) /\ Row(w) /\ ToSet(w) = ToSet(freeList) \ {m}
    BY <1>2, TailRow
  <2>2. Freed(n) = v \o w  BY <1>2 DEF Freed
  <2> HIDE DEF m, w
  <2>3. m # n  BY <2>1
  <2>4. Row(v) /\ ToSet(v) = {m, n}  BY <2>1, <2>3, ShortRow
  <2> HIDE DEF v
  <2>5. ToSet(v) \cap ToSet(w) = {}  BY <2>1, <2>4
  <2>6. Row(v \o w) /\ ToSet(v \o w) = ToSet(v) \cup ToSet(w)  BY <2>1, <2>4, <2>5, ConcatRow
  <2>7. QED BY <2>1, <2>2, <2>4, <2>6
<1>3. QED BY <1>1, <1>2

LEMMA UnlinkedRow ==
    ASSUME Row(list), NEW n \in Listed
    PROVE  Row(Unlinked(n)) /\ ToSet(Unlinked(n)) = Listed \ {n}
<1> DEFINE k == CHOOSE k \in DOMAIN list : list[k] = n
<1>1. k \in 1 .. Len(list) /\ list[k] = n  BY RowFacts DEF Listed
<1>2. Unlinked(n) = RemoveAt(list, k)  BY DEF Unlinked
<1> HIDE DEF k
<1>3. QED BY <1>1, <1>2, RemoveRow DEF Listed

(* A node goes back to the pool.                                            *)
OnlyOne(n) == \A m \in Nodes \ {n} : procs'[m] = procs[m]
Frees(n) == list' = Unlinked(n) /\ freeList' = Freed(n)

LEMMA FreesKeeps ==
    ASSUME KernelInv, NEW n \in Listed, Frees(n),
           AreProcesses(procs'), OnlyOne(n),
           life' = life, PointersOK', MonitorOK'
    PROVE  KernelInv' /\ Listed' = Listed \ {n}
<1>1. ListsOK  BY DEF KernelInv
<1>2. n \in Nodes /\ n \notin ToSet(freeList) /\ Listed \subseteq Nodes
  BY <1>1, ListedNodes
<1>3. Row(Unlinked(n)) /\ ToSet(Unlinked(n)) = Listed \ {n}  BY <1>1, UnlinkedRow DEF ListsOK
<1>4. Row(Freed(n)) /\ ToSet(Freed(n)) = ToSet(freeList) \cup {n}
  BY <1>1, <1>2, FreedRow DEF ListsOK
<1>5. Listed' = Listed \ {n}  BY <1>3 DEF Frees, Listed
<1>6. ListsOK'
  <2>1. /\ ToSet(list) \cap ToSet(freeList) = {} /\ ToSet(list) \cup ToSet(freeList) = Nodes
        /\ Listed = ToSet(list)
    BY <1>1 DEF ListsOK, Listed
  <2>2. /\ Row(list') /\ Row(freeList') /\ ToSet(list') = Listed \ {n}
        /\ ToSet(freeList') = ToSet(freeList) \cup {n}
    BY <1>3, <1>4 DEF Frees
  <2>3. QED BY <2>1, <2>2, <1>2 DEF ListsOK
<1>7. LifeOK'  BY DEF KernelInv, LifeOK
<1>8. \A m \in Listed' : m \in Listed /\ procs'[m] = procs[m]  BY <1>2, <1>5 DEF OnlyOne
<1>9. PidsOK'
  <2>1. \A m \in Listed' : procs'[m].pid \in Pids /\ life'[procs'[m].pid] # "none"
    BY <1>8 DEF KernelInv, PidsOK
  <2>2. \A m, h \in Listed' : procs'[m].pid = procs'[h].pid => m = h
    BY <1>8 DEF KernelInv, PidsOK
  <2>3. \A m \in Listed' : procs'[m].status = "terminated" => life'[procs'[m].pid] = "dead"
    BY <1>8 DEF KernelInv, PidsOK
  <2>4. QED BY <2>1, <2>2, <2>3 DEF PidsOK
<1>10. QED BY <1>5, <1>6, <1>7, <1>9 DEF KernelInv

(* A node is taken for a new process.                                       *)
LEMMA NextPidIs ==
    ASSUME LifeOK, NextPid <= MaxPid
    PROVE  /\ NextPid \in Pids
           /\ \A p \in Pids : life[p] # "none" <=> p < NextPid
<1>1. PICK k \in 0 .. MaxPid : \A p \in Pids : life[p] # "none" <=> p <= k  BY DEF LifeOK
<1>2. MaxPid \in Nat  BY ProcessesAssumption
<1>3. {p \in Pids : life[p] # "none"} = 1 .. k  BY <1>1, <1>2 DEF Pids
<1>4. Cardinality(1 .. k) = k
  <2>1. Cardinality(1 .. k) = IF 1 > k THEN 0 ELSE k - 1 + 1  BY <1>1, <1>2, FS_Interval
  <2>2. QED BY <2>1, <1>1, <1>2
<1>5. NextPid = k + 1  BY <1>3, <1>4 DEF NextPid
<1>6. QED BY <1>1, <1>2, <1>5 DEF Pids

LEMMA TakesKeeps ==
    ASSUME KernelInv, freeList # <<>>, NextPid <= MaxPid,
           NEW p, IsProcess(p), p.pid = NextPid, p.status = "running",
           procs' = [procs EXCEPT ![NewNode] = p],
           list' = Append(list, NewNode), freeList' = Tail(freeList),
           life' = [life EXCEPT ![NextPid] = "created"],
           PointersOK', monitor' = monitor
    PROVE  /\ KernelInv' /\ Listed' = Listed \cup {NewNode}
           /\ NewNode \in Nodes \ Listed
           /\ procs'[NewNode] = p /\ life'[p.pid] = "created"
           /\ \A n \in Listed : procs'[n] = procs[n] /\ procs[n].pid # p.pid
           /\ \A q \in Pids \ {p.pid} : life'[q] = life[q]
<1>1. /\ NewNode \in Nodes /\ NewNode \in ToSet(freeList) /\ Row(Tail(freeList))
      /\ ToSet(Tail(freeList)) = ToSet(freeList) \ {NewNode}
  BY TailRow DEF KernelInv, ListsOK, NewNode
<1>2. /\ Listed = ToSet(list) /\ Listed \subseteq Nodes /\ NewNode \notin Listed
  BY <1>1, ListedNodes DEF KernelInv
<1>3. Row(list') /\ ToSet(list') = Listed \cup {NewNode}
  BY <1>1, <1>2, AppendRow DEF KernelInv, ListsOK
<1>4. Listed' = Listed \cup {NewNode}  BY <1>3 DEF Listed
<1>5. ListsOK'
  <2>1. ToSet(list) \cap ToSet(freeList) = {} /\ ToSet(list) \cup ToSet(freeList) = Nodes
    BY DEF KernelInv, ListsOK
  <2>2. Row(freeList') /\ ToSet(freeList') = ToSet(freeList) \ {NewNode}  BY <1>1
  <2>3. QED BY <2>1, <2>2, <1>1, <1>2, <1>3 DEF ListsOK
<1>6. NextPid \in Pids /\ \A q \in Pids : life[q] # "none" <=> q < NextPid
  BY NextPidIs DEF KernelInv
<1>7. /\ life' \in [Pids -> Lives] /\ life'[NextPid] = "created"
      /\ \A q \in Pids \ {NextPid} : life'[q] = life[q]
  BY <1>6 DEF KernelInv, LifeOK, Lives
<1>8. LifeOK'
  <2>1. NextPid \in 0 .. MaxPid /\ \A q \in Pids : q \in Int
    BY <1>6, ProcessesAssumption DEF Pids
  <2>2. \A q \in Pids : q <= NextPid <=> q < NextPid \/ q = NextPid  BY <2>1
  <2>3. \A q \in Pids : life'[q] # "none" <=> q <= NextPid  BY <1>6, <1>7, <2>2
  <2>4. \E k \in 0 .. MaxPid : \A q \in Pids : life'[q] # "none" <=> q <= k  BY <2>1, <2>3
  <2>5. QED BY <2>4, <1>7 DEF LifeOK
<1>9. /\ procs' = [n \in Nodes |-> procs'[n]] /\ procs'[NewNode] = p
      /\ \A n \in Nodes \ {NewNode} : procs'[n] = procs[n]
  BY <1>1 DEF KernelInv, AreProcesses
<1>10. AreProcesses(procs')  BY <1>9 DEF KernelInv, AreProcesses
<1>11. \A n \in Listed : procs'[n] = procs[n] /\ procs[n].pid \in Pids \ {NextPid}
  <2>1. \A n \in Listed : procs'[n] = procs[n]  BY <1>2, <1>9
  <2>2. life[NextPid] = "none"
    <3>1. ~(NextPid < NextPid)  BY <1>6 DEF Pids
    <3>2. QED BY <3>1, <1>6
  <2>3. QED BY <2>1, <2>2 DEF KernelInv, PidsOK
<1>12. PidsOK'
  <2>1. \A n \in Listed' : procs'[n].pid \in Pids /\ life'[procs'[n].pid] # "none"
    <3>1. \A n \in Listed : procs'[n].pid \in Pids /\ life'[procs'[n].pid] # "none"
      BY <1>7, <1>11 DEF KernelInv, PidsOK
    <3>2. QED BY <3>1, <1>4, <1>6, <1>7, <1>9
  <2>2. \A m, n \in Listed' : procs'[m].pid = procs'[n].pid => m = n
    BY <1>4, <1>9, <1>11 DEF KernelInv, PidsOK
  <2>3. \A n \in Listed' : procs'[n].status = "terminated" => life'[procs'[n].pid] = "dead"
    BY <1>4, <1>7, <1>9, <1>11 DEF KernelInv, PidsOK
  <2>4. QED BY <2>1, <2>2, <2>3 DEF PidsOK
<1>13. MonitorOK'
  <2>1. life[NextPid] # "dead"
    <3>1. ~(NextPid < NextPid)  BY <1>6 DEF Pids
    <3>2. QED BY <3>1, <1>6
  <2>2. QED BY <2>1, <1>7 DEF KernelInv, MonitorOK, IsDead
<1>14. KernelInv'  BY <1>5, <1>8, <1>10, <1>12, <1>13 DEF KernelInv
<1>15. QED BY <1>1, <1>2, <1>4, <1>7, <1>9, <1>11, <1>14

-----------------------------------------------------------------------------
(***************************************************************************)
(* The two threads that serve commands, and what each has for the launch   *)
(* it is at.                                                               *)
(***************************************************************************)
IsJob(j) == "title" \in DOMAIN j /\ j.title \in Titles \cup {"none"}
IsThreads(th) == /\ th = [t \in Workers |-> th[t]]
                 /\ \A t \in Workers : /\ th[t] = [pc |-> th[t].pc, job |-> th[t].job]
                                        /\ IsJob(th[t].job)
Moved(th, ti, t) == IsThreads(ti) /\ \A u \in Workers \ {t} : ti[u] = th[u]

Goes(th, ti, t, pc) == ti = [th EXCEPT ![t].pc = pc]
Becomes(th, ti, t, pc, job) == ti = [th EXCEPT ![t] = [pc |-> pc, job |-> job]]

LEMMA GotoMoves ==
    ASSUME NEW th, IsThreads(th), NEW t \in Workers, NEW pc, NEW ti, Goes(th, ti, t, pc)
    PROVE  Moved(th, ti, t) /\ ti[t].pc = pc /\ ti[t].job = th[t].job
<1> DEFINE e == [th[t] EXCEPT !.pc = pc]
<1>1. e = [pc |-> pc, job |-> th[t].job]  BY DEF IsThreads
<1>2. /\ ti = [u \in Workers |-> ti[u]] /\ ti[t] = e
      /\ \A u \in Workers \ {t} : ti[u] = th[u]
  BY DEF IsThreads, Goes
<1>3. e.pc = pc /\ e.job = th[t].job /\ e = [pc |-> e.pc, job |-> e.job]  BY <1>1
<1> HIDE DEF e
<1>4. \A u \in Workers : ti[u] = [pc |-> ti[u].pc, job |-> ti[u].job] /\ IsJob(ti[u].job)
  BY <1>2, <1>3 DEF IsThreads
<1>5. QED BY <1>2, <1>3, <1>4 DEF IsThreads, Moved

LEMMA SetMoves ==
    ASSUME NEW th, IsThreads(th), NEW t \in Workers, NEW pc, NEW job, IsJob(job),
           NEW ti, Becomes(th, ti, t, pc, job)
    PROVE  Moved(th, ti, t) /\ ti[t].pc = pc /\ ti[t].job = job
<1> DEFINE e == [pc |-> pc, job |-> job]
<1>1. /\ ti = [u \in Workers |-> ti[u]] /\ ti[t] = e
      /\ \A u \in Workers \ {t} : ti[u] = th[u]
  BY DEF IsThreads, Becomes
<1>2. e.pc = pc /\ e.job = job /\ e = [pc |-> e.pc, job |-> e.job]  OBVIOUS
<1> HIDE DEF e
<1>3. \A u \in Workers : ti[u] = [pc |-> ti[u].pc, job |-> ti[u].job] /\ IsJob(ti[u].job)
  BY <1>1, <1>2 DEF IsThreads
<1>4. QED BY <1>1, <1>2, <1>3 DEF IsThreads, Moved, e

LEMMA NoJobIs == IsJob(NoJob)
BY DEF IsJob, NoJob

LEMMA JobKept ==
    ASSUME NEW j, IsJob(j), NEW x
    PROVE  /\ IsJob([j EXCEPT !.notify = x]) /\ IsJob([j EXCEPT !.round = x])
           /\ x \in Titles \cup {"none"} => IsJob([j EXCEPT !.title = x])
BY DEF IsJob

LEMMA LaunchJobIs ==
    ASSUME NEW title \in Titles \cup {"none"}, NEW x, NEW y
    PROVE  /\ IsJob(LaunchJob(title)) /\ IsJob([LaunchJob(title) EXCEPT !.debugged = x])
           /\ IsJob([LaunchJob(title) EXCEPT !.prevdbg = x])
           /\ IsJob([LaunchJob(title) EXCEPT !.fake = x, !.debugged = y])
BY DEF IsJob, LaunchJob, NoJob

LEMMA StillMoves == ASSUME NEW th, IsThreads(th), NEW t PROVE Moved(th, th, t)
BY DEF Moved

IsLaunch(l) ==
    /\ l = [node |-> l.node, met |-> l.met, rem |-> l.rem, tried |-> l.tried,
            failed |-> l.failed, dep |-> l.dep, depNode |-> l.depNode]
    /\ IsPointer(l.node) /\ IsPointer(l.depNode)
    /\ l.met = [d \in Titles |-> l.met[d]] /\ l.rem \in [Titles -> Nat]
    /\ \A d \in Titles : l.met[d] = Null => l.rem[d] >= 1
    /\ l.dep # "none" => l.dep \in Titles /\ l.met[l.dep] = Null
LoadsDep(pc) == pc \in {"load", "set up", "run", "merge dependency"}
Loaded(pc) == pc \in {"set up", "run", "merge dependency"}
LaunchOK(pc, l) ==
    /\ IsLaunch(l)
    /\ l.dep # "none" => LoadsDep(pc) /\ (Loaded(pc) => l.depNode # Null)
    /\ pc = "merge dependency" => l.dep # "none"
WorkersInv == /\ IsThreads(thread) /\ launch = [t \in Workers |-> launch[t]]
              /\ \A t \in Workers : LaunchOK(thread[t].pc, launch[t])

LEMMA NoLaunchIs ==
    /\ IsLaunch(NoLaunch) /\ NoLaunch.dep = "none" /\ NoLaunch.node = Null
    /\ \A pc : pc # "merge dependency" => LaunchOK(pc, NoLaunch)
<1>1. NoLaunch = [node |-> NoLaunch.node, met |-> NoLaunch.met, rem |-> NoLaunch.rem,
                  tried |-> NoLaunch.tried, failed |-> NoLaunch.failed, dep |-> NoLaunch.dep,
                  depNode |-> NoLaunch.depNode]
  BY DEF NoLaunch
<1>2. /\ NoLaunch.node = Null /\ NoLaunch.depNode = Null /\ NoLaunch.dep = "none"
      /\ NoLaunch.met = [d \in Titles |-> NotMet] /\ NoLaunch.rem = [d \in Titles |-> 0]
  BY DEF NoLaunch
<1>3. NotMet # Null  BY DEF NotMet, Null
<1>4. NoLaunch.rem \in [Titles -> Nat]  BY <1>2
<1>5. NoLaunch.met = [d \in Titles |-> NoLaunch.met[d]] /\ \A d \in Titles : NoLaunch.met[d] # Null
  BY <1>2, <1>3
<1>6. IsLaunch(NoLaunch)  BY <1>1, <1>2, <1>4, <1>5 DEF IsLaunch, IsPointer
<1>7. QED BY <1>2, <1>6 DEF LaunchOK

(* A thread that is not loading a dependency goes somewhere else.           *)
LEMMA LaunchStays ==
    ASSUME NEW pc, NEW l, LaunchOK(pc, l), NEW qc, qc # "merge dependency", ~LoadsDep(pc)
    PROVE  LaunchOK(qc, l) /\ l.dep = "none"
BY DEF LaunchOK

SetsLaunch(t, l) ==
    /\ launch' = [u \in Workers |-> launch'[u]] /\ launch'[t] = l
    /\ \A u \in Workers \ {t} : launch'[u] = launch[u]
LEMMA WorkerMoves ==
    ASSUME WorkersInv, NEW t \in Workers, Moved(thread, thread', t),
           SetsLaunch(t, launch'[t]), LaunchOK(thread'[t].pc, launch'[t])
    PROVE  WorkersInv'
<1>1. \A u \in Workers \ {t} : launch'[u] = launch[u] /\ thread'[u] = thread[u]
  BY DEF SetsLaunch, Moved
<1>2. launch' = [u \in Workers |-> launch'[u]]  BY DEF SetsLaunch
<1>3. \A u \in Workers : LaunchOK(thread'[u].pc, launch'[u])  BY <1>1 DEF WorkersInv
<1>4. QED BY <1>2, <1>3 DEF WorkersInv, Moved

-----------------------------------------------------------------------------
(* What a thread that ends processes may do.                                *)
Terminates(pc) ==
    pc \in {"begin", "notify", "commit", "wait", "wait on", "kill", "end", "firmlaunch", "reap"}
Unmoved == UNCHANGED <<list, freeList, runningApplicationData, debugData, monitor>>
Ending(t) ==
    /\ Unmoved /\ launch' = launch
    /\ AllKept(procs, procs') /\ Fades(life, life')
    /\ Moved(thread, thread', t) /\ Terminates(thread[t].pc)
    /\ Terminates(thread'[t].pc) \/ thread'[t].pc = "idle"

LEMMA GoesOn ==
    ASSUME WorkersInv, NEW t \in Workers, NEW pc, Goto(t, pc), Terminates(pc)
    PROVE  Moved(thread, thread', t) /\ Terminates(thread'[t].pc)
<1>1. IsThreads(thread)  BY DEF WorkersInv
<1>2. Goes(thread, thread', t, pc)  BY DEF Goto, Goes
<1>3. Moved(thread, thread', t) /\ thread'[t].pc = pc  BY <1>1, <1>2, GotoMoves
<1>4. QED BY <1>3

LEMMA EndingStep ==
    ASSUME KernelInv, WorkersInv, NEW t \in Workers, Terminating(t)
    PROVE  Ending(t)
<1>0. AreProcesses(procs) /\ LifeOK /\ IsThreads(thread)  BY DEF KernelInv, WorkersInv
<1>a. AllKept(procs, procs) /\ Fades(life, life)  BY <1>0, KeptItself, StayFades
<1>1. CASE Begin(t)
  <2>1. Unmoved /\ launch' = launch /\ procs' = procs /\ life' = life
    BY <1>1 DEF Begin, Unmoved, shared, environment
  <2>2. Goto(t, "notify") /\ Terminates(thread[t].pc)  BY <1>1 DEF Begin, At, Terminates
  <2>3. Moved(thread, thread', t) /\ Terminates(thread'[t].pc)  BY <2>2, GoesOn DEF Terminates
  <2>4. QED BY <2>1, <2>2, <2>3, <1>a DEF Ending
<1>2. CASE NotifyTitle(t)
  <2>1. Unmoved /\ launch' = launch /\ life' = life
    BY <1>2 DEF NotifyTitle, Unmoved, environment
  <2>2. AllKept(procs, procs')
    BY <1>0, <1>2, AllTerminatedKeeps DEF NotifyTitle, KernelInv, ListsOK
  <2>a. IsJob(thread[t].job)  BY <1>0 DEF IsThreads
  <2>3. PICK job : /\ IsJob(job)
                   /\ thread' = [thread EXCEPT ![t] = IF thread[t].job.finite
                                                   THEN [pc |-> "commit", job |-> job] ELSE Idle]
    <3> DEFINE x == \E n \in With({thread[t].job.title}) : "notify" \in procs[n].flags
               j == [thread[t].job EXCEPT !.notify = x]
    <3>1. thread' = [thread EXCEPT ![t] = IF thread[t].job.finite
                                          THEN [pc |-> "commit", job |-> j] ELSE Idle]
      BY <1>2 DEF NotifyTitle
    <3> HIDE DEF x
    <3>2. IsJob(j)  BY <2>a, JobKept
    <3> HIDE DEF j
    <3>3. QED BY <3>1, <3>2
  <2>b. IsJob(job)  BY <2>3
  <2>4. Moved(thread, thread', t) /\ thread'[t].pc \in {"commit", "idle"}
    <3>1. CASE thread[t].job.finite
      <4>1. Becomes(thread, thread', t, "commit", job)  BY <3>1, <2>3 DEF Becomes
      <4>2. QED BY <4>1, <2>b, <1>0, SetMoves
    <3>2. CASE ~thread[t].job.finite
      <4>1. Becomes(thread, thread', t, "idle", NoJob)  BY <3>2, <2>3 DEF Becomes, Idle
      <4>2. QED BY <4>1, <1>0, NoJobIs, SetMoves
    <3>3. QED BY <3>1, <3>2
  <2>5. Terminates(thread[t].pc)  BY <1>2 DEF NotifyTitle, At, Terminates
  <2>6. QED BY <2>1, <2>2, <2>4, <2>5, <1>a DEF Ending, Terminates
<1>3. CASE NotifyApplication(t)
  <2>1. Unmoved /\ launch' = launch /\ life' = life
    BY <1>3 DEF NotifyApplication, Unmoved, environment
  <2>2. AllKept(procs, procs')
    BY <1>0, <1>3, <1>a, TerminatedKeeps DEF NotifyApplication
  <2>3. Goto(t, "commit") /\ Terminates(thread[t].pc)
    BY <1>3 DEF NotifyApplication, At, Terminates
  <2>4. Moved(thread, thread', t) /\ Terminates(thread'[t].pc)  BY <2>3, GoesOn DEF Terminates
  <2>5. QED BY <2>1, <2>2, <2>3, <2>4, <1>a DEF Ending
<1>4. CASE NotifyToChainload(t)
  <2>1. Unmoved /\ launch' = launch /\ life' = life
    BY <1>4 DEF NotifyToChainload, Unmoved, environment
  <2>2. AllKept(procs, procs')
    <3> DEFINE n == runningApplicationData
               qs == WithoutFlags(procs, n, {"dependencies loaded", "notify"})
    <3>1. AllKept(procs, qs)  BY <1>0, WithoutFlagsKeeps
    <3>2. AllKept(qs, Terminated(qs, n))  BY <3>1, TerminatedKeeps DEF AllKept
    <3>3. AllKept(procs, Terminated(qs, n))  BY <3>1, <3>2, KeptOn
    <3>4. QED BY <3>3, <1>4, <1>a DEF NotifyToChainload
  <2>3. Moved(thread, thread', t) /\ thread'[t].pc = "commit"
    <3> DEFINE n == runningApplicationData
               title == IF n = Null THEN "none" ELSE procs[n].title
               job == [thread[t].job EXCEPT !.title = title]
    <3>1. Becomes(thread, thread', t, "commit", job)  BY <1>4 DEF NotifyToChainload, Becomes
    <3>2. title \in Titles \cup {"none"}
      BY <1>0 DEF KernelInv, PointersOK, IsPointer, AreProcesses, IsProcess
    <3> HIDE DEF title
    <3>3. IsJob(job)  BY <3>2, <1>0, JobKept DEF IsThreads
    <3> HIDE DEF job
    <3>4. QED BY <3>1, <3>3, <1>0, SetMoves
  <2>4. Terminates(thread[t].pc)  BY <1>4 DEF NotifyToChainload, At, Terminates
  <2>5. QED BY <2>1, <2>2, <2>3, <2>4, <1>a DEF Ending, Terminates
<1>5. CASE NotifyAll(t)
  <2>1. Unmoved /\ launch' = launch /\ life' = life
    BY <1>5 DEF NotifyAll, Unmoved, environment
  <2>2. AllKept(procs, procs')
    <3> DEFINE app == runningApplicationData
               qs == WithoutFlags(procs, app, {"dependencies loaded"})
               ps == IF app = Null THEN procs ELSE Notified(qs, {app})
    <3>1. AllKept(procs, ps)
      <4>1. AllKept(procs, qs)  BY <1>0, WithoutFlagsKeeps
      <4>2. AllKept(qs, Notified(qs, {app}))  BY <4>1, NotifiedKeeps DEF AllKept
      <4>3. QED BY <4>1, <4>2, <1>a, KeptOn
    <3>2. PICK spared, asked : procs' = Notified(Incref(ps, spared, 1), asked)
      BY <1>5 DEF NotifyAll
    <3> HIDE DEF ps
    <3>3. AllKept(ps, Incref(ps, spared, 1))  BY <3>1, IncrefKeeps DEF AllKept
    <3>4. AllKept(Incref(ps, spared, 1), procs')  BY <3>2, <3>3, NotifiedKeeps DEF AllKept
    <3>5. QED BY <3>1, <3>3, <3>4, KeptOn
  <2>3. Goto(t, "commit") /\ Terminates(thread[t].pc)  BY <1>5 DEF NotifyAll, At, Terminates
  <2>4. Moved(thread, thread', t) /\ Terminates(thread'[t].pc)  BY <2>3, GoesOn DEF Terminates
  <2>5. QED BY <2>1, <2>2, <2>3, <2>4, <1>a DEF Ending
<1>6. CASE NotifyBuiltIn(t)
  <2>1. Unmoved /\ launch' = launch /\ life' = life /\ Terminates(thread[t].pc)
    BY <1>6 DEF NotifyBuiltIn, Unmoved, environment, At, Terminates
  <2>2. CASE procs' = procs /\ thread' = thread
    BY <2>1, <2>2, <1>0, <1>a, StillMoves DEF Ending
  <2>3. CASE procs' = Notified(procs, With(Kips)) /\ Goto(t, "commit")
    <3>1. AllKept(procs, procs')  BY <2>3, <1>0, NotifiedKeeps
    <3>2. Moved(thread, thread', t) /\ Terminates(thread'[t].pc)  BY <2>3, GoesOn DEF Terminates
    <3>3. QED BY <2>1, <3>1, <3>2, <1>a DEF Ending
  <2>4. QED BY <1>6, <2>2, <2>3 DEF NotifyBuiltIn
<1>7. CASE Commit(t)
  <2>1. Unmoved /\ launch' = launch /\ procs' = procs /\ Terminates(thread[t].pc)
    BY <1>7 DEF Commit, Unmoved, shared, At, Terminates
  <2>2. Fades(life, life')  BY <1>0, <1>7, KilledFades DEF Commit
  <2>3. PICK pc : Goto(t, pc) /\ Terminates(pc)  BY <1>7 DEF Commit, Terminates
  <2>4. Moved(thread, thread', t) /\ Terminates(thread'[t].pc)  BY <2>3, GoesOn
  <2>5. QED BY <2>1, <2>2, <2>4, <1>a DEF Ending
<1>8. CASE WaitEnds(t)
  <2>1. Unmoved /\ launch' = launch /\ procs' = procs /\ life' = life
    BY <1>8 DEF WaitEnds, Unmoved, shared, environment
  <2>2. Goto(t, "end") /\ Terminates(thread[t].pc)  BY <1>8 DEF WaitEnds, Terminates
  <2>3. Moved(thread, thread', t) /\ Terminates(thread'[t].pc)  BY <2>2, GoesOn DEF Terminates
  <2>4. QED BY <2>1, <2>2, <2>3, <1>a DEF Ending
<1>9. CASE Timeout(t)
  <2>1. Unmoved /\ launch' = launch /\ procs' = procs /\ life' = life
    BY <1>9 DEF Timeout, Unmoved, shared, environment
  <2>2. Goto(t, "kill") /\ Terminates(thread[t].pc)  BY <1>9 DEF Timeout, At, Terminates
  <2>3. Moved(thread, thread', t) /\ Terminates(thread'[t].pc)  BY <2>2, GoesOn DEF Terminates
  <2>4. QED BY <2>1, <2>2, <2>3, <1>a DEF Ending
<1>10. CASE Kill(t)
  <2>1. Unmoved /\ launch' = launch /\ procs' = procs
    BY <1>10 DEF Kill, Unmoved, shared
  <2>2. Goto(t, "wait on") /\ Terminates(thread[t].pc)  BY <1>10 DEF Kill, At, Terminates
  <2>3. Moved(thread, thread', t) /\ Terminates(thread'[t].pc)  BY <2>2, GoesOn DEF Terminates
  <2>4. Fades(life, life')  BY <1>0, <1>10, KilledFades DEF Kill
  <2>5. QED BY <2>1, <2>2, <2>3, <2>4, <1>a DEF Ending
<1>11. CASE End(t)
  <2>1. Unmoved /\ launch' = launch /\ procs' = procs /\ life' = life /\ Terminates(thread[t].pc)
    BY <1>11 DEF End, Unmoved, shared, At, Terminates
  <2> DEFINE pc == NextPc(thread[t].job)
             job == [thread[t].job EXCEPT !.round = 2]
  <2>2. /\ thread' = [thread EXCEPT ![t] = IF pc = "idle" THEN Idle ELSE [pc |-> pc, job |-> job]]
        /\ pc \in {"begin", "firmlaunch", "reap", "idle"}
    <3>1. pc \in {"begin", "firmlaunch", "reap", "idle"}  BY DEF NextPc
    <3>2. QED BY <3>1, <1>11 DEF End
  <2>a. IsJob(job)
    <3>1. IsJob(thread[t].job)  BY <1>0 DEF IsThreads
    <3>2. QED BY <3>1, JobKept
  <2> HIDE DEF pc, job
  <2>3. Moved(thread, thread', t) /\ thread'[t].pc = pc
    <3>1. CASE pc = "idle"
      <4>1. Becomes(thread, thread', t, pc, NoJob)  BY <3>1, <2>2 DEF Becomes, Idle
      <4>2. QED BY <4>1, <1>0, NoJobIs, SetMoves
    <3>2. CASE pc # "idle"
      <4>1. Becomes(thread, thread', t, pc, job)  BY <3>2, <2>2 DEF Becomes
      <4>2. QED BY <4>1, <2>a, <1>0, SetMoves
    <3>3. QED BY <3>1, <3>2
  <2>4. QED BY <2>1, <2>2, <2>3, <1>a DEF Ending, Terminates
<1>12. QED BY <1>1, <1>2, <1>3, <1>4, <1>5, <1>6, <1>7, <1>8, <1>9, <1>10, <1>11 DEF Terminating

-----------------------------------------------------------------------------
(* What the monitor does.  It keeps its copy of an ended process until it   *)
(* has cleaned up after it.                                                 *)
Cleared(pc) == pc \in {"dependencies", "clean up"}
Watching ==
    /\ UNCHANGED <<list, freeList, runningApplicationData, debugData, life, thread, launch>>
    /\ AllKept(procs, procs') /\ MonitorOK'
    /\ Cleared(monitor.pc) => Cleared(monitor'.pc) /\ monitor'.process = monitor.process
Retiring(n) ==
    /\ UNCHANGED <<runningApplicationData, debugData, life, thread, launch>>
    /\ n \in Listed /\ IsDead(procs[n].pid)
    /\ procs' = [procs EXCEPT ![n] = Ended(procs[n])]
    /\ MonitorOK' /\ Cleared(monitor'.pc) /\ monitor'.process.pid = procs[n].pid
    /\ ~Cleared(monitor.pc)
    /\ UNCHANGED <<list, freeList>> \/ Frees(n)
Clearing ==
    /\ UNCHANGED <<procs, list, freeList, life, thread, launch>>
    /\ monitor.pc = "clean up" /\ IsMonitor(monitor') /\ monitor'.pc = "rebuild"
    /\ runningApplicationData' = IF IsMonitored(runningApplicationData) THEN Null
                                 ELSE runningApplicationData
    /\ debugData' = IF IsMonitored(debugData) THEN Null ELSE debugData

LEMMA EndedIs ==
    ASSUME NEW p, IsProcess(p)
    PROVE  /\ IsProcess(Ended(p)) /\ Ended(p).pid = p.pid
           /\ IsApplication(Ended(p)) <=> IsApplication(p)
<1> DEFINE fs == IF "notify" \in p.flags THEN p.flags \cup {"notify ended"} ELSE p.flags
           q == [pid |-> p.pid, title |-> p.title, flags |-> fs, status |-> "terminated",
                 refcount |-> p.refcount]
<1>1. Ended(p) = q
  <2>1. Ended(p) = [p EXCEPT !.status = "terminated", !.flags = fs]  BY DEF Ended
  <2> HIDE DEF fs
  <2>2. QED BY <2>1 DEF IsProcess
<1>2. "application" \in fs <=> "application" \in p.flags  OBVIOUS
<1> HIDE DEF fs
<1>3. q.pid = p.pid /\ q.title = p.title /\ q.flags = fs /\ q.status = "terminated"
      /\ q.refcount = p.refcount
      /\ q = [pid |-> q.pid, title |-> q.title, flags |-> q.flags, status |-> q.status,
              refcount |-> q.refcount]
  OBVIOUS
<1> HIDE DEF q
<1>4. IsProcess(q)  BY <1>3 DEF IsProcess, Statuses
<1>5. QED BY <1>1, <1>2, <1>3, <1>4 DEF IsApplication

LEMMA MonitorStep ==
    ASSUME KernelInv, Monitor
    PROVE  Watching \/ Clearing \/ \E n \in Listed : Retiring(n)
<1>0. IsMonitor(monitor) /\ MonitorOK /\ AllKept(procs, procs)
  BY KeptItself DEF KernelInv, MonitorOK
<1>1. CASE MonitorRebuild
  <2>1. UNCHANGED <<list, freeList, runningApplicationData, debugData, life, thread, launch, procs>>
    BY <1>1 DEF MonitorRebuild, shared, environment
  <2>2. PICK h, b : monitor' = [pc |-> "signal", handles |-> h, terminating |-> b,
                                process |-> monitor.process]
    BY <1>0, <1>1 DEF MonitorRebuild, IsMonitor
  <2>3. IsMonitor(monitor') /\ monitor'.pc = "signal"  BY <2>2 DEF IsMonitor
  <2>4. ~Cleared(monitor.pc)  BY <1>1 DEF MonitorRebuild, Cleared
  <2>5. MonitorOK'  BY <2>3 DEF MonitorOK, Cleans
  <2>6. QED BY <2>1, <2>4, <2>5, <1>0 DEF Watching
<1>2. CASE MonitorSignal
  <2>1. UNCHANGED <<list, freeList, runningApplicationData, debugData, life, thread, launch, procs>>
    BY <1>2 DEF MonitorSignal, shared, environment
  <2>2. monitor' = [pc |-> "wait", handles |-> monitor.handles, terminating |-> FALSE,
                    process |-> monitor.process]
    BY <1>0, <1>2 DEF MonitorSignal, IsMonitor
  <2>3. IsMonitor(monitor') /\ monitor'.pc = "wait"  BY <2>2 DEF IsMonitor
  <2>4. ~Cleared(monitor.pc)  BY <1>2 DEF MonitorSignal, Cleared
  <2>5. MonitorOK'  BY <2>3 DEF MonitorOK, Cleans
  <2>6. QED BY <2>1, <2>4, <2>5, <1>0 DEF Watching
<1>3. CASE MonitorNewProcess
  <2>1. UNCHANGED <<list, freeList, runningApplicationData, debugData, life, thread, launch, procs>>
    BY <1>3 DEF MonitorNewProcess, shared, environment
  <2>2. monitor' = [pc |-> "rebuild", handles |-> {}, terminating |-> monitor.terminating,
                    process |-> monitor.process]
    BY <1>0, <1>3 DEF MonitorNewProcess, IsMonitor
  <2>3. IsMonitor(monitor') /\ monitor'.pc = "rebuild"  BY <2>2 DEF IsMonitor
  <2>4. ~Cleared(monitor.pc)  BY <1>3 DEF MonitorNewProcess, Cleared
  <2>5. MonitorOK'  BY <2>3 DEF MonitorOK, Cleans
  <2>6. QED BY <2>1, <2>4, <2>5, <1>0 DEF Watching
<1>4. ASSUME NEW p \in Pids, MonitorProcessEnded(p) PROVE Watching
  <2>1. UNCHANGED <<list, freeList, runningApplicationData, debugData, life, thread, launch, procs>>
    BY <1>4 DEF MonitorProcessEnded, shared, environment
  <2>2. monitor' = [pc |-> "retire", handles |-> {}, terminating |-> monitor.terminating,
                    process |-> [Blank EXCEPT !.pid = p]]
    BY <1>0, <1>4 DEF MonitorProcessEnded, IsMonitor
  <2>3. [Blank EXCEPT !.pid = p].pid = p  BY DEF Blank
  <2>4. IsMonitor(monitor') /\ monitor'.process.pid = p  BY <2>2, <2>3 DEF IsMonitor
  <2>5. ~Cleared(monitor.pc)  BY <1>4 DEF MonitorProcessEnded, Cleared
  <2>6. IsDead(p) /\ IsDead(p)'  BY <1>4, <2>1 DEF MonitorProcessEnded, IsDead
  <2>7. MonitorOK'  BY <2>4, <2>6 DEF MonitorOK, IsDead
  <2>8. QED BY <2>1, <2>5, <2>7, <1>0 DEF Watching
<1>5. CASE MonitorRetire
  <2>1. /\ UNCHANGED <<runningApplicationData, debugData, life, thread, launch>>
        /\ monitor.pc = "retire" /\ ~Cleared(monitor.pc)
    BY <1>5 DEF MonitorRetire, environment, Cleared
  <2>2. IsDead(monitor.process.pid)  BY <2>1, <1>0 DEF MonitorOK, Cleans
  <2>3. CASE /\ monitor' = [monitor EXCEPT !.pc = "rebuild", !.process = Blank]
             /\ UNCHANGED <<procs, list, freeList>>
    <3>1. monitor' = [pc |-> "rebuild", handles |-> monitor.handles,
                      terminating |-> monitor.terminating, process |-> Blank]
      BY <1>0, <2>3 DEF IsMonitor
    <3>2. IsMonitor(monitor') /\ monitor'.pc = "rebuild"  BY <3>1 DEF IsMonitor
    <3>3. MonitorOK'  BY <3>2 DEF MonitorOK, Cleans
    <3>4. Watching  BY <2>1, <2>3, <3>3, <1>0 DEF Watching
    <3>5. QED BY <3>4
  <2>4. ASSUME NEW n \in Listed, procs[n].pid = monitor.process.pid,
               procs' = [procs EXCEPT ![n] = Ended(procs[n])],
               monitor' = [monitor EXCEPT !.pc = "dependencies", !.process = Ended(procs[n])],
               UNCHANGED <<list, freeList>> \/ Frees(n)
        PROVE  Retiring(n)
    <3>1. monitor' = [pc |-> "dependencies", handles |-> monitor.handles,
                      terminating |-> monitor.terminating, process |-> Ended(procs[n])]
      BY <1>0, <2>4 DEF IsMonitor
    <3>2. /\ IsMonitor(monitor') /\ monitor'.pc = "dependencies"
          /\ monitor'.process = Ended(procs[n])
      BY <3>1 DEF IsMonitor
    <3>3. IsProcess(procs[n])  BY ListedNodes DEF KernelInv, AreProcesses
    <3>4. Ended(procs[n]).pid = procs[n].pid  BY <3>3, EndedIs
    <3>5. IsDead(procs[n].pid)  BY <2>2, <2>4
    <3>6. IsDead(procs[n].pid) => life'[procs[n].pid] = "dead" /\ procs[n].pid \in Pids
      BY <2>1 DEF IsDead
    <3>7. MonitorOK'  BY <3>2, <3>4, <3>5, <3>6 DEF MonitorOK, IsDead
    <3>8. Cleared(monitor'.pc) /\ monitor'.process.pid = procs[n].pid
      BY <3>2, <3>4 DEF Cleared
    <3>9. QED BY <2>1, <2>4, <3>5, <3>7, <3>8 DEF Retiring
  <2>5. CASE \E n \in Listed :
               /\ procs[n].pid = monitor.process.pid
               /\ procs' = [procs EXCEPT ![n] = Ended(procs[n])]
               /\ monitor' = [monitor EXCEPT !.pc = "dependencies", !.process = Ended(procs[n])]
               /\ UNCHANGED <<list, freeList>> \/ Frees(n)
    BY <2>4, <2>5
  <2>6. QED BY <1>5, <2>3, <2>5 DEF MonitorRetire, Frees
<1>6. CASE MonitorDependencies
  <2>1. UNCHANGED <<list, freeList, runningApplicationData, debugData, life, thread, launch>>
    BY <1>6 DEF MonitorDependencies, environment
  <2>2. monitor' = [pc |-> "clean up", handles |-> monitor.handles,
                    terminating |-> monitor.terminating, process |-> monitor.process]
    BY <1>0, <1>6 DEF MonitorDependencies, IsMonitor
  <2>3. IsMonitor(monitor') /\ monitor'.pc = "clean up" /\ monitor'.process = monitor.process
    BY <2>2 DEF IsMonitor
  <2>4. IsDead(monitor.process.pid)  BY <1>0, <1>6 DEF MonitorOK, Cleans, MonitorDependencies
  <2>5. MonitorOK'  BY <2>1, <2>3, <2>4 DEF MonitorOK, IsDead
  <2>6. AllKept(procs, procs')
    <3>1. AllKept(procs, Released(procs, Deps[monitor.process.title]))
      BY ReleasedKeeps DEF KernelInv
    <3>2. QED BY <3>1, <1>0, <1>6 DEF MonitorDependencies
  <2>7. Watching  BY <2>1, <2>3, <2>5, <2>6 DEF Watching, Cleared
  <2>8. QED BY <2>7
<1>7. CASE MonitorCleanUp
  <2>1. /\ UNCHANGED <<procs, list, freeList, life, thread, launch>>
        /\ monitor.pc = "clean up"
        /\ runningApplicationData' = IF IsMonitored(runningApplicationData) THEN Null
                                     ELSE runningApplicationData
        /\ debugData' = IF IsMonitored(debugData) THEN Null ELSE debugData
    BY <1>7 DEF MonitorCleanUp
  <2>2. monitor' = [pc |-> "rebuild", handles |-> monitor.handles,
                    terminating |-> monitor.terminating, process |-> Blank]
    BY <1>0, <1>7 DEF MonitorCleanUp, IsMonitor
  <2>3. IsMonitor(monitor') /\ monitor'.pc = "rebuild"  BY <2>2 DEF IsMonitor
  <2>4. Clearing  BY <2>1, <2>3 DEF Clearing
  <2>5. QED BY <2>4
<1>8. QED BY <1>1, <1>2, <1>3, <1>4, <1>5, <1>6, <1>7 DEF Monitor

(* What the kernel keeps when the monitor steps.                            *)
LEMMA WatchingKeeps ==
    ASSUME KernelInv, Watching PROVE KernelInv' /\ Listed' = Listed
<1>1. Ages(life, life')  BY StayFades DEF KernelInv, Watching, Fades
<1>2. PointersOK'  BY DEF KernelInv, Watching, PointersOK
<1>3. QED BY <1>1, <1>2, CalmKeeps, KeptRemain DEF Watching, Calm

LEMMA ClearingKeeps ==
    ASSUME KernelInv, Clearing PROVE KernelInv' /\ Listed' = Listed
<1>1. Ages(life, life')  BY StayFades DEF KernelInv, Clearing, Fades
<1>2. PointersOK'  BY DEF KernelInv, Clearing, PointersOK, IsPointer
<1>3. MonitorOK'  BY DEF Clearing, MonitorOK, Cleans
<1>4. AllKept(procs, procs')  BY KeptItself DEF KernelInv, Clearing
<1>5. QED BY <1>1, <1>2, <1>3, <1>4, CalmKeeps, KeptRemain DEF Clearing, Calm

SameProcess(p, q) == q.pid = p.pid /\ (IsApplication(q) <=> IsApplication(p))
LEMMA RetiringKeeps ==
    ASSUME KernelInv, NEW n \in Listed, Retiring(n)
    PROVE  /\ KernelInv' /\ Listed \ {n} \subseteq Listed' /\ Listed' \subseteq Listed
           /\ \A m \in Nodes : SameProcess(procs[m], procs'[m])
<1>1. n \in Nodes /\ Listed \subseteq Nodes  BY ListedNodes DEF KernelInv
<1>2. /\ procs' = [m \in Nodes |-> procs'[m]] /\ procs'[n] = Ended(procs[n])
      /\ \A m \in Nodes \ {n} : procs'[m] = procs[m]
  BY <1>1 DEF KernelInv, AreProcesses, Retiring
<1>3. /\ IsProcess(Ended(procs[n])) /\ Ended(procs[n]).pid = procs[n].pid
      /\ IsApplication(Ended(procs[n])) <=> IsApplication(procs[n])
  BY <1>1, EndedIs DEF KernelInv, AreProcesses
<1>4. AreProcesses(procs')
  <2>1. \A m \in Nodes : IsProcess(procs'[m])  BY <1>2, <1>3 DEF KernelInv, AreProcesses
  <2>2. QED BY <2>1, <1>2 DEF AreProcesses
<1>5. \A m \in Nodes : SameProcess(procs[m], procs'[m])
  BY <1>2, <1>3 DEF SameProcess
<1>6. PointersOK' /\ life' = life /\ MonitorOK'
  BY DEF KernelInv, PointersOK, Retiring
<1>7. CASE Frees(n)
  <2>0. OnlyOne(n)  BY <1>2 DEF OnlyOne
  <2>1. KernelInv' /\ Listed' = Listed \ {n}  BY <2>0, <1>4, <1>6, <1>7, FreesKeeps
  <2>2. QED BY <2>1, <1>5
<1>8. CASE UNCHANGED <<list, freeList>>
  <2>1. Listed' = Listed  BY <1>8 DEF Listed
  <2>2. ListsOK' /\ LifeOK'  BY <1>6, <1>8 DEF KernelInv, ListsOK, LifeOK
  <2>3. life[procs[n].pid] = "dead"  BY DEF Retiring, IsDead
  <2>4. PidsOK'
    <3>0. \A m \in Listed : procs'[m].pid = procs[m].pid /\ (m # n => procs'[m] = procs[m])
      BY <1>1, <1>2, <1>5 DEF SameProcess
    <3>a. PidsOK /\ life' = life  BY <1>6 DEF KernelInv
    <3>1. \A m \in Listed : procs'[m].pid \in Pids /\ life'[procs'[m].pid] # "none"
      BY <3>0, <3>a DEF PidsOK
    <3>2. \A m, h \in Listed : procs'[m].pid = procs'[h].pid => m = h
      BY <3>0, <3>a DEF PidsOK
    <3>3. \A m \in Listed : procs'[m].status = "terminated" => life'[procs'[m].pid] = "dead"
      BY <3>0, <3>a, <2>3 DEF PidsOK
    <3>4. QED BY <3>1, <3>2, <3>3, <2>1 DEF PidsOK
  <2>5. QED BY <2>1, <2>2, <2>4, <1>4, <1>5, <1>6 DEF KernelInv
<1>9. QED BY <1>7, <1>8 DEF Retiring

(* A thread that ends processes, and a process that ends, are calm.         *)
LEMMA UnmovedKeeps ==
    ASSUME KernelInv, Unmoved, AllKept(procs, procs'), Ages(life, life')
    PROVE  KernelInv' /\ Listed' = Listed
<1>1. PointersOK'  BY DEF KernelInv, Unmoved, PointersOK
<1>2. MonitorOK'  BY MonitorWaits DEF KernelInv, Unmoved
<1>3. QED BY <1>1, <1>2, CalmKeeps, KeptRemain DEF Unmoved, Calm

-----------------------------------------------------------------------------
(***************************************************************************)
(* What a thread that launches a program relies on when the clients wait   *)
(* for pm: the process it holds has not begun to run, nobody else has      *)
(* freed it, and there is no other application.  `fresh' are the nodes of  *)
(* such processes, `apps' those of applications, `app' is the running one. *)
(***************************************************************************)
Fresh == {n \in Listed : life[procs[n].pid] = "created"}
Running == {n \in Listed : life[procs[n].pid] = "running"}
Applications == {n \in Nodes : IsApplication(procs[n])}

Holds(pc) == pc \in {"load", "set up", "run", "merge dependency", "merge", "dependencies"}
Ready(pc) == pc \in {"set up", "run"}
Merges(pc) == pc \in {"merge", "dependencies"}
HeldBy(l) == IF l.dep # "none" THEN l.depNode ELSE l.node
WorkOK(pc, job, l, fresh, apps, app) ==
    /\ l.node # Null => Holds(pc) \/ pc = "found"
    /\ Holds(pc) /\ l.node # Null => l.node \in fresh
    /\ Ready(pc) => HeldBy(l) \in fresh
    /\ Ready(pc) /\ HeldBy(l) \in apps => pc = "run" /\ l.dep = "none" /\ job.title \in Apps
    /\ Ready(pc) /\ l.dep # "none" => l.depNode # l.node
    /\ Merges(pc) \/ l.dep # "none" => l.node # Null /\ job.title \in Apps
    /\ Holds(pc) /\ job.title \in Apps => app = Null
WorkAt(t) == WorkOK(thread[t].pc, thread[t].job, launch[t], Fresh, Applications,
                    runningApplicationData)

OneWorker == thread["task"].pc = "idle" \/ thread["service"].pc = "idle"
AppOK == \A n \in Running : n \in Applications => n = runningApplicationData
WorkInv == OneWorker /\ (\A t \in Workers : WorkAt(t)) /\ AppOK /\ PointersListed

LEMMA NoWork ==
    ASSUME NEW pc, NEW job, NEW l, NEW fresh, NEW apps, NEW app,
           l.node = Null, l.dep = "none", ~Holds(pc)
    PROVE  WorkOK(pc, job, l, fresh, apps, app)
<1>1. ~Ready(pc) /\ ~Merges(pc)  BY DEF Holds, Ready, Merges
<1>2. QED BY <1>1 DEF WorkOK

(* A thread with no launch holds nothing, then and later.                   *)
LEMMA NoWorkIs ==
    ASSUME NEW pc, NEW job, NEW l, NEW fresh, NEW apps, NEW app,
           WorkOK(pc, job, l, fresh, apps, app), LaunchOK(pc, l), ~Holds(pc), pc # "found"
    PROVE  l.node = Null /\ l.dep = "none"
<1>1. ~LoadsDep(pc)  BY DEF Holds, LoadsDep
<1>2. QED BY <1>1 DEF WorkOK, LaunchOK

LEMMA WorkStays ==
    ASSUME NEW pc, NEW job, NEW l, NEW fresh, NEW apps, NEW app,
           WorkOK(pc, job, l, fresh, apps, app),
           NEW fresh2, fresh \subseteq fresh2, NEW app2, app2 = app \/ app2 = Null
    PROVE  WorkOK(pc, job, l, fresh2, apps, app2)
BY DEF WorkOK

(* Steps that change neither the processes nor the lists.                   *)
AllSame == \A n \in Nodes : SameProcess(procs[n], procs'[n])

LEMMA KeptSame == ASSUME AllKept(procs, procs') PROVE AllSame
BY DEF AllKept, AllSame, Kept, SameProcess

LEMMA ApplicationsSame == ASSUME AllSame PROVE Applications' = Applications
BY DEF AllSame, SameProcess, Applications

LEMMA RunningFades ==
    ASSUME AllSame, KernelInv, Listed' \subseteq Listed, Fades(life, life')
    PROVE  Running' \subseteq Running
<1>1. \A n \in Listed : n \in Nodes /\ procs[n].pid \in Pids
  BY ListedNodes DEF KernelInv, PidsOK
<1>2. \A n \in Listed' : n \in Listed /\ procs'[n].pid = procs[n].pid
  BY <1>1 DEF AllSame, SameProcess
<1>3. QED BY <1>1, <1>2 DEF Running, Fades

LEMMA FreshStay ==
    ASSUME AllSame, KernelInv, life' = life, Listed' = Listed
    PROVE  Fresh' = Fresh
<1>1. \A n \in Listed : n \in Nodes /\ procs[n].pid \in Pids
  BY ListedNodes DEF KernelInv, PidsOK
<1>2. \A n \in Listed : procs'[n].pid = procs[n].pid
  BY <1>1 DEF AllSame, SameProcess
<1>3. QED BY <1>2 DEF Fresh

(* Steps of one thread that leave lists, pointers and the monitor alone.    *)
Alone(t) == thread[t].pc = "idle" => t = "service" /\ (Patient => thread["task"].pc = "idle")
Stepping(t) ==
    /\ Unmoved /\ AllKept(procs, procs') /\ Fades(life, life')
    /\ Moved(thread, thread', t) /\ SetsLaunch(t, launch'[t])
    /\ LaunchOK(thread'[t].pc, launch'[t])
    /\ Alone(t) /\ (WorkAt(t) => WorkAt(t)')
Advancing(t) ==
    /\ Unmoved /\ AllKept(procs, procs') /\ life' = life
    /\ Moved(thread, thread', t) /\ SetsLaunch(t, launch'[t])
    /\ LaunchOK(thread'[t].pc, launch'[t]) /\ Alone(t)
    /\ WorkAt(t) => WorkOK(thread'[t].pc, thread'[t].job, launch'[t], Fresh, Applications,
                           runningApplicationData)

LEMMA LaunchSet ==
    ASSUME WorkersInv, NEW t \in Workers, NEW l, SetsLaunch(t, l)
    PROVE  launch'[t] = l /\ SetsLaunch(t, launch'[t])
BY DEF WorkersInv, SetsLaunch

LEMMA LaunchSame == ASSUME WorkersInv, NEW t \in Workers, launch' = launch
                    PROVE  SetsLaunch(t, launch'[t]) /\ launch'[t] = launch[t]
BY DEF WorkersInv, SetsLaunch

LEMMA StepKeeps ==
    ASSUME KernelInv, WorkersInv, NEW t \in Workers, Stepping(t)
    PROVE  KernelInv' /\ WorkersInv' /\ Listed' = Listed
<1>1. KernelInv' /\ Listed' = Listed  BY UnmovedKeeps DEF Stepping, Fades
<1>2. WorkersInv'  BY WorkerMoves DEF Stepping
<1>3. QED BY <1>1, <1>2

LEMMA AdvanceSteps ==
    ASSUME KernelInv, NEW t \in Workers, Advancing(t) PROVE Stepping(t)
<1>1. Fades(life, life')  BY StayFades DEF Advancing, KernelInv
<1>2. KernelInv' /\ Listed' = Listed  BY <1>1, UnmovedKeeps DEF Advancing, Fades
<1>3. AllSame  BY KeptSame DEF Advancing
<1>4. Fresh' = Fresh /\ Applications' = Applications
  BY <1>2, <1>3, FreshStay, ApplicationsSame DEF Advancing
<1>5. runningApplicationData' = runningApplicationData  BY DEF Advancing, Unmoved
<1>6. WorkAt(t) => WorkAt(t)'  BY <1>4, <1>5 DEF Advancing, WorkAt
<1>7. QED BY <1>1, <1>6 DEF Advancing, Stepping

(* A step of one thread keeps what the launches rely on: the other thread   *)
(* is idle.                                                                 *)
LEMMA StepWorks ==
    ASSUME Patient, KernelInv, WorkersInv, WorkInv, NEW t \in Workers, Stepping(t)
    PROVE  WorkInv'
<1>1. KernelInv' /\ WorkersInv' /\ Listed' = Listed  BY StepKeeps
<1>2. ASSUME NEW u \in Workers \ {t} PROVE thread[u].pc = "idle" /\ thread'[u] = thread[u]
                                          /\ launch'[u] = launch[u]
  <2>1. thread[u].pc = "idle"
    <3>1. CASE thread[t].pc = "idle"  BY <3>1 DEF Stepping, Alone, Workers
    <3>2. CASE thread[t].pc # "idle"  BY <3>2 DEF WorkInv, OneWorker, Workers
    <3>3. QED BY <3>1, <3>2
  <2>2. thread'[u] = thread[u]  BY DEF Stepping, Moved
  <2>3. launch'[u] = launch[u]  BY DEF Stepping, SetsLaunch, WorkersInv
  <2>4. QED BY <2>1, <2>2, <2>3
<1>3. OneWorker'
  <2>1. CASE t = "task"  BY <2>1, <1>2 DEF OneWorker, Workers
  <2>2. CASE t = "service"  BY <2>2, <1>2 DEF OneWorker, Workers
  <2>3. QED BY <2>1, <2>2 DEF Workers
<1>4. ASSUME NEW u \in Workers PROVE WorkAt(u)'
  <2>1. CASE u = t  BY <2>1 DEF WorkInv, Stepping
  <2>2. CASE u # t
    <3>1. thread[u].pc = "idle" /\ thread'[u] = thread[u] /\ launch'[u] = launch[u]
      BY <2>2, <1>2
    <3>2. ~Holds("idle") /\ "idle" # "found"  BY DEF Holds
    <3>3. launch[u].node = Null /\ launch[u].dep = "none"
      BY <3>1, <3>2, NoWorkIs DEF WorkInv, WorkAt, WorkersInv
    <3>4. QED BY <3>1, <3>2, <3>3, NoWork DEF WorkAt
  <2>3. QED BY <2>1, <2>2
<1>5. AllSame /\ runningApplicationData' = runningApplicationData
      /\ debugData' = debugData /\ monitor' = monitor
  BY KeptSame DEF Stepping, Unmoved
<1>6. AppOK'
  <2>1. Running' \subseteq Running /\ Applications' = Applications
    BY <1>1, <1>5, RunningFades, ApplicationsSame DEF Stepping
  <2>2. QED BY <2>1, <1>5 DEF WorkInv, AppOK
<1>7. PointersListed'
  <2>1. \A n \in Nodes : procs'[n].pid = procs[n].pid  BY <1>5 DEF AllSame, SameProcess
  <2>2. \A n \in {runningApplicationData, debugData} \ {Null} : n \in Nodes
    BY DEF KernelInv, PointersOK, IsPointer
  <2>3. QED BY <1>1, <1>5, <2>1, <2>2 DEF WorkInv, PointersListed, Cleaning
<1>8. QED BY <1>3, <1>4, <1>6, <1>7 DEF WorkInv

(* A thread that has no launch and does not begin to load one.              *)
Free(pc) == ~Holds(pc) /\ pc # "found"
LEMMA FreeSteps ==
    ASSUME KernelInv, WorkersInv, NEW t \in Workers,
           Unmoved, AllKept(procs, procs'), Fades(life, life'), launch' = launch,
           Moved(thread, thread', t), Free(thread[t].pc), ~Holds(thread'[t].pc), Alone(t)
    PROVE  Stepping(t)
<1>1. SetsLaunch(t, launch'[t]) /\ launch'[t] = launch[t]  BY LaunchSame
<1>2. thread'[t].pc # "merge dependency" /\ ~LoadsDep(thread[t].pc)
  BY DEF Free, Holds, LoadsDep
<1>3. LaunchOK(thread[t].pc, launch[t])  BY DEF WorkersInv
<1>4. LaunchOK(thread'[t].pc, launch'[t])  BY <1>1, <1>2, <1>3, LaunchStays
<1>5. WorkAt(t) => WorkAt(t)'
  <2>1. WorkAt(t) => launch[t].node = Null /\ launch[t].dep = "none"
    BY <1>3, NoWorkIs DEF WorkAt, Free
  <2>2. launch[t].node = Null /\ launch[t].dep = "none" => WorkAt(t)'
    BY <1>1, NoWork DEF WorkAt
  <2>3. QED BY <2>1, <2>2
<1>6. QED BY <1>1, <1>4, <1>5 DEF Stepping

LEMMA EndingSteps ==
    ASSUME KernelInv, WorkersInv, NEW t \in Workers, Ending(t) PROVE Stepping(t)
<1>1. Free(thread[t].pc) /\ ~Holds(thread'[t].pc) /\ thread[t].pc # "idle"
  BY DEF Ending, Terminates, Free, Holds
<1>2. QED BY <1>1, FreeSteps DEF Ending, Alone

(* A launch ends, whatever comes of it.                                     *)
LEMMA FinishSteps ==
    ASSUME KernelInv, WorkersInv, NEW t \in Workers, thread[t].pc # "idle",
           Unmoved, AllKept(procs, procs'), Fades(life, life'), Finish(t)
    PROVE  Stepping(t)
<1>1. Becomes(thread, thread', t, "idle", NoJob)  BY DEF Finish, Return, Idle, Becomes
<1>2. Moved(thread, thread', t) /\ thread'[t].pc = "idle"  BY <1>1, NoJobIs, SetMoves DEF WorkersInv
<1>3. SetsLaunch(t, NoLaunch)  BY DEF Finish, SetsLaunch, WorkersInv
<1>4. launch'[t] = NoLaunch /\ SetsLaunch(t, launch'[t])  BY <1>3, LaunchSet
<1>5. LaunchOK(thread'[t].pc, launch'[t])  BY <1>2, <1>4, NoLaunchIs
<1>6. ~Holds(thread'[t].pc)  BY <1>2 DEF Holds
<1>7. NoLaunch.node = Null /\ NoLaunch.dep = "none"  BY NoLaunchIs
<1>8. WorkAt(t)'  BY <1>4, <1>6, <1>7, NoWork DEF WorkAt
<1>9. QED BY <1>2, <1>4, <1>5, <1>8 DEF Stepping, Alone

(* The commands: the service thread begins something, or asks the task      *)
(* thread to.                                                               *)
Asks(pc) == pc \in {"idle", "submit", "begin", "check"}
Asking ==
    /\ Unmoved /\ launch' = launch /\ procs' = procs /\ Fades(life, life')
    /\ Moved(thread, thread', "service")
    /\ thread["service"].pc = "idle" /\ Alone("service") /\ Asks(thread'["service"].pc)

LEMMA AskingSteps == ASSUME KernelInv, WorkersInv, Asking PROVE Stepping("service")
<1>1. Free(thread["service"].pc) /\ ~Holds(thread'["service"].pc)
  BY DEF Asking, Asks, Free, Holds
<1>2. AllKept(procs, procs')  BY KeptItself DEF Asking, KernelInv
<1>3. "service" \in Workers  BY DEF Workers
<1>4. QED BY <1>1, <1>2, <1>3, FreeSteps DEF Asking

LEMMA SubmitAsks ==
    ASSUME WorkersInv, NEW job, IsJob(job), Submit(job)
    PROVE  Moved(thread, thread', "service") /\ Asks(thread'["service"].pc)
<1>1. Becomes(thread, thread', "service", "submit", job)  BY DEF Submit, Becomes
<1>2. Moved(thread, thread', "service") /\ thread'["service"].pc = "submit"
  BY <1>1, SetMoves DEF WorkersInv, Workers
<1>3. QED BY <1>2 DEF Asks

LEMMA BeginsAsks ==
    ASSUME WorkersInv, NEW job, IsJob(job), Begins("service", job)
    PROVE  Moved(thread, thread', "service") /\ Asks(thread'["service"].pc)
<1>1. Becomes(thread, thread', "service", "check", job)  BY DEF Begins, Becomes
<1>2. Moved(thread, thread', "service") /\ thread'["service"].pc = "check"
  BY <1>1, SetMoves DEF WorkersInv, Workers
<1>3. QED BY <1>2 DEF Asks

LEMMA TerminationCommandAsks ==
    ASSUME KernelInv, WorkersInv, TerminationCommand PROVE Asking
<1>0. LifeOK /\ Fades(life, life)  BY StayFades DEF KernelInv
<1>1. Moved(thread, thread, "service")  BY StillMoves DEF WorkersInv
<1>a. ASSUME Command PROVE thread["service"].pc = "idle" /\ Alone("service")
  BY <1>a DEF Command, Alone
<1>2. ASSUME NEW title \in Titles, NEW finite \in BOOLEAN, TerminateTitle(title, finite)
      PROVE  Asking
  <2>1. Unmoved /\ launch' = launch /\ procs' = procs /\ life' = life /\ Command
    BY <1>2 DEF TerminateTitle, Unmoved, shared, environment, Offered
  <2> DEFINE job == [NoJob EXCEPT !.op = "title", !.title = title, !.finite = finite]
  <2>2. Submit(job) /\ IsJob(job)  BY <1>2 DEF TerminateTitle, IsJob, NoJob
  <2> HIDE DEF job
  <2>3. QED BY <2>1, <2>2, <1>0, <1>a, SubmitAsks DEF Asking
<1>3. ASSUME NEW title \in Titles, TerminateTitleInReboot(title) PROVE Asking
  <2>1. Unmoved /\ launch' = launch /\ procs' = procs /\ thread' = thread /\ Command
    BY <1>3 DEF TerminateTitleInReboot, Unmoved, shared, Offered
  <2>2. Fades(life, life')  BY <1>0, <1>3, KilledFades DEF TerminateTitleInReboot
  <2>3. QED BY <2>1, <2>2, <1>1, <1>a DEF Asking, Asks
<1>4. ASSUME NEW title \in Titles, PrepareForReboot(title) PROVE Asking
  <2>1. Unmoved /\ launch' = launch /\ procs' = procs /\ life' = life /\ Command
    BY <1>4 DEF PrepareForReboot, Unmoved, shared, environment, Offered
  <2> DEFINE job == [NoJob EXCEPT !.op = "reboot", !.title = title]
  <2>2. Submit(job) /\ IsJob(job)  BY <1>4 DEF PrepareForReboot, IsJob, NoJob
  <2> HIDE DEF job
  <2>3. QED BY <2>1, <2>2, <1>0, <1>a, SubmitAsks DEF Asking
<1>5. ASSUME NEW finite \in BOOLEAN, TerminateApplication(finite) PROVE Asking
  <2>1. Unmoved /\ launch' = launch /\ procs' = procs /\ life' = life /\ Command
    BY <1>5 DEF TerminateApplication, Unmoved, shared, environment, Offered
  <2> DEFINE job == [NoJob EXCEPT !.op = "application", !.finite = finite]
  <2>2. Becomes(thread, thread', "service", "begin", job) /\ IsJob(job)
    BY <1>5 DEF TerminateApplication, Becomes, IsJob, NoJob
  <2> HIDE DEF job
  <2>3. Moved(thread, thread', "service") /\ thread'["service"].pc = "begin"
    BY <2>2, SetMoves DEF WorkersInv, Workers
  <2>4. QED BY <2>1, <2>3, <1>0, <1>a DEF Asking, Asks
<1>6. CASE LaunchFirm
  <2>1. Unmoved /\ launch' = launch /\ procs' = procs /\ life' = life /\ Command
    BY <1>6 DEF LaunchFirm, Unmoved, shared, environment, Offered
  <2> DEFINE job == [NoJob EXCEPT !.op = "firm"]
  <2>2. Submit(job) /\ IsJob(job)  BY <1>6 DEF LaunchFirm, IsJob, NoJob
  <2> HIDE DEF job
  <2>3. QED BY <2>1, <2>2, <1>0, <1>a, SubmitAsks DEF Asking
<1>7. CASE ChainloadHomebrewDirty
  <2>1. Unmoved /\ launch' = launch /\ procs' = procs /\ life' = life /\ Command
    BY <1>7 DEF ChainloadHomebrewDirty, Unmoved, shared, environment, Offered
  <2>2. CASE thread' = thread  BY <2>1, <2>2, <1>0, <1>1, <1>a DEF Asking, Asks
  <2> DEFINE job == [NoJob EXCEPT !.op = "chainload"]
  <2>3. CASE Submit(job)
    <3>1. IsJob(job)  BY DEF IsJob, NoJob
    <3> HIDE DEF job
    <3>2. QED BY <2>1, <2>3, <3>1, <1>0, <1>a, SubmitAsks DEF Asking
  <2>4. QED BY <1>7, <2>2, <2>3 DEF ChainloadHomebrewDirty
<1>8. QED BY <1>2, <1>3, <1>4, <1>5, <1>6, <1>7 DEF TerminationCommand

(* What changes in the record of a launch.                                  *)
WithNode(l, n) == [l EXCEPT !.node = n]
LEMMA NodeSet ==
    ASSUME NEW l, IsLaunch(l), NEW n, IsPointer(n)
    PROVE  /\ IsLaunch(WithNode(l, n)) /\ WithNode(l, n).node = n
           /\ WithNode(l, n).dep = l.dep /\ WithNode(l, n).depNode = l.depNode
<1> DEFINE k == WithNode(l, n)
<1>1. k = [node |-> n, met |-> l.met, rem |-> l.rem, tried |-> l.tried,
           failed |-> l.failed, dep |-> l.dep, depNode |-> l.depNode]
  BY DEF IsLaunch, WithNode
<1> HIDE DEF k
<1>2. /\ k.node = n /\ k.met = l.met /\ k.rem = l.rem /\ k.dep = l.dep /\ k.depNode = l.depNode
      /\ k = [node |-> k.node, met |-> k.met, rem |-> k.rem, tried |-> k.tried,
              failed |-> k.failed, dep |-> k.dep, depNode |-> k.depNode]
  BY <1>1
<1>3. IsLaunch(k)  BY <1>2 DEF IsLaunch
<1>4. QED BY <1>2, <1>3 DEF k

WithDepNode(l, n) == [l EXCEPT !.depNode = n]
LEMMA DepNodeSet ==
    ASSUME NEW l, IsLaunch(l), NEW n, IsPointer(n)
    PROVE  /\ IsLaunch(WithDepNode(l, n)) /\ WithDepNode(l, n).node = l.node
           /\ WithDepNode(l, n).dep = l.dep /\ WithDepNode(l, n).depNode = n
<1> DEFINE k == WithDepNode(l, n)
<1>1. k = [node |-> l.node, met |-> l.met, rem |-> l.rem, tried |-> l.tried,
           failed |-> l.failed, dep |-> l.dep, depNode |-> n]
  BY DEF IsLaunch, WithDepNode
<1> HIDE DEF k
<1>2. /\ k.node = l.node /\ k.met = l.met /\ k.rem = l.rem /\ k.dep = l.dep /\ k.depNode = n
      /\ k = [node |-> k.node, met |-> k.met, rem |-> k.rem, tried |-> k.tried,
              failed |-> k.failed, dep |-> k.dep, depNode |-> k.depNode]
  BY <1>1
<1>3. IsLaunch(k)  BY <1>2 DEF IsLaunch
<1>4. QED BY <1>2, <1>3 DEF k

WithDep(l, d, S, b) == [l EXCEPT !.dep = d, !.tried = S, !.failed = b]
LEMMA DepSet ==
    ASSUME NEW l, IsLaunch(l), NEW d, d # "none" => d \in Titles /\ l.met[d] = Null,
           NEW S, NEW b
    PROVE  /\ IsLaunch(WithDep(l, d, S, b)) /\ WithDep(l, d, S, b).node = l.node
           /\ WithDep(l, d, S, b).dep = d /\ WithDep(l, d, S, b).depNode = l.depNode
<1> DEFINE k == WithDep(l, d, S, b)
<1>0. l = [node |-> l.node, met |-> l.met, rem |-> l.rem, tried |-> l.tried,
           failed |-> l.failed, dep |-> l.dep, depNode |-> l.depNode]
  BY DEF IsLaunch
<1>1. k = [node |-> l.node, met |-> l.met, rem |-> l.rem, tried |-> S,
           failed |-> b, dep |-> d, depNode |-> l.depNode]
  <2> DEFINE k1 == [l EXCEPT !.dep = d]
             k2 == [k1 EXCEPT !.tried = S]
  <2>1. k = [k2 EXCEPT !.failed = b]  BY DEF WithDep
  <2>2. k1 = [node |-> l.node, met |-> l.met, rem |-> l.rem, tried |-> l.tried,
              failed |-> l.failed, dep |-> d, depNode |-> l.depNode]
    BY <1>0
  <2> HIDE DEF k1
  <2>3. k2 = [node |-> l.node, met |-> l.met, rem |-> l.rem, tried |-> S,
              failed |-> l.failed, dep |-> d, depNode |-> l.depNode]
    BY <2>2
  <2> HIDE DEF k2
  <2>4. QED BY <2>1, <2>3
<1> HIDE DEF k
<1>2. /\ k.node = l.node /\ k.met = l.met /\ k.rem = l.rem /\ k.dep = d /\ k.depNode = l.depNode
      /\ k = [node |-> k.node, met |-> k.met, rem |-> k.rem, tried |-> k.tried,
              failed |-> k.failed, dep |-> k.dep, depNode |-> k.depNode]
  BY <1>1
<1>3. IsLaunch(k)  BY <1>2 DEF IsLaunch
<1>4. QED BY <1>2, <1>3 DEF k

(* A title that is in the list already.                                     *)
FindsNode(t, n) == launch' = [launch EXCEPT ![t].node = n]
LEMMA FoundSteps ==
    ASSUME KernelInv, WorkersInv, NEW t \in Workers, NEW n, IsPointer(n),
           Unmoved, procs' = procs, life' = life,
           Goes(thread, thread', t, "found"), FindsNode(t, n), Free(thread[t].pc), Alone(t)
    PROVE  Stepping(t)
<1> DEFINE l == WithNode(launch[t], n)
<1>1. LaunchOK(thread[t].pc, launch[t]) /\ IsThreads(thread)  BY DEF WorkersInv
<1>2. launch[t].dep = "none"  BY <1>1 DEF LaunchOK, Free, Holds, LoadsDep
<1>3. SetsLaunch(t, l)
  <2>1. launch' = [launch EXCEPT ![t] = l]  BY DEF FindsNode, WithNode
  <2> HIDE DEF l
  <2>2. QED BY <2>1 DEF WorkersInv, SetsLaunch
<1>4. IsLaunch(l) /\ l.node = n /\ l.dep = launch[t].dep  BY <1>1, NodeSet DEF LaunchOK
<1> HIDE DEF l
<1>5. launch'[t] = l /\ SetsLaunch(t, launch'[t])  BY <1>3, LaunchSet
<1>6. Moved(thread, thread', t) /\ thread'[t].pc = "found"  BY <1>1, GotoMoves
<1>7. LaunchOK("found", l)  BY <1>2, <1>4 DEF LaunchOK
<1>8. WorkOK("found", thread'[t].job, l, Fresh, Applications, runningApplicationData)
  <2>1. ~Holds("found") /\ ~Ready("found") /\ ~Merges("found")  BY DEF Holds, Ready, Merges
  <2>2. QED BY <2>1, <1>2, <1>4 DEF WorkOK
<1>9. AllKept(procs, procs')  BY KeptItself DEF KernelInv
<1>10. Advancing(t)  BY <1>5, <1>6, <1>7, <1>8, <1>9 DEF Advancing
<1>11. QED BY <1>10, AdvanceSteps

LEMMA LaunchTitleSteps ==
    ASSUME KernelInv, WorkersInv, NEW title \in Titles, LaunchTitle(title)
    PROVE  Stepping("service")
<1>1. /\ Unmoved /\ procs' = procs /\ life' = life
      /\ thread["service"].pc = "idle" /\ Alone("service")
  BY DEF LaunchTitle, Unmoved, shared, environment, Offered, Command, Alone
<1>2. Fades(life, life') /\ "service" \in Workers  BY <1>1, StayFades DEF KernelInv, Workers
<1>3. CASE Find(title) # Null
  <2>1. Goes(thread, thread', "service", "found") /\ FindsNode("service", Find(title))
    BY <1>3 DEF LaunchTitle, Goes, FindsNode
  <2>2. IsPointer(Find(title))  BY FindIs DEF KernelInv, IsPointer
  <2>3. Free(thread["service"].pc)  BY <1>1 DEF Free, Holds
  <2>4. QED BY <1>1, <1>2, <2>1, <2>2, <2>3, FoundSteps
<1>4. ASSUME NEW job, IsJob(job), Submit(job) \/ Begins("service", job), launch' = launch
      PROVE  Asking
  BY <1>1, <1>2, <1>4, SubmitAsks, BeginsAsks DEF Asking
<1>5. CASE Find(title) = Null
  <2> DEFINE debugged == debugNext /\ title \in Apps
             job == [LaunchJob(title) EXCEPT !.debugged = debugged]
  <2>1. launch' = launch /\ (Submit(job) \/ Begins("service", job))  BY <1>5 DEF LaunchTitle
  <2> HIDE DEF debugged
  <2>2. IsJob(job)  BY LaunchJobIs
  <2> HIDE DEF job
  <2>3. QED BY <2>1, <2>2, <1>4, AskingSteps
<1>6. QED BY <1>3, <1>5

LEMMA LaunchUpdateSteps ==
    ASSUME KernelInv, WorkersInv, NEW title \in Titles,
           LaunchTitleUpdate(title) \/ LaunchAppDebug(title)
    PROVE  Stepping("service")
<1>1. /\ Unmoved /\ procs' = procs /\ life' = life /\ launch' = launch
      /\ thread["service"].pc = "idle" /\ Alone("service")
  BY DEF LaunchTitleUpdate, LaunchAppDebug, Unmoved, shared, environment, Offered, Command, Alone
<1>2. Fades(life, life')  BY <1>1, StayFades DEF KernelInv
<1>3. \E job : IsJob(job) /\ (Submit(job) \/ Begins("service", job))
  <2>1. CASE LaunchTitleUpdate(title)
    <3> DEFINE job == [LaunchJob(title) EXCEPT !.debugged = debugNext]
    <3>1. Submit(job) \/ Begins("service", job)  BY <2>1 DEF LaunchTitleUpdate
    <3>2. IsJob(job)  BY LaunchJobIs
    <3> HIDE DEF job
    <3>3. QED BY <3>1, <3>2
  <2>2. CASE LaunchAppDebug(title)
    <3> DEFINE job == [LaunchJob(title) EXCEPT !.prevdbg = debugNext]
    <3>1. Begins("service", job)  BY <2>2 DEF LaunchAppDebug
    <3>2. IsJob(job)  BY LaunchJobIs
    <3> HIDE DEF job
    <3>3. QED BY <3>1, <3>2
  <2>3. QED BY <2>1, <2>2
<1>4. Asking  BY <1>1, <1>2, <1>3, SubmitAsks, BeginsAsks DEF Asking
<1>5. QED BY <1>4, AskingSteps

(* Steps of a launch.                                                       *)
LEMMA StayStep ==
    ASSUME KernelInv, WorkersInv, NEW t \in Workers, thread[t].pc # "idle",
           Unmoved, procs' = procs, life' = life, thread' = thread, launch' = launch
    PROVE  Stepping(t)
<1>1. AllKept(procs, procs') /\ Moved(thread, thread', t)
  BY KeptItself, StillMoves DEF KernelInv, WorkersInv
<1>2. SetsLaunch(t, launch'[t]) /\ launch'[t] = launch[t]  BY LaunchSame
<1>3. LaunchOK(thread'[t].pc, launch'[t])  BY <1>2 DEF WorkersInv
<1>4. WorkAt(t) => WorkOK(thread'[t].pc, thread'[t].job, launch'[t], Fresh, Applications,
                          runningApplicationData)
  BY <1>2 DEF WorkAt
<1>5. Advancing(t)  BY <1>1, <1>2, <1>3, <1>4 DEF Advancing, Alone
<1>6. QED BY <1>5, AdvanceSteps

LEMMA LaunchFoundSteps ==
    ASSUME KernelInv, WorkersInv, NEW t \in Workers, LaunchFound(t) PROVE Stepping(t)
<1>1. /\ Unmoved /\ life' = life /\ Finish(t) /\ thread[t].pc # "idle"
  BY DEF LaunchFound, Unmoved, environment, At
<1>2. AllKept(procs, procs')  BY WithoutFlagsKeeps DEF LaunchFound, KernelInv
<1>3. Fades(life, life')  BY <1>1, StayFades DEF KernelInv
<1>4. QED BY <1>1, <1>2, <1>3, FinishSteps

LEMMA RelaunchSteps ==
    ASSUME KernelInv, WorkersInv, NEW t \in Workers, Relaunch(t) PROVE Stepping(t)
<1>1. Unmoved /\ procs' = procs /\ life' = life /\ thread[t].pc = "reap"
  BY DEF Relaunch, Unmoved, shared, environment, At
<1>2. Free(thread[t].pc) /\ Alone(t)  BY <1>1 DEF Free, Holds, Alone
<1>3. Fades(life, life') /\ AllKept(procs, procs')
  BY <1>1, StayFades, KeptItself DEF KernelInv
<1>4. ASSUME NEW pc, NEW job, IsJob(job), Becomes(thread, thread', t, pc, job), ~Holds(pc),
             launch' = launch
      PROVE  Stepping(t)
  <2>1. Moved(thread, thread', t) /\ thread'[t].pc = pc  BY <1>4, SetMoves DEF WorkersInv
  <2>2. QED BY <2>1, <1>1, <1>2, <1>3, <1>4, FreeSteps
<1>5. CASE Return(t) /\ launch' = launch
  <2>1. Becomes(thread, thread', t, "idle", NoJob) /\ ~Holds("idle")
    BY <1>5 DEF Return, Idle, Becomes, Holds
  <2>2. QED BY <2>1, <1>4, <1>5, NoJobIs
<1>6. ASSUME NEW job, IsJob(job), Begins(t, job), launch' = launch PROVE Stepping(t)
  <2>1. Becomes(thread, thread', t, "check", job) /\ ~Holds("check")
    BY <1>6 DEF Begins, Becomes, Holds
  <2>2. QED BY <2>1, <1>4, <1>6
<1>7. ASSUME NEW n, n = Find(thread[t].job.title), thread' = [thread EXCEPT ![t].pc = "found"],
             launch' = [launch EXCEPT ![t].node = n]
      PROVE  Stepping(t)
  <2>1. Goes(thread, thread', t, "found") /\ FindsNode(t, n)  BY <1>7 DEF Goes, FindsNode
  <2>2. IsPointer(n)  BY <1>7, FindIs DEF KernelInv, IsPointer
  <2>3. QED BY <2>1, <2>2, <1>1, <1>2, FoundSteps
<1> DEFINE x == TRUE
           title == thread[t].job.title
           job == [LaunchJob(title) EXCEPT !.fake = x, !.debugged = debugNext]
<1>8. \/ Return(t) /\ launch' = launch
      \/ Begins(t, job) /\ launch' = launch
      \/ /\ thread' = [thread EXCEPT ![t].pc = "found"]
         /\ launch' = [launch EXCEPT ![t].node = Find(title)]
  BY DEF Relaunch
<1>9. IsJob(job)
  <2>1. title \in Titles \cup {"none"}  BY DEF WorkersInv, IsThreads, IsJob
  <2> HIDE DEF x, title
  <2>2. QED BY <2>1, LaunchJobIs
<1> HIDE DEF job
<1>10. QED BY <1>5, <1>6, <1>7, <1>8, <1>9

LEMMA CheckSteps ==
    ASSUME KernelInv, WorkersInv, NEW t \in Workers, Check(t) PROVE Stepping(t)
<1>1. Unmoved /\ procs' = procs /\ life' = life /\ thread[t].pc = "check"
  BY DEF Check, Unmoved, shared, environment, At
<1>2. Free(thread[t].pc) /\ Alone(t)  BY <1>1 DEF Free, Holds, Alone
<1>3. Fades(life, life') /\ AllKept(procs, procs')
  BY <1>1, StayFades, KeptItself DEF KernelInv
<1>4. CASE Finish(t)  BY <1>1, <1>3, <1>4, FinishSteps
<1>5. CASE /\ Goto(t, "load") /\ launch' = launch
           /\ ~(runningApplicationData # Null /\ thread[t].job.title \in Apps)
  <2>1. Goes(thread, thread', t, "load")  BY <1>5 DEF Goto, Goes
  <2>2. Moved(thread, thread', t) /\ thread'[t].pc = "load" /\ thread'[t].job = thread[t].job
    BY <2>1, GotoMoves DEF WorkersInv
  <2>3. SetsLaunch(t, launch'[t]) /\ launch'[t] = launch[t]  BY <1>5, LaunchSame
  <2>4. LaunchOK(thread[t].pc, launch[t]) /\ ~LoadsDep("check")  BY DEF WorkersInv, LoadsDep
  <2>5. LaunchOK("load", launch[t])  BY <1>1, <2>4, LaunchStays
  <2>6. WorkAt(t) => launch[t].node = Null /\ launch[t].dep = "none"
    BY <1>2, <2>4, NoWorkIs DEF WorkAt, Free
  <2>7. launch[t].node = Null /\ launch[t].dep = "none"
           => WorkOK("load", thread[t].job, launch[t], Fresh, Applications,
                     runningApplicationData)
    <3>1. ~Ready("load") /\ ~Merges("load")  BY DEF Ready, Merges
    <3>2. QED BY <3>1, <1>5 DEF WorkOK
  <2>8. Advancing(t)  BY <1>1, <1>2, <1>3, <2>2, <2>3, <2>5, <2>6, <2>7 DEF Advancing
  <2>9. QED BY <2>8, AdvanceSteps
<1>6. QED BY <1>4, <1>5 DEF Check, Fail

(* A thread that goes on with what it holds.                                *)
LEMMA GoOnSteps ==
    ASSUME KernelInv, WorkersInv, NEW t \in Workers, NEW pc, NEW l,
           Unmoved, AllKept(procs, procs'), life' = life, thread[t].pc # "idle",
           Goto(t, pc), SetsLaunch(t, l), LaunchOK(pc, l),
           WorkAt(t) => WorkOK(pc, thread[t].job, l, Fresh, Applications, runningApplicationData)
    PROVE  Stepping(t)
<1>1. Goes(thread, thread', t, pc)  BY DEF Goto, Goes
<1>2. Moved(thread, thread', t) /\ thread'[t].pc = pc /\ thread'[t].job = thread[t].job
  BY <1>1, GotoMoves DEF WorkersInv
<1>3. launch'[t] = l /\ SetsLaunch(t, launch'[t])  BY LaunchSet
<1>4. Advancing(t)  BY <1>2, <1>3 DEF Advancing, Alone
<1>5. QED BY <1>4, AdvanceSteps

LEMMA GiveUpSteps ==
    ASSUME KernelInv, WorkersInv, NEW t \in Workers, thread[t].pc = "load",
           Unmoved, procs' = procs, life' = life, GiveUp(t)
    PROVE  Stepping(t)
<1>1. Fades(life, life') /\ AllKept(procs, procs')
  BY StayFades, KeptItself DEF KernelInv
<1>2. CASE Finish(t)  BY <1>1, <1>2, FinishSteps
<1>3. CASE /\ ForDependency(t) /\ Goto(t, "dependencies")
           /\ launch' = [launch EXCEPT ![t].dep = "none", ![t].failed = TRUE]
  <2> DEFINE k == WithDep(launch[t], "none", launch[t].tried, TRUE)
  <2>1. IsLaunch(launch[t])  BY DEF WorkersInv, LaunchOK
  <2>2. [launch[t] EXCEPT !.dep = "none", !.failed = TRUE] = k
    <3> DEFINE l == launch[t]
               k1 == [l EXCEPT !.dep = "none"]
    <3>1. l = [node |-> l.node, met |-> l.met, rem |-> l.rem, tried |-> l.tried,
               failed |-> l.failed, dep |-> l.dep, depNode |-> l.depNode]
      BY <2>1 DEF IsLaunch
    <3> HIDE DEF l
    <3>2. k1 = [node |-> l.node, met |-> l.met, rem |-> l.rem, tried |-> l.tried,
                failed |-> l.failed, dep |-> "none", depNode |-> l.depNode]
      BY <3>1
    <3>3. [l EXCEPT !.dep = "none", !.failed = TRUE] = [k1 EXCEPT !.failed = TRUE]  OBVIOUS
    <3>4. WithDep(l, "none", l.tried, TRUE)
            = [[k1 EXCEPT !.tried = l.tried] EXCEPT !.failed = TRUE]
      BY DEF WithDep
    <3> HIDE DEF k1
    <3>5. [k1 EXCEPT !.tried = l.tried] = k1  BY <3>2
    <3>6. QED BY <3>3, <3>4, <3>5 DEF l
  <2>3. launch' = [launch EXCEPT ![t] = k]
    <3> DEFINE l == [launch[t] EXCEPT !.dep = "none", !.failed = TRUE]
    <3>1. launch' = [launch EXCEPT ![t] = l]  BY <1>3
    <3>2. l = k  BY <2>2
    <3> HIDE DEF k, l
    <3>3. QED BY <3>1, <3>2
  <2>4. IsLaunch(k) /\ k.node = launch[t].node /\ k.dep = "none"
    <3> DEFINE b == TRUE
               d == "none"
    <3>1. k = WithDep(launch[t], d, launch[t].tried, b) /\ ~(d # "none")  OBVIOUS
    <3> HIDE DEF k, b, d
    <3>2. /\ IsLaunch(WithDep(launch[t], d, launch[t].tried, b))
          /\ WithDep(launch[t], d, launch[t].tried, b).node = launch[t].node
          /\ WithDep(launch[t], d, launch[t].tried, b).dep = d
      BY <2>1, <3>1, DepSet
    <3>3. QED BY <3>1, <3>2 DEF d
  <2> HIDE DEF k
  <2>5. SetsLaunch(t, k)  BY <2>3 DEF WorkersInv, SetsLaunch
  <2>6. LaunchOK("dependencies", k)  BY <2>4 DEF LaunchOK
  <2>7. WorkAt(t) => WorkOK("dependencies", thread[t].job, k, Fresh, Applications,
                            runningApplicationData)
    <3>1. Holds("load") /\ Holds("dependencies") /\ ~Ready("dependencies")
      BY DEF Holds, Ready
    <3>2. launch[t].dep # "none"  BY <1>3 DEF ForDependency, L
    <3>3. QED BY <3>1, <3>2, <2>4 DEF WorkAt, WorkOK
  <2>8. QED BY <1>1, <1>3, <2>5, <2>6, <2>7, GoOnSteps
<1>4. QED BY <1>2, <1>3 DEF GiveUp, Fail

LEMMA LoadFailSteps ==
    ASSUME KernelInv, WorkersInv, NEW t \in Workers, RegisterFails(t) \/ LoadFails(t)
    PROVE  Stepping(t)
<1>1. Unmoved /\ procs' = procs /\ life' = life /\ thread[t].pc = "load" /\ GiveUp(t)
  BY DEF RegisterFails, LoadFails, Unmoved, shared, environment, At
<1>2. QED BY <1>1, GiveUpSteps

LEMMA FailSteps ==
    ASSUME KernelInv, WorkersInv, NEW t \in Workers, SetUpFails(t) \/ LastDependencyFailed(t)
    PROVE  Stepping(t)
<1>1. Unmoved /\ procs' = procs /\ thread[t].pc # "idle" /\ Finish(t)
  BY DEF SetUpFails, LastDependencyFailed, Unmoved, shared, At, Fail
<1>2. Fades(life, life')  BY KilledFades DEF SetUpFails, LastDependencyFailed, KernelInv
<1>3. AllKept(procs, procs')  BY <1>1, KeptItself DEF KernelInv
<1>4. QED BY <1>1, <1>2, <1>3, FinishSteps

(* The dependencies of a program are merged with those met before.          *)
LEMMA MergedIs ==
    ASSUME NEW l, IsLaunch(l), NEW deps
    PROVE  /\ IsLaunch(Merged(l, deps)) /\ Merged(l, deps).node = l.node
           /\ Merged(l, deps).dep = l.dep /\ Merged(l, deps).depNode = l.depNode
<1> DEFINE m == MetAfter(l, deps)
           r == [d \in Titles |-> IF d \in deps /\ m[d] = Null THEN l.rem[d] + 1 ELSE l.rem[d]]
           k == Merged(l, deps)
           k1 == [l EXCEPT !.met = m]
<1>1. l = [node |-> l.node, met |-> l.met, rem |-> l.rem, tried |-> l.tried,
           failed |-> l.failed, dep |-> l.dep, depNode |-> l.depNode]
  BY DEF IsLaunch
<1>2. k1 = [node |-> l.node, met |-> m, rem |-> l.rem, tried |-> l.tried,
            failed |-> l.failed, dep |-> l.dep, depNode |-> l.depNode]
  <2> HIDE DEF m
  <2>1. QED BY <1>1
<1>3. k = [k1 EXCEPT !.rem = r]
  <2>1. k1.rem = l.rem
    <3> HIDE DEF k1, m
    <3>1. QED BY <1>2
  <2>2. k = [k1 EXCEPT !.rem = [d \in Titles |-> IF d \in deps /\ m[d] = Null
                                                THEN k1.rem[d] + 1 ELSE k1.rem[d]]]
    BY DEF Merged
  <2> HIDE DEF k1, m, k
  <2>3. QED BY <2>1, <2>2
<1>4. /\ m = [d \in Titles |-> m[d]]
      /\ \A d \in Titles : m[d] = Null => d \in deps \/ l.met[d] = Null
      /\ \A d \in Titles : l.met[d] = Null => m[d] = Null
  <2>1. m = [d \in Titles |-> IF d \in deps /\ l.met[d] = NotMet THEN Find(d) ELSE l.met[d]]
    BY DEF MetAfter
  <2> HIDE DEF m
  <2>2. Null # NotMet  BY DEF Null, NotMet
  <2>3. QED BY <2>1, <2>2
<1> HIDE DEF m
<1>5. r \in [Titles -> Nat] /\ \A d \in Titles : m[d] = Null => r[d] >= 1
  <2>1. \A d \in Titles : l.rem[d] \in Nat  BY DEF IsLaunch
  <2>2. \A d \in Titles : l.rem[d] + 1 \in Nat /\ l.rem[d] + 1 >= 1  BY <2>1
  <2>3. \A d \in Titles : r[d] = IF d \in deps /\ m[d] = Null THEN l.rem[d] + 1 ELSE l.rem[d]
    OBVIOUS
  <2>4. r = [d \in Titles |-> r[d]]  OBVIOUS
  <2> HIDE DEF r
  <2>5. \A d \in Titles : r[d] \in Nat  BY <2>1, <2>2, <2>3
  <2>6. \A d \in Titles : m[d] = Null => r[d] >= 1
    <3>1. \A d \in Titles : l.met[d] = Null => l.rem[d] >= 1  BY DEF IsLaunch
    <3>2. QED BY <3>1, <2>2, <2>3, <1>4
  <2>7. QED BY <2>4, <2>5, <2>6
<1> HIDE DEF r, k, k1
<1>6. k = [node |-> l.node, met |-> m, rem |-> r, tried |-> l.tried,
           failed |-> l.failed, dep |-> l.dep, depNode |-> l.depNode]
  BY <1>2, <1>3
<1>7. /\ k.node = l.node /\ k.met = m /\ k.rem = r /\ k.dep = l.dep /\ k.depNode = l.depNode
      /\ k = [node |-> k.node, met |-> k.met, rem |-> k.rem, tried |-> k.tried,
              failed |-> k.failed, dep |-> k.dep, depNode |-> k.depNode]
  BY <1>6
<1>8. IsLaunch(k)  BY <1>4, <1>5, <1>7 DEF IsLaunch
<1>9. QED BY <1>7, <1>8 DEF k

LEMMA ReferencedKeeps ==
    ASSUME NEW ps, AreProcesses(ps), NEW l, NEW deps
    PROVE  AllKept(ps, Referenced(ps, l, deps))
BY IncrefKeeps DEF Referenced

LEMMA MergeOwnSteps ==
    ASSUME KernelInv, WorkersInv, NEW t \in Workers, MergeOwn(t) PROVE Stepping(t)
<1> DEFINE deps == Deps[thread[t].job.title]
           l == launch[t]
           k == Merged(l, deps)
<1>1. Unmoved /\ life' = life /\ thread[t].pc = "merge"
  BY DEF MergeOwn, Unmoved, environment, At
<1>2. AllKept(procs, procs')
  <2> DEFINE qs == Referenced(procs, l, deps)
             fs == qs[l.node].flags \cup {"dependencies loaded"}
  <2>1. AreProcesses(procs) /\ AllKept(procs, procs)  BY KeptItself DEF KernelInv
  <2>2. AllKept(procs, qs)  BY <2>1, ReferencedKeeps
  <2>3. procs' = procs \/ procs' = [qs EXCEPT ![l.node].flags = fs]  BY DEF MergeOwn, L
  <2>4. "application" \in fs <=> IsApplication(qs[l.node])  BY DEF IsApplication
  <2> HIDE DEF qs, fs
  <2>5. AllKept(qs, [qs EXCEPT ![l.node].flags = fs])  BY <2>2, <2>4, OneFlagged DEF AllKept
  <2>6. AllKept(procs, [qs EXCEPT ![l.node].flags = fs])  BY <2>2, <2>5, KeptOn
  <2>7. QED BY <2>1, <2>3, <2>6
<1>3. launch' = [launch EXCEPT ![t] = k]  BY DEF MergeOwn, L
<1>4. LaunchOK("merge", l) /\ IsLaunch(l) /\ l.dep = "none"
  <2>1. LaunchOK("merge", l) /\ ~LoadsDep("merge")  BY <1>1 DEF WorkersInv, LoadsDep
  <2>2. QED BY <2>1 DEF LaunchOK
<1>5. IsLaunch(k) /\ k.node = l.node /\ k.dep = "none"  BY <1>4, MergedIs
<1> HIDE DEF k
<1>6. SetsLaunch(t, k)  BY <1>3 DEF WorkersInv, SetsLaunch
<1>7. \A pc : pc # "merge dependency" => LaunchOK(pc, k)  BY <1>5 DEF LaunchOK
<1>8. ASSUME NEW pc \in {"run", "dependencies"}, Goto(t, pc) PROVE Stepping(t)
  <2>1. WorkAt(t) => WorkOK(pc, thread[t].job, k, Fresh, Applications, runningApplicationData)
    <3>1. Holds("merge") /\ Merges("merge") /\ Holds(pc)  BY DEF Holds, Merges
    <3>2. HeldBy(k) = k.node  BY <1>5 DEF HeldBy
    <3>3. HeldBy(k) \in Applications => ~Ready(pc) \/ pc = "run"  BY DEF Ready
    <3>4. WorkAt(t) => l.node # Null /\ l.node \in Fresh /\ thread[t].job.title \in Apps
                       /\ runningApplicationData = Null
      BY <1>1, <3>1 DEF WorkAt, WorkOK
    <3>5. QED BY <1>5, <3>1, <3>2, <3>3, <3>4 DEF WorkOK
  <2>2. QED BY <1>1, <1>2, <1>6, <1>7, <1>8, <2>1, GoOnSteps
<1>9. QED BY <1>8 DEF MergeOwn

LEMMA NextDependencySteps ==
    ASSUME KernelInv, WorkersInv, NEW t \in Workers, NextDependency(t) PROVE Stepping(t)
<1> DEFINE l == launch[t]
<1>1. Unmoved /\ procs' = procs /\ life' = life /\ thread[t].pc = "dependencies"
  BY DEF NextDependency, Unmoved, shared, environment, At
<1>2. AllKept(procs, procs')  BY <1>1, KeptItself DEF KernelInv
<1>3. IsLaunch(l) /\ l.dep = "none"
  <2>1. LaunchOK("dependencies", l) /\ ~LoadsDep("dependencies")
    BY <1>1 DEF WorkersInv, LoadsDep
  <2>2. QED BY <2>1 DEF LaunchOK
<1>4. WorkAt(t) => l.node # Null /\ l.node \in Fresh /\ thread[t].job.title \in Apps
                   /\ runningApplicationData = Null
  <2>1. Holds("dependencies") /\ Merges("dependencies")  BY DEF Holds, Merges
  <2>2. QED BY <1>1, <2>1 DEF WorkAt, WorkOK
<1>5. CASE Goto(t, "run") /\ launch' = launch
  <2>1. SetsLaunch(t, l)  BY <1>5, LaunchSame
  <2>2. LaunchOK("run", l)  BY <1>3 DEF LaunchOK
  <2>3. WorkAt(t) => WorkOK("run", thread[t].job, l, Fresh, Applications, runningApplicationData)
    <3>1. HeldBy(l) = l.node /\ Holds("run")  BY <1>3 DEF HeldBy, Holds
    <3>2. QED BY <1>3, <1>4, <3>1 DEF WorkOK
  <2>4. QED BY <1>1, <1>2, <1>5, <2>1, <2>2, <2>3, GoOnSteps
<1>6. ASSUME NEW d \in Missing(t), Goto(t, "load"),
             launch' = [launch EXCEPT ![t].dep = d, ![t].tried = @ \cup {d}, ![t].failed = FALSE]
      PROVE  Stepping(t)
  <2> DEFINE S == l.tried \cup {d}
             b == FALSE
             k == WithDep(l, d, S, b)
  <2>1. d \in Titles /\ l.met[d] = Null /\ d # "none"
    BY ProcessesAssumption DEF Missing, L
  <2>2. launch' = [launch EXCEPT ![t] = k]
    <3> DEFINE k1 == [l EXCEPT !.dep = d]
               k2 == [k1 EXCEPT !.tried = @ \cup {d}]
               k3 == [k2 EXCEPT !.failed = b]
    <3>1. launch' = [launch EXCEPT ![t] = k3]  BY <1>6
    <3>2. k1.tried = l.tried
      <4>1. l = [node |-> l.node, met |-> l.met, rem |-> l.rem, tried |-> l.tried,
                 failed |-> l.failed, dep |-> l.dep, depNode |-> l.depNode]
        BY <1>3 DEF IsLaunch
      <4> HIDE DEF l
      <4>2. k1 = [node |-> l.node, met |-> l.met, rem |-> l.rem, tried |-> l.tried,
                  failed |-> l.failed, dep |-> d, depNode |-> l.depNode]
        BY <4>1
      <4> HIDE DEF k1
      <4>3. QED BY <4>2
    <3>3. k2 = [k1 EXCEPT !.tried = S]
      <4> HIDE DEF k1, l
      <4>1. QED BY <3>2
    <3>4. k = [[k1 EXCEPT !.tried = S] EXCEPT !.failed = b]  BY DEF WithDep
    <3> HIDE DEF k, k1, k2, S, b
    <3>5. k3 = k  BY <3>3, <3>4
    <3> HIDE DEF k3
    <3>6. QED BY <3>1, <3>5
  <2>3. IsLaunch(k) /\ k.node = l.node /\ k.dep = d
    <3> HIDE DEF l, S, b
    <3>1. QED BY <1>3, <2>1, DepSet
  <2> HIDE DEF k
  <2>4. SetsLaunch(t, k)  BY <2>2 DEF WorkersInv, SetsLaunch
  <2>5. LaunchOK("load", k)  BY <2>3 DEF LaunchOK, LoadsDep, Loaded
  <2>6. WorkAt(t) => WorkOK("load", thread[t].job, k, Fresh, Applications, runningApplicationData)
    <3>1. Holds("load") /\ ~Ready("load")  BY DEF Holds, Ready
    <3>2. QED BY <1>4, <2>3, <3>1 DEF WorkOK
  <2>7. QED BY <1>1, <1>2, <1>6, <2>4, <2>5, <2>6, GoOnSteps
<1>7. QED BY <1>5, <1>6 DEF NextDependency

(* A dependency that runs is met, and no longer being loaded.               *)
MetDep(l, d, n) == [l EXCEPT !.met[d] = n, !.rem[d] = 0, !.dep = "none", !.depNode = Null]
LEMMA MetDepIs ==
    ASSUME NEW l, IsLaunch(l), NEW d \in Titles, NEW n, n # Null
    PROVE  /\ IsLaunch(MetDep(l, d, n)) /\ MetDep(l, d, n).node = l.node
           /\ MetDep(l, d, n).dep = "none"
<1> DEFINE m == [l.met EXCEPT ![d] = n]
           r == [l.rem EXCEPT ![d] = 0]
           k == MetDep(l, d, n)
           k1 == [l EXCEPT !.met = m]
           k2 == [k1 EXCEPT !.rem = r]
           k3 == [k2 EXCEPT !.dep = "none"]
<1>1. l = [node |-> l.node, met |-> l.met, rem |-> l.rem, tried |-> l.tried,
           failed |-> l.failed, dep |-> l.dep, depNode |-> l.depNode]
  BY DEF IsLaunch
<1>2. k1 = [node |-> l.node, met |-> m, rem |-> l.rem, tried |-> l.tried,
            failed |-> l.failed, dep |-> l.dep, depNode |-> l.depNode]
  <2> HIDE DEF m
  <2>1. QED BY <1>1
<1>3. k2 = [node |-> l.node, met |-> m, rem |-> r, tried |-> l.tried,
            failed |-> l.failed, dep |-> l.dep, depNode |-> l.depNode]
  <2> HIDE DEF m, k1, r
  <2>1. QED BY <1>2
<1>4. k3 = [node |-> l.node, met |-> m, rem |-> r, tried |-> l.tried,
            failed |-> l.failed, dep |-> "none", depNode |-> l.depNode]
  <2> HIDE DEF m, r, k2
  <2>1. QED BY <1>3
<1>5. k = [k3 EXCEPT !.depNode = Null]
  <2>1. k = [[[[l EXCEPT !.met[d] = n] EXCEPT !.rem[d] = 0] EXCEPT !.dep = "none"]
                EXCEPT !.depNode = Null]
    BY DEF MetDep
  <2>2. [l EXCEPT !.met[d] = n] = k1  OBVIOUS
  <2>3. k1.rem = l.rem
    <3> HIDE DEF k1, m
    <3>1. QED BY <1>2
  <2>4. [k1 EXCEPT !.rem[d] = 0] = k2
    <3> HIDE DEF k1, m
    <3>1. QED BY <2>3
  <2> HIDE DEF k1, k2
  <2>5. QED BY <2>1, <2>2, <2>4
<1>6. /\ m = [e \in Titles |-> m[e]] /\ m[d] = n
      /\ \A e \in Titles \ {d} : m[e] = l.met[e]
  BY DEF IsLaunch
<1>7. /\ r \in [Titles -> Nat] /\ \A e \in Titles \ {d} : r[e] = l.rem[e]
  BY DEF IsLaunch
<1> HIDE DEF m, r, k, k1, k2, k3
<1>8. k = [node |-> l.node, met |-> m, rem |-> r, tried |-> l.tried,
           failed |-> l.failed, dep |-> "none", depNode |-> Null]
  BY <1>4, <1>5
<1>9. /\ k.node = l.node /\ k.met = m /\ k.rem = r /\ k.dep = "none" /\ k.depNode = Null
      /\ k = [node |-> k.node, met |-> k.met, rem |-> k.rem, tried |-> k.tried,
              failed |-> k.failed, dep |-> k.dep, depNode |-> k.depNode]
  BY <1>8
<1>10. IsPointer(k.node) /\ IsPointer(k.depNode)  BY <1>9 DEF IsLaunch, IsPointer
<1>11. \A e \in Titles : m[e] = Null => r[e] >= 1
  <2>1. \A e \in Titles : l.met[e] = Null => l.rem[e] >= 1  BY DEF IsLaunch
  <2>2. QED BY <2>1, <1>6, <1>7
<1>12. IsLaunch(k)  BY <1>6, <1>7, <1>9, <1>10, <1>11 DEF IsLaunch
<1>13. QED BY <1>9, <1>12 DEF k

LEMMA MergeDependencySteps ==
    ASSUME KernelInv, WorkersInv, NEW t \in Workers, MergeDependency(t) PROVE Stepping(t)
<1> DEFINE l == launch[t]
           d == l.dep
           n == l.depNode
           m == MetDep(l, d, n)
           k == Merged(m, Deps[d])
<1>1. Unmoved /\ life' = life /\ thread[t].pc = "merge dependency"
  BY DEF MergeDependency, Unmoved, environment, At
<1>2. /\ IsLaunch(l) /\ d # "none" /\ n # Null /\ d \in Titles /\ l.met[d] = Null
  <2>1. LaunchOK("merge dependency", l) /\ Loaded("merge dependency")
    BY <1>1 DEF WorkersInv, Loaded
  <2>2. QED BY <2>1 DEF LaunchOK, IsLaunch
<1>3. l.rem[d] - 1 \in Nat
  <2>1. l.rem[d] \in Nat /\ l.rem[d] >= 1  BY <1>2 DEF IsLaunch
  <2> HIDE DEF l, d
  <2>2. QED BY <2>1
<1>4. AllKept(procs, procs')
  <2> DEFINE fs == procs[n].flags \cup {"autoloaded", "dependencies loaded"}
             ps == [procs EXCEPT ![n].flags = fs]
             qs == Incref(ps, {n}, l.rem[d] - 1)
  <2>1. procs' = Referenced(qs, m, Deps[d])  BY DEF MergeDependency, L, MetDep
  <2>2. "application" \in fs <=> IsApplication(procs[n])  BY DEF IsApplication
  <2>3. AllKept(procs, ps)
    <3> HIDE DEF fs
    <3>1. QED BY <2>2, OneFlagged DEF KernelInv
  <2> HIDE DEF ps
  <2>4. AllKept(ps, qs)  BY <2>3, <1>3, IncrefKeeps DEF AllKept
  <2> HIDE DEF qs
  <2>5. AllKept(qs, procs')  BY <2>1, <2>4, ReferencedKeeps DEF AllKept
  <2>6. QED BY <2>3, <2>4, <2>5, KeptOn
<1>5. launch' = [launch EXCEPT ![t] = k] /\ Goto(t, "dependencies")
  BY DEF MergeDependency, L, MetDep
<1>6. IsLaunch(k) /\ k.node = l.node /\ k.dep = "none"
  <2>1. IsLaunch(m) /\ m.node = l.node /\ m.dep = "none"  BY <1>2, MetDepIs
  <2> HIDE DEF m
  <2>2. QED BY <2>1, MergedIs
<1> HIDE DEF k
<1>7. SetsLaunch(t, k)  BY <1>5 DEF WorkersInv, SetsLaunch
<1>8. LaunchOK("dependencies", k)  BY <1>6 DEF LaunchOK
<1>9. WorkAt(t) => WorkOK("dependencies", thread[t].job, k, Fresh, Applications,
                          runningApplicationData)
  <2>1. Holds("merge dependency") /\ Holds("dependencies") /\ ~Ready("dependencies")
    BY DEF Holds, Ready
  <2>2. QED BY <2>1, <1>1, <1>2, <1>6 DEF WorkAt, WorkOK
<1>10. QED BY <1>1, <1>4, <1>5, <1>7, <1>8, <1>9, GoOnSteps

(* LOADER_LoadProcess succeeded: the program has a process.                 *)
Held(l, n) == IF l.dep # "none" THEN WithDepNode(l, n) ELSE WithNode(l, n)
Taking(t) ==
    LET p == procs'[NewNode]
    IN  /\ UNCHANGED <<runningApplicationData, debugData, monitor>>
        /\ KernelInv' /\ Listed' = Listed \cup {NewNode} /\ NewNode \in Nodes \ Listed
        /\ p.flags = {} /\ life'[p.pid] = "created"
        /\ \A n \in Listed : procs'[n] = procs[n] /\ procs[n].pid # p.pid
        /\ \A n \in Nodes \ {NewNode} : procs'[n] = procs[n]
        /\ \A q \in Pids \ {p.pid} : life'[q] = life[q]
        /\ Moved(thread, thread', t) /\ thread[t].pc = "load"
        /\ thread'[t].pc = "set up" /\ thread'[t].job = thread[t].job
        /\ SetsLaunch(t, Held(launch[t], NewNode))

LEMMA HeldIs ==
    ASSUME NEW l, IsLaunch(l), NEW n, IsPointer(n)
    PROVE  /\ IsLaunch(Held(l, n)) /\ Held(l, n).dep = l.dep
           /\ l.dep # "none" => Held(l, n).node = l.node /\ Held(l, n).depNode = n
           /\ l.dep = "none" => Held(l, n).node = n
BY NodeSet, DepNodeSet DEF Held

LEMMA LoadTakes ==
    ASSUME KernelInv, WorkersInv, NEW t \in Workers, Load(t)
    PROVE  Taking(t) \/ Stepping(t)
<1> DEFINE l == launch[t]
           n == NewNode
           p == [pid |-> NextPid, title |-> loading(t), flags |-> {}, status |-> "running",
                 refcount |-> 1]
<1>1. /\ UNCHANGED <<runningApplicationData, debugData, monitor>> /\ thread[t].pc = "load"
      /\ NextPid <= MaxPid
  BY DEF Load, At
<1>2. CASE freeList = <<>>
  <2>1. Unmoved /\ procs' = procs /\ life' = life /\ thread' = thread /\ launch' = launch
    BY <1>1, <1>2 DEF Load, Unmoved
  <2>2. QED BY <1>1, <2>1, StayStep
<1>3. CASE freeList # <<>>
  <2>1. /\ procs' = [procs EXCEPT ![n] = p] /\ list' = Append(list, n)
        /\ freeList' = Tail(freeList) /\ life' = [life EXCEPT ![NextPid] = "created"]
        /\ Hold(t, n) /\ Goto(t, "set up")
    BY <1>3 DEF Load
  <2>2. /\ p.pid = NextPid /\ p.title = loading(t) /\ p.flags = {} /\ p.status = "running"
        /\ p.refcount = 1
        /\ p = [pid |-> p.pid, title |-> p.title, flags |-> p.flags, status |-> p.status,
                refcount |-> p.refcount]
    OBVIOUS
  <2>3. loading(t) \in Titles \cup {"none"}
    <3>1. LaunchOK(thread[t].pc, l) /\ IsJob(thread[t].job)  BY DEF WorkersInv, IsThreads
    <3>2. QED BY <3>1 DEF LaunchOK, IsLaunch, IsJob, loading, ForDependency, L
  <2>4. NextPid \in Pids  BY <1>1, NextPidIs DEF KernelInv
  <2> HIDE DEF p, n
  <2>5. IsProcess(p)  BY <2>2, <2>3, <2>4 DEF IsProcess, Statuses
  <2>6. PointersOK'  BY <1>1 DEF KernelInv, PointersOK
  <2>7. /\ KernelInv' /\ Listed' = Listed \cup {n} /\ n \in Nodes \ Listed
        /\ procs'[n] = p /\ life'[p.pid] = "created"
        /\ \A m \in Listed : procs'[m] = procs[m] /\ procs[m].pid # p.pid
        /\ \A q \in Pids \ {p.pid} : life'[q] = life[q]
    BY <1>1, <1>3, <2>1, <2>2, <2>5, <2>6, TakesKeeps DEF n
  <2>8. \A m \in Nodes \ {n} : procs'[m] = procs[m]  BY <2>1 DEF KernelInv, AreProcesses
  <2>9. Moved(thread, thread', t) /\ thread'[t].pc = "set up" /\ thread'[t].job = thread[t].job
    <3> DEFINE pc == "set up"
    <3>1. Goes(thread, thread', t, pc)  BY <2>1 DEF Goto, Goes
    <3> HIDE DEF pc
    <3>2. Moved(thread, thread', t) /\ thread'[t].pc = pc /\ thread'[t].job = thread[t].job
      BY <3>1, GotoMoves DEF WorkersInv
    <3>3. QED BY <3>2 DEF pc
  <2>10. SetsLaunch(t, Held(l, n))
    <3> DEFINE k == Held(l, n)
    <3>1. launch' = [launch EXCEPT ![t] = k]
      <4>1. CASE l.dep # "none"
        BY <4>1, <2>1 DEF Hold, ForDependency, L, Held, WithDepNode
      <4>2. CASE l.dep = "none"
        BY <4>2, <2>1 DEF Hold, ForDependency, L, Held, WithNode
      <4>3. QED BY <4>1, <4>2
    <3> HIDE DEF k
    <3>2. SetsLaunch(t, k)  BY <3>1 DEF WorkersInv, SetsLaunch
    <3>3. QED BY <3>2 DEF k
  <2>11. QED BY <1>1, <2>2, <2>7, <2>8, <2>9, <2>10 DEF Taking, n
<1>4. QED BY <1>2, <1>3

LEMMA TakingWorkers ==
    ASSUME WorkersInv, NEW t \in Workers, Taking(t) PROVE WorkersInv'
<1> DEFINE l == launch[t]
           k == Held(l, NewNode)
<1>0. NewNode \in Nodes  BY DEF Taking
<1>1. NewNode # Null /\ IsPointer(NewNode)  BY <1>0 DEF IsPointer, Nodes, Null
<1>2. LaunchOK("load", l)  BY DEF WorkersInv, Taking
<1>3. /\ IsLaunch(k) /\ k.dep = l.dep /\ (l.dep # "none" => k.depNode = NewNode)
  BY <1>1, <1>2, HeldIs DEF LaunchOK
<1>4. launch'[t] = k /\ SetsLaunch(t, launch'[t])  BY LaunchSet DEF Taking
<1> HIDE DEF k
<1>5. LaunchOK("set up", k)  BY <1>1, <1>3 DEF LaunchOK, LoadsDep
<1>6. QED BY <1>4, <1>5, WorkerMoves DEF Taking

(* The process is set up.  The application is marked as such.               *)
SettingUp(t) ==
    /\ UNCHANGED <<list, freeList, life, runningApplicationData, debugData, monitor, launch>>
    /\ AreProcesses(procs')
    /\ procs' = IF IsApp(t) THEN [procs EXCEPT ![HeldBy(launch[t])] = procs'[HeldBy(launch[t])]]
                ELSE procs
    /\ \A n \in Nodes : procs'[n].pid = procs[n].pid /\ procs'[n].status = procs[n].status
    /\ Moved(thread, thread', t) /\ thread[t].pc = "set up" /\ thread'[t].job = thread[t].job
    /\ thread'[t].pc = IF IsApp(t) THEN "merge" ELSE "run"

LEMMA HeldByIs == ASSUME NEW t PROVE held(t) = HeldBy(launch[t])
BY DEF held, HeldBy, ForDependency, L

LEMMA SetUpSets ==
    ASSUME KernelInv, WorkersInv, NEW t \in Workers, SetUp(t) PROVE SettingUp(t)
<1> DEFINE n == HeldBy(launch[t])
           fs == procs[n].flags \cup {"application"}
           p == [procs[n] EXCEPT !.flags = fs]
           pc == IF IsApp(t) THEN "merge" ELSE "run"
<1>1. /\ UNCHANGED <<list, freeList, life, runningApplicationData, debugData, monitor, launch>>
      /\ thread[t].pc = "set up"
  BY DEF SetUp, At
<1>2. procs' = IF IsApp(t) THEN [procs EXCEPT ![n] = p] ELSE procs
  BY HeldByIs DEF SetUp
<1>3. Goes(thread, thread', t, pc)  BY DEF SetUp, Goto, Goes, LoadsDependencies
<1> HIDE DEF pc
<1>4. Moved(thread, thread', t) /\ thread'[t].pc = pc /\ thread'[t].job = thread[t].job
  BY <1>3, GotoMoves DEF WorkersInv
<1>5. AreProcesses(procs)  BY DEF KernelInv
<1>6. CASE ~IsApp(t)  BY <1>1, <1>2, <1>4, <1>5, <1>6 DEF SettingUp, pc
<1>7. CASE IsApp(t)
  <2>1. n \in Nodes => IsProcess(p) /\ p.pid = procs[n].pid /\ p.status = procs[n].status
    <3> HIDE DEF fs, n
    <3>1. QED BY <1>5, FlagsChange DEF AreProcesses
  <2> HIDE DEF p, n
  <2>2. /\ procs' = [m \in Nodes |-> procs'[m]] /\ (n \in Nodes => procs'[n] = p)
        /\ \A m \in Nodes \ {n} : procs'[m] = procs[m]
    BY <1>2, <1>5, <1>7 DEF AreProcesses
  <2>3. \A m \in Nodes : IsProcess(procs'[m])  BY <1>5, <2>1, <2>2 DEF AreProcesses
  <2>4. \A m \in Nodes : procs'[m].pid = procs[m].pid /\ procs'[m].status = procs[m].status
    BY <2>1, <2>2
  <2>5. AreProcesses(procs')  BY <2>2, <2>3 DEF AreProcesses
  <2>6. procs' = [procs EXCEPT ![n] = procs'[n]]
    <3>1. CASE n \in Nodes  BY <3>1, <1>2, <1>7, <2>2
    <3>2. CASE n \notin Nodes
      <4>1. \A x : [procs EXCEPT ![n] = x] = procs  BY <3>2, <1>5 DEF AreProcesses
      <4>2. QED BY <4>1, <1>2, <1>7
    <3>3. QED BY <3>1, <3>2
  <2>7. QED BY <1>1, <1>4, <1>7, <2>4, <2>5, <2>6 DEF SettingUp, pc, n
<1>8. QED BY <1>6, <1>7

LEMMA SettingUpKeeps ==
    ASSUME KernelInv, WorkersInv, NEW t \in Workers, SettingUp(t)
    PROVE  KernelInv' /\ WorkersInv' /\ Listed' = Listed
<1> DEFINE l == launch[t]
<1>1. Remain(procs, procs')  BY DEF SettingUp, Remain
<1>2. Ages(life, life')  BY StayFades DEF KernelInv, SettingUp, Fades
<1>3. PointersOK'  BY DEF KernelInv, SettingUp, PointersOK
<1>4. MonitorOK'  BY <1>2, MonitorWaits DEF KernelInv, SettingUp
<1>5. KernelInv' /\ Listed' = Listed  BY <1>1, <1>2, <1>3, <1>4, CalmKeeps DEF SettingUp, Calm
<1>6. launch' = launch  BY DEF SettingUp
<1>7. SetsLaunch(t, launch'[t]) /\ launch'[t] = l  BY <1>6, LaunchSame
<1>8. LaunchOK("set up", l)  BY DEF WorkersInv, SettingUp
<1>9. LaunchOK("run", l)  BY <1>8 DEF LaunchOK, LoadsDep, Loaded
<1>10. IsApp(t) => LaunchOK("merge", l)  BY <1>8 DEF LaunchOK, IsApp, ForDependency, L
<1>11. LaunchOK(thread'[t].pc, l)  BY <1>9, <1>10 DEF SettingUp
<1>12. WorkersInv'  BY <1>7, <1>11, WorkerMoves DEF SettingUp
<1>13. QED BY <1>5, <1>12

(* The process runs, or waits for a debugger.                               *)
Queues(t, n) == /\ life' = life /\ launch[t].dep = "none"
                /\ debugData' = n /\ runningApplicationData' = runningApplicationData
Starts(t, n) == /\ life[procs[n].pid] = "created"
                /\ life' = [life EXCEPT ![procs[n].pid] = "running"]
                /\ debugData' = debugData
                /\ runningApplicationData' = IF IsApp(t) THEN n ELSE runningApplicationData
Beginning(t) ==
    LET n == HeldBy(launch[t])
    IN  /\ UNCHANGED <<list, freeList, monitor>> /\ AllKept(procs, procs')
        /\ thread[t].pc = "run" /\ Moved(thread, thread', t)
        /\ Queues(t, n) \/ Starts(t, n)
        /\ launch[t].dep = "none" => thread'[t].pc = "idle" /\ SetsLaunch(t, NoLaunch)
        /\ launch[t].dep # "none" => /\ launch' = launch /\ thread'[t].job = thread[t].job
                                     /\ thread'[t].pc = "merge dependency"

LEMMA RunBegins ==
    ASSUME KernelInv, WorkersInv, NEW t \in Workers, Run(t)
    PROVE  Beginning(t) \/ Stepping(t)
<1> DEFINE n == HeldBy(launch[t])
           p == procs[n].pid
           queued == thread[t].job.debugged /\ launch[t].dep = "none"
           fails == IF queued THEN debugData # Null ELSE life[p] # "created"
           fs == procs[n].flags \cup {"notify"}
<1>1. /\ UNCHANGED <<list, freeList, monitor>> /\ thread[t].pc = "run"
  BY DEF Run, At
<1>2. /\ debugData' = IF queued /\ ~fails THEN n ELSE debugData
      /\ life' = IF fails THEN Killed({p} \cup PidsOf({launch[t].node}))
                 ELSE IF queued THEN life ELSE [life EXCEPT ![p] = "running"]
      /\ runningApplicationData' = IF ~queued /\ ~fails THEN IF IsApp(t) THEN n
                                                             ELSE runningApplicationData
                                   ELSE runningApplicationData
      /\ procs' = IF NotifiesTermination(t) /\ ~fails THEN [procs EXCEPT ![n].flags = fs] ELSE procs
  BY HeldByIs DEF Run, ForDependency, L, RunningAfter
<1>3. \/ launch[t].dep # "none" /\ ~fails /\ Goto(t, "merge dependency") /\ launch' = launch
      \/ launch[t].dep = "none" /\ ~fails /\ Finish(t)
      \/ fails /\ Finish(t)
  BY HeldByIs DEF Run, ForDependency, L, Fail
<1>4. AllKept(procs, procs)  BY KeptItself DEF KernelInv
<1>5. CASE fails
  <2>1. Unmoved /\ procs' = procs  BY <1>1, <1>2, <1>5 DEF Unmoved
  <2>2. Finish(t)  BY <1>3, <1>5
  <2>3. Fades(life, life')
    <3>1. life' = Killed({p} \cup PidsOf({launch[t].node}))  BY <1>2, <1>5
    <3>2. QED BY <3>1, KilledFades DEF KernelInv
  <2>4. QED BY <1>1, <1>4, <2>1, <2>2, <2>3, FinishSteps
<1>6. CASE ~fails
  <2>1. AllKept(procs, procs')
    <3>1. "application" \in fs <=> IsApplication(procs[n])  BY DEF IsApplication
    <3>2. procs' = procs \/ procs' = [procs EXCEPT ![n].flags = fs]  BY <1>2
    <3> HIDE DEF fs, n
    <3>3. AllKept(procs, [procs EXCEPT ![n].flags = fs])
      BY <3>1, OneFlagged DEF KernelInv
    <3>4. QED BY <3>2, <3>3, <1>4
  <2>2. Queues(t, n) \/ Starts(t, n)
    <3>1. CASE queued  BY <3>1, <1>2, <1>6 DEF Queues
    <3>2. CASE ~queued  BY <3>2, <1>2, <1>6 DEF Starts
    <3>3. QED BY <3>1, <3>2
  <2>3. CASE launch[t].dep = "none"
    <3>1. Finish(t)  BY <1>3, <2>3
    <3>2. Becomes(thread, thread', t, "idle", NoJob)  BY <3>1 DEF Finish, Return, Idle, Becomes
    <3>3. Moved(thread, thread', t) /\ thread'[t].pc = "idle"
      BY <3>2, NoJobIs, SetMoves DEF WorkersInv
    <3>4. SetsLaunch(t, NoLaunch)  BY <3>1 DEF Finish, SetsLaunch, WorkersInv
    <3>5. QED BY <1>1, <2>1, <2>2, <2>3, <3>3, <3>4 DEF Beginning
  <2>4. CASE launch[t].dep # "none"
    <3> DEFINE pc == "merge dependency"
    <3>1. Goes(thread, thread', t, pc) /\ launch' = launch  BY <1>3, <1>6, <2>4 DEF Goto, Goes
    <3> HIDE DEF pc
    <3>2. Moved(thread, thread', t) /\ thread'[t].pc = pc /\ thread'[t].job = thread[t].job
      BY <3>1, GotoMoves DEF WorkersInv
    <3>3. QED BY <1>1, <2>1, <2>2, <2>4, <3>1, <3>2 DEF Beginning, pc
  <2>5. QED BY <2>3, <2>4
<1>7. QED BY <1>5, <1>6

LEMMA BeginningKeeps ==
    ASSUME KernelInv, WorkersInv, NEW t \in Workers, Beginning(t)
    PROVE  KernelInv' /\ WorkersInv' /\ Listed' = Listed
<1> DEFINE l == launch[t]
           n == HeldBy(l)
<1>1. LaunchOK("run", l)  BY DEF WorkersInv, Beginning
<1>2. IsPointer(n)  BY <1>1 DEF LaunchOK, IsLaunch, HeldBy
<1>3. Queues(t, n) \/ Starts(t, n)  BY DEF Beginning
<1>4. PointersOK'
  <2> HIDE DEF n
  <2>1. QED BY <1>2, <1>3 DEF KernelInv, PointersOK, Queues, Starts
<1>5. Ages(life, life')
  <2> HIDE DEF n
  <2>1. CASE Queues(t, n)  BY <2>1, StayFades DEF Queues, KernelInv, Fades
  <2>2. CASE Starts(t, n)  BY <2>2, RunAges DEF Starts, KernelInv
  <2>3. QED BY <1>3, <2>1, <2>2
<1>6. MonitorOK'  BY <1>5, MonitorWaits DEF KernelInv, Beginning
<1>7. KernelInv' /\ Listed' = Listed
  BY <1>4, <1>5, <1>6, KeptRemain, CalmKeeps DEF Beginning, Calm
<1>8. CASE l.dep = "none"
  <2>1. SetsLaunch(t, NoLaunch) /\ thread'[t].pc = "idle" /\ Moved(thread, thread', t)
    BY <1>8 DEF Beginning
  <2>2. launch'[t] = NoLaunch /\ SetsLaunch(t, launch'[t])  BY <2>1, LaunchSet
  <2>3. LaunchOK(thread'[t].pc, launch'[t])  BY <2>1, <2>2, NoLaunchIs
  <2>4. WorkersInv'  BY <2>1, <2>2, <2>3, WorkerMoves
  <2>5. QED BY <1>7, <2>4
<1>9. CASE l.dep # "none"
  <2>1. launch' = launch /\ thread'[t].pc = "merge dependency" /\ Moved(thread, thread', t)
    BY <1>9 DEF Beginning
  <2>2. SetsLaunch(t, launch'[t]) /\ launch'[t] = l  BY <2>1, LaunchSame
  <2>3. LaunchOK("merge dependency", l)  BY <1>1, <1>9 DEF LaunchOK, LoadsDep, Loaded
  <2>4. WorkersInv'  BY <2>1, <2>2, <2>3, WorkerMoves
  <2>5. QED BY <1>7, <2>4
<1>10. QED BY <1>8, <1>9

-----------------------------------------------------------------------------
(* The steps of no thread's launch: what was asked for is handed over, NS   *)
(* acknowledges an end, the queued process is run, a process ends.          *)
LEMMA WorkersSame == ASSUME WorkersInv, thread' = thread, launch' = launch PROVE WorkersInv'
BY DEF WorkersInv

Served == thread["service"].pc = "idle" /\ (Patient => thread["task"].pc = "idle")
LEMMA CommandServed == Command => Served
BY DEF Command, Served

HandingOver ==
    /\ Unmoved /\ procs' = procs /\ life' = life /\ launch' = launch
    /\ thread["service"].pc = "submit" /\ thread["task"].pc = "idle"
    /\ IsThreads(thread') /\ thread'["service"].pc = "idle"
    /\ thread'["task"].pc \in {"check", "begin"}

LEMMA HandOverSteps == ASSUME KernelInv, WorkersInv, HandOver PROVE HandingOver
<1>1. /\ Unmoved /\ procs' = procs /\ life' = life /\ launch' = launch
      /\ thread["service"].pc = "submit" /\ thread["task"].pc = "idle"
  BY DEF HandOver, Unmoved, shared, environment
<1> DEFINE job == thread["service"].job
           pc == FirstPc(job)
<1>2. thread' = [service |-> Idle, task |-> [pc |-> pc, job |-> job]]  BY DEF HandOver
<1>3. pc \in {"check", "begin"}  BY DEF FirstPc
<1>4. IsJob(job)  BY DEF WorkersInv, IsThreads, Workers
<1> HIDE DEF pc, job
<1>5. /\ thread'["service"] = Idle /\ thread'["task"] = [pc |-> pc, job |-> job]
      /\ thread' = [t \in Workers |-> thread'[t]]
  BY <1>2 DEF Workers
<1>6. Idle.pc = "idle" /\ Idle = [pc |-> Idle.pc, job |-> Idle.job] /\ IsJob(Idle.job)
  BY NoJobIs DEF Idle
<1>7. \A t \in Workers : thread'[t] = [pc |-> thread'[t].pc, job |-> thread'[t].job]
                         /\ IsJob(thread'[t].job)
  <2>1. thread'["service"] = [pc |-> thread'["service"].pc, job |-> thread'["service"].job]
        /\ IsJob(thread'["service"].job)
    BY <1>5, <1>6
  <2>2. thread'["task"] = [pc |-> thread'["task"].pc, job |-> thread'["task"].job]
        /\ IsJob(thread'["task"].job)
    BY <1>4, <1>5
  <2>3. QED BY <2>1, <2>2 DEF Workers
<1>8. IsThreads(thread')  BY <1>5, <1>7 DEF IsThreads
<1>9. QED BY <1>1, <1>3, <1>5, <1>6, <1>8 DEF HandingOver

LEMMA HandingOverKeeps ==
    ASSUME KernelInv, WorkersInv, HandingOver
    PROVE  KernelInv' /\ WorkersInv' /\ Listed' = Listed
<1>1. AllKept(procs, procs') /\ Ages(life, life')
  BY KeptItself, StayFades DEF KernelInv, HandingOver, Fades
<1>2. KernelInv' /\ Listed' = Listed  BY <1>1, UnmovedKeeps DEF HandingOver
<1>3. ASSUME NEW t \in Workers PROVE LaunchOK(thread'[t].pc, launch'[t])
  <2>1. LaunchOK(thread[t].pc, launch[t]) /\ launch' = launch  BY DEF WorkersInv, HandingOver
  <2>2. ~LoadsDep(thread[t].pc) /\ thread'[t].pc # "merge dependency"
    BY DEF HandingOver, LoadsDep, Workers
  <2>3. QED BY <2>1, <2>2, LaunchStays
<1>4. launch' = [t \in Workers |-> launch'[t]] /\ IsThreads(thread')
  BY DEF WorkersInv, HandingOver
<1>5. WorkersInv'  BY <1>3, <1>4 DEF WorkersInv
<1>6. QED BY <1>2, <1>5

Acknowledging ==
    /\ UNCHANGED <<procs, life, monitor, thread, launch>> /\ Served
    /\ \/ UNCHANGED <<list, freeList, runningApplicationData, debugData>>
       \/ \E n \in Listed :
            /\ Frees(n)
            /\ runningApplicationData' = IF runningApplicationData = n THEN Null
                                         ELSE runningApplicationData
            /\ debugData' = IF debugData = n THEN Null ELSE debugData

LEMMA UnregisterAcknowledges ==
    ASSUME KernelInv, NEW title, UnregisterProcess(title) PROVE Acknowledging
<1> DEFINE n == Find(title)
<1>1. UNCHANGED <<life, monitor, thread, launch>> /\ Served
  BY CommandServed DEF UnregisterProcess
<1>2. CASE n = Null
  <2>1. UNCHANGED <<procs, list, freeList, runningApplicationData, debugData>>
    BY <1>2 DEF UnregisterProcess, shared
  <2>2. QED BY <1>1, <2>1 DEF Acknowledging
<1>3. CASE n # Null
  <2>1. /\ procs' = procs /\ Frees(n)
        /\ runningApplicationData' = IF runningApplicationData = n THEN Null
                                     ELSE runningApplicationData
        /\ debugData' = IF debugData = n THEN Null ELSE debugData
    BY <1>3 DEF UnregisterProcess, Frees
  <2>2. n \in Listed  BY <1>3, FindIs DEF KernelInv
  <2> HIDE DEF n
  <2>3. QED BY <1>1, <2>1, <2>2 DEF Acknowledging
<1>4. QED BY <1>2, <1>3

LEMMA AcknowledgingKeeps ==
    ASSUME KernelInv, WorkersInv, Acknowledging
    PROVE  /\ KernelInv' /\ WorkersInv'
           /\ \/ UNCHANGED <<list, runningApplicationData, debugData>>
              \/ \E n \in Listed :
                   /\ Listed' = Listed \ {n}
                   /\ runningApplicationData' = IF runningApplicationData = n THEN Null
                                                ELSE runningApplicationData
                   /\ debugData' = IF debugData = n THEN Null ELSE debugData
<1>1. WorkersInv'  BY WorkersSame DEF Acknowledging
<1>2. /\ AreProcesses(procs') /\ life' = life /\ procs' = procs /\ AllKept(procs, procs')
      /\ Ages(life, life') /\ MonitorOK'
  <2>1. AllKept(procs, procs') /\ Ages(life, life')
    BY KeptItself, StayFades DEF KernelInv, Acknowledging, Fades
  <2>2. MonitorOK'  BY <2>1, MonitorWaits DEF KernelInv, Acknowledging
  <2>3. QED BY <2>1, <2>2 DEF KernelInv, Acknowledging
<1>3. CASE UNCHANGED <<list, freeList, runningApplicationData, debugData>>
  <2>1. KernelInv'  BY <1>2, <1>3, UnmovedKeeps DEF Unmoved, Acknowledging
  <2>2. QED BY <1>1, <1>3, <2>1
<1>4. ASSUME NEW n \in Listed, Frees(n),
             runningApplicationData' = IF runningApplicationData = n THEN Null
                                       ELSE runningApplicationData,
             debugData' = IF debugData = n THEN Null ELSE debugData
      PROVE  KernelInv' /\ Listed' = Listed \ {n}
  <2>1. PointersOK'  BY <1>4 DEF KernelInv, PointersOK, IsPointer
  <2>2. OnlyOne(n)  BY <1>2 DEF OnlyOne
  <2>3. QED BY <2>1, <2>2, <1>2, <1>4, FreesKeeps
<1>5. QED BY <1>1, <1>3, <1>4 DEF Acknowledging

Releasing ==
    /\ UNCHANGED <<list, freeList, monitor, thread, launch>> /\ Served
    /\ AllKept(procs, procs') /\ debugData # Null /\ debugData' = Null
    /\ \/ Fades(life, life') /\ runningApplicationData' = runningApplicationData
       \/ /\ procs' = procs /\ life[procs[debugData].pid] = "created"
          /\ life' = [life EXCEPT ![procs[debugData].pid] = "running"]
          /\ ~(IsApplication(procs[debugData]) /\ runningApplicationData # Null)
          /\ runningApplicationData' = IF IsApplication(procs[debugData]) THEN debugData
                                       ELSE runningApplicationData

LEMMA RunQueuedReleases == ASSUME KernelInv, RunQueuedProcess PROVE Releasing
<1> DEFINE n == debugData
           app == IsApplication(procs[n])
           runs == life[procs[n].pid] = "created"
<1>1. /\ UNCHANGED <<list, freeList, monitor, thread, launch>> /\ Served
      /\ n # Null /\ debugData' = Null /\ ~(app /\ runningApplicationData # Null)
  BY CommandServed DEF RunQueuedProcess, Offered, IsApplication
<1>2. /\ life' = IF runs THEN [life EXCEPT ![procs[n].pid] = "running"] ELSE Killed(PidsOf({n}))
      /\ procs' = IF runs THEN procs ELSE WithoutFlags(procs, n, {"notify"})
      /\ runningApplicationData' = IF runs /\ app THEN n ELSE runningApplicationData
  BY DEF RunQueuedProcess, IsApplication
<1>3. AllKept(procs, procs') /\ (~runs => Fades(life, life'))
  <2>1. AllKept(procs, procs) /\ AllKept(procs, WithoutFlags(procs, n, {"notify"}))
    BY KeptItself, WithoutFlagsKeeps DEF KernelInv
  <2>2. Fades(life, Killed(PidsOf({n})))  BY KilledFades DEF KernelInv
  <2>3. QED BY <2>1, <2>2, <1>2
<1>4. CASE runs  BY <1>1, <1>2, <1>3, <1>4 DEF Releasing
<1>5. CASE ~runs  BY <1>1, <1>2, <1>3, <1>5 DEF Releasing
<1>6. QED BY <1>4, <1>5

LEMMA ReleasingKeeps ==
    ASSUME KernelInv, WorkersInv, Releasing PROVE KernelInv' /\ WorkersInv' /\ Listed' = Listed
<1>1. WorkersInv'  BY WorkersSame DEF Releasing
<1>2. Ages(life, life')  BY RunAges DEF KernelInv, Releasing, Fades
<1>3. MonitorOK'  BY <1>2, MonitorWaits DEF KernelInv, Releasing
<1>4. PointersOK'  BY DEF KernelInv, PointersOK, IsPointer, Releasing
<1>5. KernelInv' /\ Listed' = Listed  BY <1>2, <1>3, <1>4, KeptRemain, CalmKeeps DEF Releasing, Calm
<1>6. QED BY <1>1, <1>5

Exits == Unmoved /\ UNCHANGED <<procs, thread, launch>> /\ Fades(life, life')
         /\ \A p \in Pids : life[p] = "created" => life'[p] = "created"

LEMMA ExitExits == ASSUME KernelInv, NEW p \in Pids, Exit(p) PROVE Exits
<1>1. Unmoved /\ UNCHANGED <<procs, thread, launch>> /\ life[p] = "running"
      /\ life' = [life EXCEPT ![p] = "dead"]
  BY DEF Exit, Unmoved, shared
<1>2. Fades(life, life')  BY <1>1, DiesFades DEF KernelInv
<1>3. \A q \in Pids : life[q] = "created" => life'[q] = "created"
  BY <1>1 DEF KernelInv, LifeOK
<1>4. QED BY <1>1, <1>2, <1>3 DEF Exits

LEMMA ExitsKeeps ==
    ASSUME KernelInv, WorkersInv, Exits PROVE KernelInv' /\ WorkersInv' /\ Listed' = Listed
<1>1. WorkersInv'  BY WorkersSame DEF Exits
<1>2. AllKept(procs, procs') /\ Ages(life, life')  BY KeptItself DEF KernelInv, Exits, Fades
<1>3. QED BY <1>1, <1>2, UnmovedKeeps DEF Exits

Resting == Unmoved /\ UNCHANGED <<procs, thread, launch, life>>
LEMMA RestingExits == ASSUME KernelInv, Resting PROVE Exits
BY StayFades DEF KernelInv, Resting, Exits

-----------------------------------------------------------------------------
(* Every step of pm is one of these.                                        *)
Launches(t) == Taking(t) \/ SettingUp(t) \/ Beginning(t)
Steps == \/ \E t \in Workers : Stepping(t) \/ Launches(t)
         \/ HandingOver \/ Acknowledging \/ Releasing \/ Exits
         \/ Watching \/ Clearing \/ \E n \in Listed : Retiring(n)

LEMMA LaunchingSteps ==
    ASSUME KernelInv, WorkersInv, NEW t \in Workers, Launching(t)
    PROVE  Stepping(t) \/ Launches(t)
<1>1. CASE Load(t)  BY <1>1, LoadTakes DEF Launches
<1>2. CASE SetUp(t)  BY <1>2, SetUpSets DEF Launches
<1>3. CASE Run(t)  BY <1>3, RunBegins DEF Launches
<1>4. CASE LaunchFound(t) \/ Relaunch(t) \/ Check(t)
  BY <1>4, LaunchFoundSteps, RelaunchSteps, CheckSteps
<1>5. CASE RegisterFails(t) \/ LoadFails(t) \/ SetUpFails(t) \/ LastDependencyFailed(t)
  BY <1>5, LoadFailSteps, FailSteps
<1>6. CASE MergeOwn(t) \/ NextDependency(t) \/ MergeDependency(t)
  BY <1>6, MergeOwnSteps, NextDependencySteps, MergeDependencySteps
<1>7. QED BY <1>1, <1>2, <1>3, <1>4, <1>5, <1>6 DEF Launching

LEMMA RequestSteps == ASSUME KernelInv, WorkersInv, Request PROVE Steps
<1>0. "service" \in Workers  BY DEF Workers
<1>1. CASE TerminationCommand
  <2>1. Stepping("service")  BY <1>1, TerminationCommandAsks, AskingSteps
  <2>2. QED BY <1>0, <2>1 DEF Steps
<1>2. CASE RunQueuedProcess  BY <1>2, RunQueuedReleases DEF Steps
<1>3. ASSUME NEW title \in Titles,
             LaunchTitle(title) \/ LaunchTitleUpdate(title) \/ LaunchAppDebug(title)
      PROVE  Steps
  <2>1. Stepping("service")  BY <1>3, LaunchTitleSteps, LaunchUpdateSteps
  <2>2. QED BY <1>0, <2>1 DEF Steps
<1>4. QED BY <1>1, <1>2, <1>3 DEF Request, LaunchCommand

LEMMA TerminationSteps == ASSUME KernelInv, WorkersInv, Termination PROVE Steps
<1>1. CASE HandOver  BY <1>1, HandOverSteps DEF Steps
<1>2. ASSUME NEW title \in Titles, UnregisterProcess(title) PROVE Steps
  BY <1>2, UnregisterAcknowledges DEF Steps
<1>3. ASSUME NEW t \in Workers, Terminating(t) PROVE Steps
  <2>1. Stepping(t)  BY <1>3, EndingStep, EndingSteps
  <2>2. QED BY <2>1 DEF Steps
<1>4. CASE Monitor  BY <1>4, MonitorStep DEF Steps
<1>5. ASSUME NEW p \in Pids, Exit(p) PROVE Steps  BY <1>5, ExitExits DEF Steps
<1>6. QED BY <1>1, <1>2, <1>3, <1>4, <1>5 DEF Termination

LEMMA NextSteps == ASSUME KernelInv, WorkersInv, [Next]_pmvars PROVE Steps
<1>1. CASE Request  BY <1>1, RequestSteps
<1>2. CASE Termination  BY <1>2, TerminationSteps
<1>3. ASSUME NEW t \in Workers, Launching(t) PROVE Steps  BY <1>3, LaunchingSteps DEF Steps
<1>4. CASE UNCHANGED vars
  <2>1. Resting  BY <1>4 DEF vars, shared, environment, Resting, Unmoved
  <2>2. QED BY <2>1, RestingExits DEF Steps
<1>5. CASE DebugNextApplicationByForce  BY <1>4, <1>5 DEF DebugNextApplicationByForce
<1>6. CASE UNCHANGED pmvars  BY <1>4, <1>6 DEF pmvars
<1>7. QED BY <1>1, <1>2, <1>3, <1>5, <1>6 DEF Next

LEMMA StepsKeep == ASSUME KernelInv, WorkersInv, Steps PROVE KernelInv' /\ WorkersInv'
<1>1. ASSUME NEW t \in Workers, Stepping(t) PROVE KernelInv' /\ WorkersInv'  BY <1>1, StepKeeps
<1>2. ASSUME NEW t \in Workers, Taking(t) PROVE KernelInv' /\ WorkersInv'
  BY <1>2, TakingWorkers DEF Taking
<1>3. ASSUME NEW t \in Workers, SettingUp(t) PROVE KernelInv' /\ WorkersInv'
  BY <1>3, SettingUpKeeps
<1>4. ASSUME NEW t \in Workers, Beginning(t) PROVE KernelInv' /\ WorkersInv'
  BY <1>4, BeginningKeeps
<1>5. CASE HandingOver  BY <1>5, HandingOverKeeps
<1>6. CASE Acknowledging  BY <1>6, AcknowledgingKeeps
<1>7. CASE Releasing  BY <1>7, ReleasingKeeps
<1>8. CASE Exits  BY <1>8, ExitsKeeps
<1>9. CASE Watching
  <2>1. WorkersInv'  BY <1>9, WorkersSame DEF Watching
  <2>2. QED BY <2>1, <1>9, WatchingKeeps
<1>10. CASE Clearing
  <2>1. WorkersInv'  BY <1>10, WorkersSame DEF Clearing
  <2>2. QED BY <2>1, <1>10, ClearingKeeps
<1>11. ASSUME NEW n \in Listed, Retiring(n) PROVE KernelInv' /\ WorkersInv'
  <2>1. WorkersInv'  BY <1>11, WorkersSame DEF Retiring
  <2>2. QED BY <2>1, <1>11, RetiringKeeps
<1>12. QED BY <1>1, <1>2, <1>3, <1>4, <1>5, <1>6, <1>7, <1>8, <1>9, <1>10, <1>11
          DEF Steps, Launches

-----------------------------------------------------------------------------
(* At first pm has the built-in modules, in the order they were registered. *)
LEMMA StartingIs ==
    /\ Len(Starting) \in Nat /\ Len(Starting) <= NbNodes /\ Len(Starting) <= MaxPid
    /\ \A n \in 1 .. Len(Starting) : Starting[n] \in Titles
<1> DEFINE m == Cardinality(Kips)
<1>1. m \in Nat /\ m <= NbNodes /\ m <= MaxPid /\ IsFiniteSet(Kips) /\ Kips \subseteq Titles
  BY ProcessesAssumption, FS_CardinalityType
<1>2. \E f \in [1 .. m -> Kips] : IsInjective(f)
  <2>1. ExistsBijection(1 .. m, Kips)  BY <1>1, FS_CardinalityType
  <2>2. QED BY <2>1 DEF ExistsBijection, Bijection, Injection
<1>3. Starting \in [1 .. m -> Kips]  BY <1>2 DEF Starting, SetToSeq
<1> HIDE DEF m
<1>4. Len(Starting) = m  BY <1>1, <1>3, LenIs
<1>5. QED BY <1>1, <1>3, <1>4

LEMMA InitKernel == PMInit => KernelInv /\ WorkersInv
<1> SUFFICES ASSUME PMInit PROVE KernelInv /\ WorkersInv
  OBVIOUS
<1> DEFINE m == Len(Starting)
           first(n) == [pid |-> n, title |-> Starting[n], flags |-> {"kip"},
                        status |-> "running", refcount |-> 1]
<1>0. NbNodes \in Nat /\ MaxPid \in Nat  BY ProcessesAssumption
<1>1. m \in Nat /\ m <= NbNodes /\ m <= MaxPid /\ \A n \in 1 .. m : Starting[n] \in Titles
  BY StartingIs
<1>2. /\ procs = [n \in Nodes |-> IF n > m THEN Blank ELSE first(n)]
      /\ list = [i \in 1 .. m |-> i] /\ freeList = [i \in 1 .. NbNodes - m |-> m + i]
      /\ life = [p \in Pids |-> IF p <= m THEN "running" ELSE "none"]
  BY DEF PMInit
<1> HIDE DEF m, first
<1>3. AreProcesses(procs)
  <2>1. IsProcess(Blank)
    <3>1. /\ Blank = [pid |-> Blank.pid, title |-> Blank.title, flags |-> Blank.flags,
                      status |-> Blank.status, refcount |-> Blank.refcount]
          /\ Blank.pid = 0 /\ Blank.title = "none" /\ Blank.status = "running"
          /\ Blank.refcount = 0
      BY DEF Blank
    <3>2. QED BY <3>1 DEF IsProcess, Statuses
  <2>2. ASSUME NEW n \in Nodes, ~(n > m) PROVE IsProcess(first(n))
    <3>1. n \in 1 .. m /\ n \in Pids  BY <2>2, <1>0, <1>1 DEF Nodes, Pids
    <3>2. /\ first(n) = [pid |-> first(n).pid, title |-> first(n).title,
                         flags |-> first(n).flags, status |-> first(n).status,
                         refcount |-> first(n).refcount]
          /\ first(n).pid = n /\ first(n).title = Starting[n] /\ first(n).status = "running"
          /\ first(n).refcount = 1
      BY DEF first
    <3>3. QED BY <3>1, <3>2, <1>1 DEF IsProcess, Statuses
  <2>3. \A n \in Nodes : procs[n] = IF n > m THEN Blank ELSE first(n)  BY <1>2
  <2>4. \A n \in Nodes : IsProcess(procs[n])  BY <2>1, <2>2, <2>3
  <2>5. procs = [n \in Nodes |-> procs[n]]  BY <1>2
  <2>6. QED BY <2>4, <2>5 DEF AreProcesses
<1>4. Row(list) /\ \A n : n \in ToSet(list) <=> n \in 1 .. m
  <2>1. list \in [1 .. m -> Nodes]  BY <1>0, <1>1, <1>2 DEF Nodes
  <2>2. list \in Seq(Nodes) /\ Len(list) = m  BY <2>1, <1>1, LenIs
  <2>3. \A i \in 1 .. m : list[i] = i  BY <1>2
  <2>4. Row(list)  BY <2>2, <2>3 DEF Row
  <2>5. \A n : n \in ToSet(list) <=> \E k \in 1 .. m : list[k] = n  BY <2>2, <2>4, RowFacts
  <2>6. QED BY <2>3, <2>4, <2>5
<1>5. Row(freeList) /\ \A n : n \in ToSet(freeList) <=> n \in m + 1 .. NbNodes
  <2>1. NbNodes - m \in Nat /\ \A i \in 1 .. NbNodes - m : m + i \in Nodes
    BY <1>0, <1>1 DEF Nodes
  <2>2. freeList \in [1 .. NbNodes - m -> Nodes]  BY <2>1, <1>2
  <2>3. freeList \in Seq(Nodes) /\ Len(freeList) = NbNodes - m  BY <2>1, <2>2, LenIs
  <2>4. \A i \in 1 .. NbNodes - m : freeList[i] = m + i  BY <1>2
  <2>5. Row(freeList)
    <3>1. \A i, k \in 1 .. NbNodes - m : m + i = m + k => i = k  BY <1>1, <2>1
    <3>2. QED BY <2>3, <2>4, <3>1 DEF Row
  <2>6. ASSUME NEW n PROVE n \in ToSet(freeList) <=> n \in m + 1 .. NbNodes
    <3>1. n \in ToSet(freeList) <=> \E i \in 1 .. NbNodes - m : m + i = n
      BY <2>3, <2>4, <2>5, RowFacts
    <3>2. ASSUME n \in m + 1 .. NbNodes PROVE n - m \in 1 .. NbNodes - m /\ m + (n - m) = n
      BY <3>2, <1>0, <1>1
    <3>3. \A i \in 1 .. NbNodes - m : m + i \in m + 1 .. NbNodes  BY <1>0, <1>1
    <3>4. QED BY <3>1, <3>2, <3>3
  <2>7. QED BY <2>5, <2>6
<1>6. ListsOK
  <2>1. \A n : n \in Nodes <=> n \in 1 .. m \/ n \in m + 1 .. NbNodes
    BY <1>0, <1>1 DEF Nodes
  <2>2. \A n \in 1 .. m : n \notin m + 1 .. NbNodes  BY <1>0, <1>1
  <2>3. ToSet(list) \cap ToSet(freeList) = {}  BY <1>4, <1>5, <2>2
  <2>4. ToSet(list) \cup ToSet(freeList) = Nodes  BY <1>4, <1>5, <2>1
  <2>5. QED BY <1>4, <1>5, <2>3, <2>4 DEF ListsOK
<1>7. PointersOK  BY DEF PMInit, PointersOK, IsPointer
<1>8. LifeOK
  <2>1. m \in 0 .. MaxPid  BY <1>0, <1>1
  <2>2. life \in [Pids -> Lives] /\ \A p \in Pids : life[p] # "none" <=> p <= m
    BY <1>2 DEF Lives
  <2>3. QED BY <2>1, <2>2 DEF LifeOK
<1>9. PidsOK
  <2>1. \A n \in Listed : n \in 1 .. m  BY <1>4 DEF Listed
  <2>2. \A n \in 1 .. m : n \in Nodes /\ n \in Pids /\ ~(n > m) /\ n <= m
    BY <1>0, <1>1 DEF Nodes, Pids
  <2>3. \A n \in Listed : procs[n].pid = n /\ procs[n].status = "running"
    BY <2>1, <2>2, <1>2 DEF first
  <2>4. \A n \in Listed : n \in Pids /\ life[n] = "running"  BY <2>1, <2>2, <1>2
  <2>5. QED BY <2>3, <2>4 DEF PidsOK
<1>10. MonitorOK
  <2>1. monitor = [pc |-> "rebuild", handles |-> {}, terminating |-> FALSE, process |-> Blank]
    BY DEF PMInit
  <2>2. QED BY <2>1 DEF MonitorOK, IsMonitor, Cleans
<1>11. WorkersInv
  <2>1. thread = [t \in Workers |-> Idle] /\ launch = [t \in Workers |-> NoLaunch]
    BY DEF PMInit
  <2>2. Idle.pc = "idle" /\ Idle = [pc |-> Idle.pc, job |-> Idle.job] /\ IsJob(Idle.job)
    BY NoJobIs DEF Idle
  <2>3. IsThreads(thread)  BY <2>1, <2>2 DEF IsThreads
  <2>4. QED BY <2>1, <2>2, <2>3, NoLaunchIs DEF WorkersInv
<1>12. QED BY <1>3, <1>6, <1>7, <1>8, <1>9, <1>10, <1>11 DEF KernelInv

LEMMA KernelTypes == KernelInv => PMTypeOK
<1> SUFFICES ASSUME KernelInv PROVE PMTypeOK
  OBVIOUS
<1>1. \A n \in Nodes : /\ procs[n].pid \in Pids \cup {0}
                       /\ procs[n].title \in Titles \cup {"none"}
                       /\ procs[n].status \in {"running", "notified", "failed", "terminated"}
                       /\ procs[n].refcount \in 0 .. 255
  BY DEF KernelInv, AreProcesses, IsProcess, Statuses
<1>2. Row(list \o freeList) /\ ToSet(list \o freeList) = Nodes
  BY ConcatRow DEF KernelInv, ListsOK
<1>3. IsInjective(list \o freeList)
  <2> DEFINE w == list \o freeList
  <2>1. Row(w)  BY <1>2
  <2> HIDE DEF w
  <2>2. DOMAIN w = 1 .. Len(w)  BY <2>1, RowFacts
  <2>3. IsInjective(w)  BY <2>1, <2>2 DEF Row, IsInjective
  <2>4. QED BY <2>3 DEF w
<1>4. runningApplicationData \in Nodes \cup {Null} /\ debugData \in Nodes \cup {Null}
  BY DEF KernelInv, PointersOK, IsPointer
<1>5. \A n \in Listed : procs[n].status = "terminated" => ~Alive(n)
  BY DEF KernelInv, PidsOK, Alive
<1>6. QED BY <1>1, <1>2, <1>3, <1>4, <1>5 DEF PMTypeOK

(* Types are kept, every node is on one of the two lists, once, and a       *)
(* process marked as ended has ended, whatever the clients do.              *)
THEOREM KernelTheorem == Spec => [](KernelInv /\ WorkersInv)
<1>1. Init => KernelInv /\ WorkersInv  BY InitKernel DEF Init
<1>2. KernelInv /\ WorkersInv /\ [Next]_pmvars => (KernelInv /\ WorkersInv)'
  <2> SUFFICES ASSUME KernelInv, WorkersInv, [Next]_pmvars PROVE KernelInv' /\ WorkersInv'
    OBVIOUS
  <2>1. Steps  BY NextSteps
  <2>2. QED BY <2>1, StepsKeep
<1>3. QED BY <1>1, <1>2, PTL DEF Spec

(* The types of pm's state, for every list of modules and every client.     *)
THEOREM PMTypes == Spec => []PMTypeOK
BY KernelTheorem, KernelTypes, PTL

-----------------------------------------------------------------------------
(***************************************************************************)
(* When the clients wait for pm, its two threads are never both at work,   *)
(* and what a launch relies on holds until it is done.                     *)
(***************************************************************************)
LEMMA OtherIdle ==
    ASSUME WorkInv, NEW t \in Workers, thread[t].pc # "idle", NEW u \in Workers \ {t}
    PROVE  thread[u].pc = "idle"
BY DEF WorkInv, OneWorker, Workers

(* An idle thread has no launch, whatever the others do.                    *)
LEMMA IdleWorks ==
    ASSUME WorkersInv, NEW u \in Workers, WorkAt(u), Free(thread[u].pc),
           ~Holds(thread'[u].pc), launch'[u] = launch[u]
    PROVE  WorkAt(u)'
<1>1. launch[u].node = Null /\ launch[u].dep = "none"
  BY NoWorkIs DEF WorkAt, WorkersInv, Free
<1>2. QED BY <1>1, NoWork DEF WorkAt

(* Steps of the monitor, of programs and of NS: the launches see no more    *)
(* than an application that goes away.                                      *)
LEMMA WorkersWatch ==
    ASSUME WorkInv, thread' = thread, launch' = launch,
           Fresh \subseteq Fresh', Applications' = Applications,
           runningApplicationData' = runningApplicationData \/ runningApplicationData' = Null
    PROVE  OneWorker' /\ \A t \in Workers : WorkAt(t)'
<1>1. OneWorker'  BY DEF WorkInv, OneWorker
<1>2. ASSUME NEW t \in Workers PROVE WorkAt(t)'
  <2>1. WorkAt(t)  BY DEF WorkInv
  <2>2. WorkOK(thread[t].pc, thread[t].job, launch[t], Fresh', Applications,
               runningApplicationData')
    BY <2>1, WorkStays DEF WorkAt
  <2>3. QED BY <2>2 DEF WorkAt
<1>3. QED BY <1>1, <1>2

(* The pointers stay listed when the list and the monitor do.               *)
LEMMA PointersStay ==
    ASSUME KernelInv, PointersListed, \A n \in Nodes : procs'[n].pid = procs[n].pid,
           Listed \subseteq Listed', monitor' = monitor,
           NEW S, S = {runningApplicationData, debugData},
           runningApplicationData' \in S \cup Listed \cup {Null},
           debugData' \in S \cup Listed \cup {Null}
    PROVE  PointersListed'
<1>1. \A n \in S \ {Null} : n \in Nodes /\ (n \in Listed \/ Cleaning(n))
  BY DEF KernelInv, PointersOK, IsPointer, PointersListed
<1>2. \A n \in Nodes : Cleaning(n)' <=> Cleaning(n)  BY DEF Cleaning
<1>3. \A n \in (S \cup Listed) \ {Null} : n \in Listed' \/ Cleaning(n)'
  BY <1>1, <1>2
<1>4. QED BY <1>3 DEF PointersListed

LEMMA HandingOverWorks ==
    ASSUME KernelInv, WorkersInv, WorkInv, HandingOver PROVE WorkInv'
<1>1. KernelInv' /\ WorkersInv' /\ Listed' = Listed  BY HandingOverKeeps
<1>2. AllKept(procs, procs')  BY KeptItself DEF KernelInv, HandingOver
<1>3. Fades(life, life')  BY StayFades DEF KernelInv, HandingOver
<1>4. ASSUME NEW t \in Workers PROVE WorkAt(t)'
  <2>1. Free(thread[t].pc) /\ ~Holds(thread'[t].pc)
    BY DEF HandingOver, Workers, Free, Holds
  <2>2. WorkAt(t) /\ launch'[t] = launch[t]  BY DEF WorkInv, HandingOver
  <2>3. QED BY <2>1, <2>2, IdleWorks
<1>5. OneWorker'  BY DEF HandingOver, OneWorker
<1>6. AppOK'
  <2>1. Running' \subseteq Running /\ Applications' = Applications
    BY <1>1, <1>2, <1>3, KeptSame, RunningFades, ApplicationsSame
  <2>2. QED BY <2>1 DEF WorkInv, AppOK, HandingOver, Unmoved
<1>7. PointersListed'
  <2>1. PointersListed /\ procs' = procs /\ monitor' = monitor
        /\ runningApplicationData' = runningApplicationData /\ debugData' = debugData
    BY DEF WorkInv, HandingOver, Unmoved
  <2>2. QED BY <2>1, <1>1, PointersStay
<1>8. QED BY <1>4, <1>5, <1>6, <1>7 DEF WorkInv

LEMMA ExitsWorks ==
    ASSUME KernelInv, WorkersInv, WorkInv, Exits PROVE WorkInv'
<1>1. KernelInv' /\ WorkersInv' /\ Listed' = Listed  BY ExitsKeeps
<1>2. AllKept(procs, procs')  BY KeptItself DEF KernelInv, Exits
<1>3. Running' \subseteq Running /\ Applications' = Applications
  BY <1>1, <1>2, KeptSame, RunningFades, ApplicationsSame DEF Exits
<1>4. /\ UNCHANGED <<procs, thread, launch, runningApplicationData, debugData, monitor>>
  BY DEF Exits, Unmoved
<1>5. Fresh \subseteq Fresh'
  <2>1. \A n \in Listed : procs[n].pid \in Pids  BY DEF KernelInv, PidsOK
  <2>2. QED BY <2>1, <1>1, <1>4 DEF Fresh, Exits
<1>6. OneWorker' /\ \A t \in Workers : WorkAt(t)'  BY <1>3, <1>4, <1>5, WorkersWatch
<1>7. AppOK'  BY <1>3, <1>4 DEF WorkInv, AppOK
<1>8. PointersListed'  BY <1>1, <1>4, PointersStay DEF WorkInv
<1>9. QED BY <1>6, <1>7, <1>8 DEF WorkInv

LEMMA WatchingWorks ==
    ASSUME KernelInv, WorkersInv, WorkInv, Watching PROVE WorkInv'
<1>1. KernelInv' /\ Listed' = Listed  BY WatchingKeeps
<1>2. AllSame  BY KeptSame DEF Watching
<1>3. UNCHANGED <<thread, launch, runningApplicationData, debugData, life>>  BY DEF Watching
<1>4. Fresh' = Fresh /\ Applications' = Applications /\ Running' \subseteq Running
  BY <1>1, <1>2, <1>3, FreshStay, ApplicationsSame, RunningFades, StayFades DEF KernelInv
<1>5. OneWorker' /\ \A t \in Workers : WorkAt(t)'  BY <1>3, <1>4, WorkersWatch
<1>6. AppOK'  BY <1>3, <1>4 DEF WorkInv, AppOK
<1>7. PointersListed'
  <2>1. \A n \in Nodes : procs'[n].pid = procs[n].pid  BY <1>2 DEF AllSame, SameProcess
  <2>2. \A n \in Nodes : Cleaning(n) => Cleaning(n)'  BY <2>1 DEF Watching, Cleaning, Cleared
  <2>3. \A n \in {runningApplicationData, debugData} \ {Null} : n \in Nodes
    BY DEF KernelInv, PointersOK, IsPointer
  <2>4. QED BY <2>2, <2>3, <1>1, <1>3 DEF WorkInv, PointersListed
<1>8. QED BY <1>5, <1>6, <1>7 DEF WorkInv

LEMMA ClearingWorks ==
    ASSUME KernelInv, WorkersInv, WorkInv, Clearing PROVE WorkInv'
<1>1. KernelInv' /\ Listed' = Listed  BY ClearingKeeps
<1>2. UNCHANGED <<procs, thread, launch, life>>  BY DEF Clearing
<1>3. AllSame  BY <1>2 DEF AllSame, SameProcess
<1>4. Fresh' = Fresh /\ Applications' = Applications /\ Running' \subseteq Running
  BY <1>1, <1>2, <1>3, FreshStay, ApplicationsSame, RunningFades, StayFades DEF KernelInv
<1>5. runningApplicationData' = runningApplicationData \/ runningApplicationData' = Null
  BY DEF Clearing
<1>6. OneWorker' /\ \A t \in Workers : WorkAt(t)'  BY <1>2, <1>4, <1>5, WorkersWatch
<1>7. IsDead(monitor.process.pid)  BY DEF KernelInv, MonitorOK, Clearing, Cleans
<1>8. AppOK'
  <2>1. ASSUME NEW n \in Running, n \in Applications PROVE n = runningApplicationData'
    <3>1. n = runningApplicationData /\ life[procs[n].pid] = "running"
      BY <2>1 DEF WorkInv, AppOK, Running
    <3>2. ~IsMonitored(n)  BY <3>1, <1>7 DEF IsMonitored, IsDead
    <3>3. QED BY <3>1, <3>2 DEF Clearing
  <2>2. QED BY <2>1, <1>4 DEF AppOK
<1>9. PointersListed'
  <2>1. ASSUME NEW n \in {runningApplicationData', debugData'} \ {Null} PROVE n \in Listed'
    <3>1. n \in {runningApplicationData, debugData} \ {Null} /\ ~IsMonitored(n)
      BY <2>1 DEF Clearing
    <3>2. n \in Listed \/ Cleaning(n)  BY <3>1 DEF WorkInv, PointersListed
    <3>3. ~Cleaning(n)  BY <3>1 DEF IsMonitored, Cleaning
    <3>4. QED BY <3>2, <3>3, <1>1
  <2>2. QED BY <2>1 DEF PointersListed
<1>10. QED BY <1>6, <1>8, <1>9 DEF WorkInv

LEMMA RetiringWorks ==
    ASSUME KernelInv, WorkersInv, WorkInv, NEW n \in Listed, Retiring(n) PROVE WorkInv'
<1>1. /\ KernelInv' /\ Listed \ {n} \subseteq Listed' /\ Listed' \subseteq Listed /\ AllSame
  BY RetiringKeeps DEF AllSame
<1>2. UNCHANGED <<thread, launch, runningApplicationData, debugData, life>>
      /\ life[procs[n].pid] = "dead"
  BY DEF Retiring, IsDead
<1>3. Applications' = Applications /\ Running' \subseteq Running
  BY <1>1, <1>2, ApplicationsSame, RunningFades, StayFades DEF KernelInv
<1>a. \A m \in Nodes : procs'[m].pid = procs[m].pid  BY <1>1 DEF AllSame, SameProcess
<1>4. Fresh \subseteq Fresh'
  <2>1. ASSUME NEW m \in Fresh PROVE m \in Fresh'
    <3>1. m \in Listed /\ m # n /\ life[procs[m].pid] = "created"  BY <1>2 DEF Fresh
    <3>2. m \in Nodes  BY <3>1, ListedNodes DEF KernelInv
    <3>3. m \in Listed' /\ procs'[m].pid = procs[m].pid  BY <3>1, <3>2, <1>1, <1>a
    <3>4. QED BY <3>1, <3>3, <1>2 DEF Fresh
  <2>2. QED BY <2>1
<1>5. OneWorker' /\ \A t \in Workers : WorkAt(t)'  BY <1>2, <1>3, <1>4, WorkersWatch
<1>6. AppOK'  BY <1>2, <1>3 DEF WorkInv, AppOK
<1>7. PointersListed'
  <2>1. ASSUME NEW m \in {runningApplicationData, debugData} \ {Null}
        PROVE  m \in Listed' \/ Cleaning(m)'
    <3>1. m \in Nodes /\ procs'[m].pid = procs[m].pid
      BY <1>a DEF KernelInv, PointersOK, IsPointer
    <3>2. m \in Listed  BY DEF WorkInv, PointersListed, Cleaning, Retiring, Cleared
    <3>3. CASE m = n  BY <3>1, <3>3 DEF Retiring, Cleared, Cleaning
    <3>4. CASE m # n  BY <3>2, <3>4, <1>1
    <3>5. QED BY <3>3, <3>4
  <2>2. QED BY <2>1, <1>2 DEF PointersListed
<1>8. QED BY <1>5, <1>6, <1>7 DEF WorkInv

LEMMA ServedWorks ==
    ASSUME Patient, WorkersInv, WorkInv, Served, thread' = thread, launch' = launch
    PROVE  OneWorker' /\ \A t \in Workers : WorkAt(t)'
<1>1. ASSUME NEW t \in Workers PROVE WorkAt(t)'
  <2>1. thread[t].pc = "idle" /\ thread'[t].pc = "idle"  BY DEF Served, Workers
  <2>2. Free(thread[t].pc) /\ ~Holds(thread'[t].pc)  BY <2>1 DEF Free, Holds
  <2>3. WorkAt(t) /\ launch'[t] = launch[t]  BY DEF WorkInv
  <2>4. QED BY <2>2, <2>3, IdleWorks
<1>2. OneWorker'  BY DEF WorkInv, OneWorker
<1>3. QED BY <1>1, <1>2

LEMMA AcknowledgingWorks ==
    ASSUME Patient, KernelInv, WorkersInv, WorkInv, Acknowledging PROVE WorkInv'
<1>1. UNCHANGED <<procs, life, monitor, thread, launch>> /\ Served  BY DEF Acknowledging
<1>2. OneWorker' /\ \A t \in Workers : WorkAt(t)'  BY <1>1, ServedWorks
<1>3. Applications' = Applications /\ \A n : Cleaning(n)' <=> Cleaning(n)
  BY <1>1 DEF Applications, Cleaning
<1>4. CASE UNCHANGED <<list, runningApplicationData, debugData>>
  <2>1. Listed' = Listed  BY <1>4 DEF Listed
  <2>2. Running' = Running  BY <2>1, <1>1 DEF Running
  <2>3. AppOK'  BY <2>2, <1>3, <1>4 DEF WorkInv, AppOK
  <2>4. PointersListed'  BY <2>1, <1>3, <1>4 DEF WorkInv, PointersListed
  <2>5. QED BY <1>2, <2>3, <2>4 DEF WorkInv
<1>5. ASSUME NEW n \in Listed, Listed' = Listed \ {n},
             runningApplicationData' = IF runningApplicationData = n THEN Null
                                       ELSE runningApplicationData,
             debugData' = IF debugData = n THEN Null ELSE debugData
      PROVE  WorkInv'
  <2>1. Running' = Running \ {n}  BY <1>1, <1>5 DEF Running
  <2>2. AppOK'  BY <2>1, <1>3, <1>5 DEF WorkInv, AppOK
  <2>3. PointersListed'
    <3>1. ASSUME NEW m \in {runningApplicationData', debugData'} \ {Null}
          PROVE  m \in Listed' \/ Cleaning(m)'
      <4>1. m \in {runningApplicationData, debugData} \ {Null} /\ m # n
        BY <3>1, <1>5
      <4>2. m \in Listed \/ Cleaning(m)  BY <4>1 DEF WorkInv, PointersListed
      <4>3. QED BY <4>1, <4>2, <1>3, <1>5
    <3>2. QED BY <3>1 DEF PointersListed
  <2>4. QED BY <1>2, <2>2, <2>3 DEF WorkInv
<1>6. QED BY <1>4, <1>5, AcknowledgingKeeps

(* What runs after one more process does.                                   *)
LEMMA RunsOne ==
    ASSUME KernelInv, Listed' = Listed, AllSame, NEW n \in Listed,
           life' = [life EXCEPT ![procs[n].pid] = "running"]
    PROVE  Running' = Running \cup {n} /\ Fresh' = Fresh \ {n}
<1>1. \A m \in Listed : procs[m].pid \in Pids /\ (procs[m].pid = procs[n].pid => m = n)
  BY DEF KernelInv, PidsOK
<1>2. \A m \in Listed : procs'[m].pid = procs[m].pid
  BY ListedNodes DEF KernelInv, AllSame, SameProcess
<1>3. /\ life'[procs[n].pid] = "running"
      /\ \A p \in Pids \ {procs[n].pid} : life'[p] = life[p]
  BY <1>1 DEF KernelInv, LifeOK
<1>4. \A m \in Listed \ {n} : life'[procs'[m].pid] = life[procs[m].pid]
  BY <1>1, <1>2, <1>3
<1>5. life'[procs'[n].pid] = "running"  BY <1>2, <1>3
<1>6. \A m : m \in Running' <=> m \in Running \cup {n}  BY <1>4, <1>5 DEF Running
<1>7. \A m : m \in Fresh' <=> m \in Fresh \ {n}  BY <1>4, <1>5 DEF Fresh
<1>8. QED BY <1>6, <1>7

LEMMA ReleasingWorks ==
    ASSUME Patient, KernelInv, WorkersInv, WorkInv, Releasing PROVE WorkInv'
<1> DEFINE n == debugData
<1>1. UNCHANGED <<list, monitor, thread, launch>> /\ Served /\ n # Null /\ debugData' = Null
  BY DEF Releasing
<1>2. OneWorker' /\ \A t \in Workers : WorkAt(t)'  BY <1>1, ServedWorks
<1>3. KernelInv' /\ Listed' = Listed  BY ReleasingKeeps
<1>4. AllSame /\ Applications' = Applications
  BY KeptSame, ApplicationsSame DEF Releasing
<1>5. PointersListed'
  <2>1. \A m \in Nodes : procs'[m].pid = procs[m].pid  BY <1>4 DEF AllSame, SameProcess
  <2>2. runningApplicationData' \in {runningApplicationData, debugData}  BY DEF Releasing
  <2>3. QED BY <1>1, <1>3, <2>1, <2>2, PointersStay DEF WorkInv
<1>6. CASE Fades(life, life') /\ runningApplicationData' = runningApplicationData
  <2>1. Running' \subseteq Running  BY <1>3, <1>4, <1>6, RunningFades
  <2>2. AppOK'  BY <2>1, <1>4, <1>6 DEF WorkInv, AppOK
  <2>3. QED BY <1>2, <1>5, <2>2 DEF WorkInv
<1>7. ASSUME life[procs[n].pid] = "created",
             life' = [life EXCEPT ![procs[n].pid] = "running"],
             ~(IsApplication(procs[n]) /\ runningApplicationData # Null),
             runningApplicationData' = IF IsApplication(procs[n]) THEN n
                                       ELSE runningApplicationData
      PROVE  WorkInv'
  <2>1. n \in Nodes /\ n \in Listed
    <3>1. n \in Nodes /\ (n \in Listed \/ Cleaning(n))
      BY <1>1 DEF KernelInv, PointersOK, IsPointer, WorkInv, PointersListed
    <3>2. Cleaning(n) => life[procs[n].pid] = "dead"
      BY DEF Cleaning, KernelInv, MonitorOK, Cleans, IsDead
    <3>3. QED BY <3>1, <3>2, <1>7
  <2>2. Running' = Running \cup {n}  BY <1>3, <1>4, <1>7, <2>1, RunsOne
  <2>3. n \in Applications <=> IsApplication(procs[n])  BY <2>1 DEF Applications
  <2>4. AppOK'
    <3>1. ASSUME NEW m \in Running \cup {n}, m \in Applications PROVE m = runningApplicationData'
      <4>1. CASE m = n  BY <4>1, <3>1, <2>3, <1>7
      <4>2. CASE m # n
        <5>1. m = runningApplicationData /\ m \in Nodes
          BY <4>2, <3>1 DEF WorkInv, AppOK, Applications
        <5>2. m # Null  BY <5>1 DEF Nodes, Null
        <5>3. QED BY <5>1, <5>2, <1>7
      <4>3. QED BY <4>1, <4>2
    <3>2. QED BY <3>1, <2>2, <1>4 DEF AppOK
  <2>5. QED BY <1>2, <1>5, <2>4 DEF WorkInv
<1>8. QED BY <1>6, <1>7 DEF Releasing

(* The three steps of a launch that change what it relies on.               *)
LEMMA AtWork ==
    ASSUME WorkersInv, WorkInv, NEW t \in Workers, thread[t].pc # "idle", WorkAt(t)',
           \A u \in Workers \ {t} : thread'[u] = thread[u] /\ launch'[u] = launch[u]
    PROVE  OneWorker' /\ \A u \in Workers : WorkAt(u)'
<1>1. ASSUME NEW u \in Workers \ {t} PROVE thread[u].pc = "idle" /\ thread'[u] = thread[u]
  BY OtherIdle
<1>2. OneWorker'
  <2>1. CASE t = "task"  BY <2>1, <1>1 DEF OneWorker, Workers
  <2>2. CASE t = "service"  BY <2>2, <1>1 DEF OneWorker, Workers
  <2>3. QED BY <2>1, <2>2 DEF Workers
<1>3. ASSUME NEW u \in Workers, u # t PROVE WorkAt(u)'
  <2>1. thread[u].pc = "idle" /\ thread'[u].pc = "idle"  BY <1>1, <1>3
  <2>2. Free(thread[u].pc) /\ ~Holds(thread'[u].pc)  BY <2>1 DEF Free, Holds
  <2>3. WorkAt(u) /\ launch'[u] = launch[u]  BY <1>3 DEF WorkInv
  <2>4. QED BY <2>2, <2>3, IdleWorks
<1>4. QED BY <1>2, <1>3

LEMMA OthersStay ==
    ASSUME WorkersInv, NEW t \in Workers, NEW l, SetsLaunch(t, l), Moved(thread, thread', t)
    PROVE  \A u \in Workers \ {t} : thread'[u] = thread[u] /\ launch'[u] = launch[u]
BY DEF SetsLaunch, Moved

LEMMA TakenWork ==
    ASSUME NEW l, IsLaunch(l), NEW n, n # Null, IsPointer(n), NEW job, NEW fresh, NEW apps, NEW app,
           WorkOK("load", job, l, fresh, apps, app),
           NEW fresh2, fresh \subseteq fresh2, n \in fresh2 \ fresh, NEW apps2, n \notin apps2
    PROVE  WorkOK("set up", job, Held(l, n), fresh2, apps2, app)
<1> DEFINE k == Held(l, n)
<1>1. /\ k.dep = l.dep /\ (l.dep # "none" => k.node = l.node /\ k.depNode = n)
      /\ (l.dep = "none" => k.node = n)
  BY HeldIs
<1> HIDE DEF k
<1>2. Holds("load") /\ Holds("set up") /\ Ready("set up") /\ ~Merges("set up")
  BY DEF Holds, Ready, Merges
<1>3. /\ l.node # Null => l.node \in fresh
      /\ l.dep # "none" => l.node # Null /\ job.title \in Apps
      /\ job.title \in Apps => app = Null
  BY <1>2 DEF WorkOK
<1>4. HeldBy(k) = n  BY <1>1 DEF HeldBy
<1>5. QED BY <1>1, <1>2, <1>3, <1>4 DEF WorkOK, k

LEMMA TakingWorks ==
    ASSUME KernelInv, WorkersInv, WorkInv, NEW t \in Workers, Taking(t) PROVE WorkInv'
<1> DEFINE n == NewNode
           l == launch[t]
<1>1. /\ Listed' = Listed \cup {n} /\ n \in Nodes \ Listed
      /\ procs'[n].flags = {} /\ life'[procs'[n].pid] = "created"
      /\ \A m \in Nodes \ {n} : procs'[m] = procs[m]
      /\ UNCHANGED <<runningApplicationData, debugData, monitor>>
  BY DEF Taking
<1>2. n # Null /\ IsPointer(n) /\ Listed \subseteq Nodes
  BY <1>1, ListedNodes DEF IsPointer, Nodes, Null, KernelInv
<1>3. \A m \in Listed : procs'[m] = procs[m] /\ life'[procs[m].pid] = life[procs[m].pid]
  BY DEF Taking, KernelInv, PidsOK
<1>4. launch'[t] = Held(l, n) /\ thread'[t].pc = "set up" /\ thread'[t].job = thread[t].job
      /\ thread[t].pc = "load"
  BY LaunchSet DEF Taking
<1>5. \A u \in Workers \ {t} : thread'[u] = thread[u] /\ launch'[u] = launch[u]
  BY OthersStay DEF Taking
<1> HIDE DEF n
<1>6. Fresh' = Fresh \cup {n} /\ Running' = Running /\ n \notin Fresh
  <2>1. \A m : m \in Fresh' <=> m \in Fresh \cup {n}  BY <1>1, <1>3 DEF Fresh
  <2>2. \A m : m \in Running' <=> m \in Running  BY <1>1, <1>3 DEF Running
  <2>3. QED BY <2>1, <2>2, <1>1 DEF Fresh
<1>7. n \notin Applications' /\ \A m \in Listed : m \in Applications' <=> m \in Applications
  BY <1>1, <1>3 DEF Applications, IsApplication
<1>8. WorkAt(t)'
  <2>1. WorkOK("load", thread[t].job, l, Fresh, Applications, runningApplicationData)
    BY <1>4 DEF WorkInv, WorkAt
  <2>2. IsLaunch(l)  BY DEF WorkersInv, LaunchOK
  <2>3. Fresh \subseteq Fresh' /\ n \in Fresh' \ Fresh  BY <1>6
  <2> HIDE DEF l
  <2>4. WorkOK("set up", thread[t].job, Held(l, n), Fresh', Applications', runningApplicationData)
    BY <2>1, <2>2, <2>3, <1>2, <1>7, TakenWork
  <2>5. QED BY <2>4, <1>1, <1>4 DEF WorkAt
<1>9. OneWorker' /\ \A u \in Workers : WorkAt(u)'  BY <1>4, <1>5, <1>8, AtWork
<1>10. AppOK'  BY <1>1, <1>6, <1>7 DEF WorkInv, AppOK, Running
<1>11. PointersListed'
  <2>1. ASSUME NEW m \in {runningApplicationData, debugData} \ {Null}
        PROVE  m \in Listed' \/ Cleaning(m)'
    <3>1. m \in Nodes /\ (m \in Listed \/ Cleaning(m))
      BY DEF KernelInv, PointersOK, IsPointer, WorkInv, PointersListed
    <3>2. CASE m = n  BY <3>2, <1>1
    <3>3. CASE m # n  BY <3>1, <3>3, <1>1 DEF Cleaning
    <3>4. QED BY <3>2, <3>3
  <2>2. QED BY <2>1, <1>1 DEF PointersListed
<1>12. QED BY <1>9, <1>10, <1>11 DEF WorkInv

LEMMA SettingUpWorks ==
    ASSUME KernelInv, WorkersInv, WorkInv, NEW t \in Workers, SettingUp(t) PROVE WorkInv'
<1> DEFINE l == launch[t]
           n == HeldBy(l)
           job == thread[t].job
<1>1. KernelInv' /\ Listed' = Listed  BY SettingUpKeeps
<1>2. /\ UNCHANGED <<life, runningApplicationData, debugData, monitor, launch>>
      /\ thread[t].pc = "set up" /\ thread'[t].job = job
      /\ thread'[t].pc = IF IsApp(t) THEN "merge" ELSE "run"
      /\ \A m \in Nodes : procs'[m].pid = procs[m].pid
  BY DEF SettingUp
<1>3. WorkOK("set up", job, l, Fresh, Applications, runningApplicationData)
  BY <1>2 DEF WorkInv, WorkAt
<1>4. n \in Fresh /\ n \notin Applications
  <2>1. Ready("set up")  BY DEF Ready
  <2>2. QED BY <2>1, <1>3 DEF WorkOK
<1>5. n \in Nodes /\ n # Null /\ n \notin Running
  <2> HIDE DEF n
  <2>1. n \in Listed /\ Listed \subseteq Nodes  BY <1>4, ListedNodes DEF Fresh, KernelInv
  <2>2. \A m \in Nodes : m # Null  BY DEF Nodes, Null
  <2>3. n \notin Running  BY <1>4 DEF Fresh, Running
  <2>4. QED BY <2>1, <2>2, <2>3
<1>6. Fresh' = Fresh /\ Running' = Running
  <2>1. \A m \in Listed : procs'[m].pid = procs[m].pid  BY <1>2, ListedNodes DEF KernelInv
  <2>2. QED BY <2>1, <1>1, <1>2 DEF Fresh, Running
<1>7. \A m \in Nodes \ {n} : procs'[m] = procs[m]
  <2> HIDE DEF n
  <2>1. procs' = procs \/ procs' = [procs EXCEPT ![n] = procs'[n]]  BY DEF SettingUp, n
  <2>2. QED BY <2>1 DEF KernelInv, AreProcesses
<1>8. \A m \in Nodes \ {n} : m \in Applications' <=> m \in Applications
  BY <1>7 DEF Applications
<1>9. WorkAt(t)'
  <2>1. Holds("set up") /\ Ready("set up")  BY DEF Holds, Ready
  <2>2. CASE IsApp(t)
    <3>1. l.dep = "none" /\ job.title \in Apps  BY <2>2 DEF IsApp, ForDependency, L
    <3>2. l.node = n  BY <3>1 DEF HeldBy
    <3>3. Holds("merge") /\ ~Ready("merge")  BY DEF Holds, Ready
    <3> HIDE DEF n
    <3>4. WorkOK("merge", job, l, Fresh, Applications', runningApplicationData)
      BY <3>1, <3>2, <3>3, <2>1, <1>3, <1>4, <1>5 DEF WorkOK
    <3>5. QED BY <3>4, <2>2, <1>2, <1>6 DEF WorkAt
  <2>3. CASE ~IsApp(t)
    <3>1. Applications' = Applications
      <4>1. procs' = procs  BY <2>3 DEF SettingUp
      <4>2. QED BY <4>1 DEF Applications
    <3>2. Holds("run") /\ Ready("run") /\ ~Merges("run")  BY DEF Holds, Ready, Merges
    <3>3. HeldBy(l) \notin Applications  BY <1>4
    <3>4. WorkOK("run", job, l, Fresh, Applications, runningApplicationData)
      BY <3>2, <3>3, <2>1, <1>3 DEF WorkOK
    <3>5. QED BY <3>1, <3>4, <2>3, <1>2, <1>6 DEF WorkAt
  <2>4. QED BY <2>2, <2>3
<1>10. OneWorker' /\ \A u \in Workers : WorkAt(u)'
  <2>1. \A u \in Workers \ {t} : thread'[u] = thread[u] /\ launch'[u] = launch[u]
    BY <1>2 DEF SettingUp, Moved
  <2>2. QED BY <2>1, <1>2, <1>9, AtWork
<1>11. AppOK'
  <2>1. \A m \in Running : m \in Nodes \ {n}  BY <1>5, ListedNodes DEF Running, KernelInv
  <2>2. QED BY <2>1, <1>2, <1>6, <1>8 DEF WorkInv, AppOK
<1>12. PointersListed'  BY <1>1, <1>2, PointersStay DEF WorkInv
<1>13. QED BY <1>10, <1>11, <1>12 DEF WorkInv

LEMMA BeginningWorks ==
    ASSUME KernelInv, WorkersInv, WorkInv, NEW t \in Workers, Beginning(t) PROVE WorkInv'
<1> DEFINE l == launch[t]
           n == HeldBy(l)
           job == thread[t].job
<1>1. KernelInv' /\ WorkersInv' /\ Listed' = Listed  BY BeginningKeeps
<1>2. AllSame /\ Applications' = Applications
  BY KeptSame, ApplicationsSame DEF Beginning
<1>3. WorkOK("run", job, l, Fresh, Applications, runningApplicationData)
  BY DEF WorkInv, WorkAt, Beginning
<1>4. /\ n \in Fresh /\ (n \in Applications => l.dep = "none" /\ job.title \in Apps)
      /\ job.title \in Apps => runningApplicationData = Null
      /\ l.dep # "none" => l.node # Null /\ job.title \in Apps /\ l.node \in Fresh /\ l.node # n
  <2>1. Holds("run") /\ Ready("run")  BY DEF Holds, Ready
  <2>2. l.dep # "none" => n = l.depNode  BY DEF HeldBy
  <2> HIDE DEF n
  <2>3. HeldBy(l) = n  BY DEF n
  <2>4. QED BY <2>1, <2>2, <2>3, <1>3 DEF WorkOK
<1>5. n \in Listed /\ n \in Nodes /\ n # Null
  <2> HIDE DEF n
  <2>1. n \in Listed /\ Listed \subseteq Nodes  BY <1>4, ListedNodes DEF Fresh, KernelInv
  <2>2. \A m \in Nodes : m # Null  BY DEF Nodes, Null
  <2>3. QED BY <2>1, <2>2
<1>6. Queues(t, n) \/ Starts(t, n)  BY DEF Beginning
<1> HIDE DEF n
<1>7. AppOK'
  <2>1. CASE Queues(t, n)
    <3>1. Running' \subseteq Running
      BY <2>1, <1>1, <1>2, RunningFades, StayFades DEF KernelInv, Queues
    <3>2. QED BY <3>1, <2>1, <1>2 DEF WorkInv, AppOK, Queues
  <2>2. CASE Starts(t, n)
    <3>1. Running' = Running \cup {n}  BY <2>2, <1>1, <1>2, <1>5, RunsOne DEF Starts
    <3>2. IsApp(t) <=> l.dep = "none" /\ job.title \in Apps  BY DEF IsApp, ForDependency, L
    <3>3. ASSUME NEW m \in Running \cup {n}, m \in Applications
          PROVE  m = runningApplicationData'
      <4>1. CASE m = n  BY <4>1, <3>2, <3>3, <2>2, <1>4 DEF Starts
      <4>2. CASE m # n
        <5>1. m = runningApplicationData /\ m # Null
          BY <4>2, <3>3 DEF WorkInv, AppOK, Applications, Nodes, Null
        <5>2. job.title \notin Apps  BY <5>1, <1>4
        <5>3. QED BY <5>1, <5>2, <3>2, <2>2 DEF Starts
      <4>3. QED BY <4>1, <4>2
    <3>4. QED BY <3>1, <3>3, <1>2 DEF AppOK
  <2>3. QED BY <2>1, <2>2, <1>6
<1>8. WorkAt(t)'
  <2>1. CASE l.dep = "none"
    <3>1. thread'[t].pc = "idle" /\ launch'[t] = NoLaunch
      BY <2>1, LaunchSet DEF Beginning
    <3>2. ~Holds(thread'[t].pc)  BY <3>1 DEF Holds
    <3>3. QED BY <3>1, <3>2, NoLaunchIs, NoWork DEF WorkAt
  <2>2. CASE l.dep # "none"
    <3> DEFINE pc == "merge dependency"
    <3>1. launch' = launch /\ thread'[t].job = job /\ thread'[t].pc = pc /\ Starts(t, n)
      BY <2>2, <1>6 DEF Beginning, Queues
    <3>2. runningApplicationData' = runningApplicationData
      BY <2>2, <3>1 DEF Starts, IsApp, ForDependency, L
    <3>3. Fresh' = Fresh \ {n}  BY <3>1, <1>1, <1>2, <1>5, RunsOne DEF Starts
    <3>4. Holds(pc) /\ ~Ready(pc) /\ ~Merges(pc)  BY DEF Holds, Ready, Merges
    <3> HIDE DEF pc
    <3>5. WorkOK(pc, job, l, Fresh', Applications, runningApplicationData)
      BY <3>3, <3>4, <2>2, <1>4 DEF WorkOK
    <3>6. QED BY <3>1, <3>2, <3>5, <1>2 DEF WorkAt
  <2>3. QED BY <2>1, <2>2
<1>9. \A u \in Workers \ {t} : thread'[u] = thread[u] /\ launch'[u] = launch[u]
  <2>1. CASE l.dep = "none"  BY <2>1, OthersStay DEF Beginning
  <2>2. CASE l.dep # "none"  BY <2>2 DEF Beginning, Moved
  <2>3. QED BY <2>1, <2>2
<1>10. OneWorker' /\ \A u \in Workers : WorkAt(u)'  BY <1>8, <1>9, AtWork DEF Beginning
<1>11. PointersListed'
  <2>1. \A m \in Nodes : procs'[m].pid = procs[m].pid  BY <1>2 DEF AllSame, SameProcess
  <2>2. /\ runningApplicationData' \in {runningApplicationData, n}
        /\ debugData' \in {debugData, n} /\ monitor' = monitor
    BY <1>6 DEF Queues, Starts, Beginning
  <2>3. QED BY <2>1, <2>2, <1>1, <1>5, PointersStay DEF WorkInv
<1>12. QED BY <1>7, <1>10, <1>11 DEF WorkInv

LEMMA StepsWork ==
    ASSUME Patient, KernelInv, WorkersInv, WorkInv, Steps PROVE WorkInv'
<1>1. ASSUME NEW t \in Workers, Stepping(t) PROVE WorkInv'  BY <1>1, StepWorks
<1>2. ASSUME NEW t \in Workers, Launches(t) PROVE WorkInv'
  BY <1>2, TakingWorks, SettingUpWorks, BeginningWorks DEF Launches
<1>3. CASE HandingOver \/ Acknowledging \/ Releasing \/ Exits
  BY <1>3, HandingOverWorks, AcknowledgingWorks, ReleasingWorks, ExitsWorks
<1>4. CASE Watching \/ Clearing  BY <1>4, WatchingWorks, ClearingWorks
<1>5. ASSUME NEW n \in Listed, Retiring(n) PROVE WorkInv'  BY <1>5, RetiringWorks
<1>6. QED BY <1>1, <1>2, <1>3, <1>4, <1>5 DEF Steps

LEMMA InitWorks == PMInit => WorkInv
<1> SUFFICES ASSUME PMInit PROVE WorkInv
  OBVIOUS
<1>1. thread = [t \in Workers |-> Idle] /\ launch = [t \in Workers |-> NoLaunch]
  BY DEF PMInit
<1>2. \A t \in Workers : thread[t].pc = "idle" /\ launch[t] = NoLaunch  BY <1>1 DEF Idle
<1>3. OneWorker  BY <1>2 DEF OneWorker, Workers
<1>4. ASSUME NEW t \in Workers PROVE WorkAt(t)
  <2>1. ~Holds(thread[t].pc)  BY <1>2 DEF Holds
  <2>2. QED BY <2>1, <1>2, NoLaunchIs, NoWork DEF WorkAt
<1>5. Applications = {}
  <2>1. \A n \in Nodes : procs[n].flags = {} \/ procs[n].flags = {"kip"}
    BY DEF PMInit, Blank
  <2>2. QED BY <2>1 DEF Applications, IsApplication
<1>6. AppOK  BY <1>5 DEF AppOK
<1>7. PointersListed  BY DEF PMInit, PointersListed
<1>8. QED BY <1>3, <1>4, <1>6, <1>7 DEF WorkInv

(* The running application is the only one that runs.                       *)
LEMMA OneRuns == KernelInv /\ WorkInv => OneApplication
<1> SUFFICES ASSUME KernelInv, WorkInv PROVE OneApplication
  OBVIOUS
<1> DEFINE S == {n \in Listed : /\ "application" \in procs[n].flags
                                /\ life[procs[n].pid] = "running"}
<1>1. S \subseteq {runningApplicationData}
  BY ListedNodes DEF KernelInv, WorkInv, AppOK, Running, Applications, IsApplication
<1> HIDE DEF S
<1>2. S = {} \/ S = {runningApplicationData}  BY <1>1
<1>3. Cardinality(S) = 0 \/ Cardinality(S) = 1  BY <1>2, FS_EmptySet, FS_Singleton
<1>4. QED BY <1>3 DEF OneApplication, S

(* What launches rely on is kept when the clients wait for pm.              *)
THEOREM WorkTheorem == ASSUME Patient PROVE Spec => [](KernelInv /\ WorkersInv /\ WorkInv)
<1>1. Init => KernelInv /\ WorkersInv /\ WorkInv  BY InitKernel, InitWorks DEF Init
<1>2. KernelInv /\ WorkersInv /\ WorkInv /\ [Next]_pmvars
        => (KernelInv /\ WorkersInv /\ WorkInv)'
  <2> SUFFICES ASSUME KernelInv, WorkersInv, WorkInv, [Next]_pmvars
               PROVE  KernelInv' /\ WorkersInv' /\ WorkInv'
    OBVIOUS
  <2>1. Steps  BY NextSteps
  <2>2. QED BY <2>1, StepsKeep, StepsWork
<1>3. QED BY <1>1, <1>2, PTL DEF Spec

(* The types, and the pointers to the running and the queued application    *)
(* never outlive the node they point to, while the clients wait for pm.     *)
THEOREM PMTheorem == ASSUME Patient PROVE Spec => []PMInv
<1>1. KernelInv /\ WorkInv => PMInv  BY KernelTypes DEF WorkInv, PMInv
<1>2. QED BY <1>1, WorkTheorem, PTL

(* Two applications never run at once, while the clients wait for pm.       *)
THEOREM OneApplicationTheorem == ASSUME Patient PROVE Spec => []OneApplication
BY OneRuns, WorkTheorem, PTL
=============================================================================
