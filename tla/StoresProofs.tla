---- MODULE StoresProofs ----
(***************************************************************************)
(* What readers of the stores beside the index are given, for any number   *)
(* of analyses and frames.                                                 *)
(***************************************************************************)
EXTENDS Stores, SequenceTheorems, TLAPS

(***************************************************************************)
(* Similarity groups.  A connection writes the inode it opened, whatever   *)
(* its name is by then, so the argument is about inodes: no two analyses   *)
(* write one, what an analysis has flushed, still holds and has open       *)
(* always makes up the timeline it has seen, and nobody writes an inode    *)
(* once it is complete.                                                    *)
(***************************************************************************)
GroupRecord == [first : Nat, last : Nat]
Inode == [state : Groups!States, count : Nat, groups : Seq(GroupRecord)]
RunRecord ==
  [pc : {"idle", "visit", "purge", "open", "build", "frames", "complete", "rename"},
   own : Nat \cup {None}, next : Nat, first : Nat \cup {None},
   pending : Seq(GroupRecord), verify : BOOLEAN, navigator : Nat \cup {None}]

\* The groups of the first n frames, cut at cs.
Covers(gs, n, cs) ==
  /\ gs \in Seq(GroupRecord) /\ n \in Nat
  /\ gs = <<>> => n = 0
  /\ gs # <<>> => gs[1].first = 0 /\ gs[Len(gs)].last = n - 1
  /\ \A g \in DOMAIN gs : gs[g].first <= gs[g].last
  /\ \A g \in 1 .. Len(gs) - 1 : gs[g + 1].first = gs[g].last + 1
  /\ \A g \in DOMAIN gs : gs[g].first < n /\ (gs[g].first = 0 \/ gs[g].first \in cs)
  /\ \A k \in Nat : k < n /\ (k = 0 \/ k \in cs) => \E g \in DOMAIN gs : gs[g].first = k

Writes(r) == r.pc \in {"frames", "complete"}
Start0(r) == IF r.first = None THEN 0 ELSE r.first

\* What one analysis may rely on, given the inodes.
AnalysisIn(r, s, cs) ==
  /\ r \in RunRecord
  /\ r.navigator # None => r.navigator \in DOMAIN s /\ s[r.navigator].state = "complete"
  /\ Writes(r) => r.own \in DOMAIN s /\ s[r.own].state = "building"
  /\ r.pc = "frames" =>
       /\ r.next <= FrameCount
       /\ r.first = None => r.next = 0
       /\ r.first # None => /\ r.first < r.next /\ (r.first = 0 \/ r.first \in cs)
                            /\ \A k \in Nat : r.first < k /\ k < r.next => k \notin cs
       /\ Covers(s[r.own].groups \o r.pending, Start0(r), cs)
  /\ r.pc = "complete" => Covers(s[r.own].groups, FrameCount, cs)

InodesOk(s, cs) ==
  /\ s \in Seq(Inode)
  /\ \A i \in DOMAIN s : s[i].state = "complete" => Covers(s[i].groups, FrameCount, cs)

NamesOk(n, s) ==
  /\ n.final # None => n.final \in DOMAIN s
  /\ n.building # None => n.building \in DOMAIN s

GroupsInv ==
  /\ cuts \subseteq 1 .. FrameCount - 1
  /\ InodesOk(inodes, cuts)
  /\ NamesOk(names, inodes)
  /\ run = [t \in Analyses |-> run[t]]
  /\ \A t \in Analyses : AnalysisIn(run[t], inodes, cuts)
  /\ \A t, u \in Analyses : t # u /\ Writes(run[t]) /\ Writes(run[u]) => run[t].own # run[u].own

LEMMA CoversAppend ==
  ASSUME NEW gs, NEW n, NEW cs, Covers(gs, n, cs), NEW m \in Nat, n < m, n = 0 \/ n \in cs,
         \A k \in Nat : n < k /\ k < m => k \notin cs
  PROVE  Covers(Append(gs, Groups!Group(n, m - 1)), m, cs)
<1> DEFINE e == Groups!Group(n, m - 1)
           h == Append(gs, e)
<1>1. /\ gs \in Seq(GroupRecord) /\ n \in Nat /\ Len(gs) \in Nat /\ e \in GroupRecord
      /\ e.first = n /\ e.last = m - 1
  BY LenProperties DEF Covers, Groups!Group, GroupRecord
<1>2. /\ h \in Seq(GroupRecord) /\ Len(h) = Len(gs) + 1 /\ DOMAIN h = 1 .. Len(gs) + 1
      /\ DOMAIN gs = 1 .. Len(gs) /\ h[Len(gs) + 1] = e
      /\ \A g \in 1 .. Len(gs) : h[g] = gs[g]
  BY <1>1, AppendProperties, LenProperties
<1> HIDE DEF h, e
<1>3. h # <<>> /\ h[Len(h)].last = m - 1
  BY <1>1, <1>2, EmptySeq
<1>4. h[1].first = 0
  <2>1. CASE gs = <<>>
    <3>1. Len(gs) = 0
      BY <2>1, EmptySeq
    <3> QED BY <1>1, <1>2, <2>1, <3>1 DEF Covers
  <2>2. CASE gs # <<>>
    <3>1. Len(gs) >= 1
      BY <1>1, <2>2, EmptySeq
    <3> QED BY <1>1, <1>2, <2>2, <3>1 DEF Covers
  <2> QED BY <2>1, <2>2
<1>5. \A g \in DOMAIN h : h[g].first <= h[g].last
  BY <1>1, <1>2 DEF Covers
<1>6. ASSUME NEW g \in 1 .. Len(h) - 1 PROVE h[g + 1].first = h[g].last + 1
  <2>1. g \in 1 .. Len(gs) /\ h[g] = gs[g] /\ gs[g] \in GroupRecord
    BY <1>1, <1>2
  <2>2. CASE g < Len(gs)
    <3>1. h[g + 1] = gs[g + 1] /\ g \in 1 .. Len(gs) - 1
      BY <1>1, <1>2, <2>1, <2>2
    <3> QED BY <2>1, <3>1 DEF Covers
  <2>3. CASE g = Len(gs)
    <3>1. gs # <<>> /\ gs[g].last = n - 1
      BY <1>1, <2>1, <2>3, EmptySeq DEF Covers
    <3> QED BY <1>1, <1>2, <2>1, <2>3, <3>1
  <2> QED BY <1>1, <2>1, <2>2, <2>3
<1>7. ASSUME NEW g \in DOMAIN h PROVE h[g].first < m /\ (h[g].first = 0 \/ h[g].first \in cs)
  <2>1. CASE g \in 1 .. Len(gs)
    <3>1. h[g] = gs[g] /\ gs[g] \in GroupRecord /\ g \in DOMAIN gs
      BY <1>1, <1>2, <2>1
    <3>2. gs[g].first < n /\ (gs[g].first = 0 \/ gs[g].first \in cs) /\ gs[g].first \in Nat
      BY <3>1 DEF Covers, GroupRecord
    <3> QED BY <1>1, <3>1, <3>2
  <2>2. CASE g = Len(gs) + 1
    BY <1>1, <1>2, <2>2
  <2> QED BY <1>1, <1>2, <2>1, <2>2
<1>8. ASSUME NEW k \in Nat, k < m, k = 0 \/ k \in cs PROVE \E g \in DOMAIN h : h[g].first = k
  <2>1. CASE k < n
    <3>1. PICK g \in DOMAIN gs : gs[g].first = k
      BY <1>8, <2>1 DEF Covers
    <3> QED BY <1>1, <1>2, <3>1
  <2>2. CASE k = n
    BY <1>1, <1>2, <2>2
  <2>3. CASE n < k
    <3>1. k \notin cs
      BY <1>8, <2>3
    <3> QED BY <1>1, <1>8, <2>3, <3>1
  <2> QED BY <1>1, <2>1, <2>2, <2>3
<1> QED BY <1>2, <1>3, <1>4, <1>5, <1>6, <1>7, <1>8 DEF Covers, h, e

LEMMA CoversIsWhole ==
  ASSUME NEW gs, cuts \subseteq 1 .. FrameCount - 1, Covers(gs, FrameCount, cuts)
  PROVE  Groups!Whole(gs)
<1>1. gs \in Seq(GroupRecord) /\ FrameCount \in Nat
  BY DEF Covers
<1>2. Groups!Partition(gs)
  BY <1>1 DEF Groups!Partition, Covers
<1>3. \A g \in DOMAIN gs : gs[g].first \in Nat
  <2>1. \A g \in DOMAIN gs : gs[g] \in GroupRecord
    BY <1>1
  <2> QED BY <2>1 DEF GroupRecord
<1> DEFINE firsts == {gs[g].first : g \in DOMAIN gs}
<1>4. firsts = IF FrameCount = 0 THEN {} ELSE {0} \cup cuts
  <2>1. CASE FrameCount = 0
    BY <1>1, <1>3, <2>1 DEF Covers
  <2>2. CASE FrameCount # 0
    <3>1. ASSUME NEW k \in firsts PROVE k \in {0} \cup cuts
      BY <3>1 DEF Covers
    <3>2. ASSUME NEW k \in {0} \cup cuts PROVE k \in firsts
      <4>1. k \in Nat /\ k < FrameCount /\ (k = 0 \/ k \in cuts)
        BY <1>1, <2>2, <3>2
      <4>2. \E g \in DOMAIN gs : gs[g].first = k
        BY <4>1 DEF Covers
      <4> QED BY <4>2
    <3> QED BY <2>2, <3>1, <3>2, Zenon
  <2> QED BY <2>1, <2>2
<1> QED BY <1>2, <1>4 DEF Groups!Whole

\* One analysis moves on and no inode is written.
LEMMA MoveKeeps ==
  ASSUME GroupsInv, NEW t \in Analyses, NEW r, AnalysisIn(r, inodes, cuts),
         Writes(r) => Writes(run[t]) /\ r.own = run[t].own,
         run' = [run EXCEPT ![t] = r], inodes' = inodes, cuts' = cuts, NamesOk(names', inodes)
  PROVE  GroupsInv'
<1>1. run' = [u \in Analyses |-> IF u = t THEN r ELSE run[u]]
  BY DEF GroupsInv
<1>2. run'[t] = r /\ \A u \in Analyses : u # t => run'[u] = run[u]
  BY <1>1
<1>3. run' = [u \in Analyses |-> run'[u]]
  BY <1>1, Zenon
<1>4. \A u \in Analyses : AnalysisIn(run'[u], inodes, cuts)
  BY <1>2 DEF GroupsInv
<1>5. ASSUME NEW u \in Analyses, NEW v \in Analyses, u # v, Writes(run'[u]), Writes(run'[v])
      PROVE  run'[u].own # run'[v].own
  BY <1>2, <1>5 DEF GroupsInv
<1>6. /\ cuts \subseteq 1 .. FrameCount - 1 /\ InodesOk(inodes, cuts)
  BY DEF GroupsInv
<1> QED BY <1>3, <1>4, <1>5, <1>6 DEF GroupsInv

\* An analysis that does not write the inode o does not notice that it was written,
\* unless the inode was complete.
LEMMA WriteIsPrivate ==
  ASSUME InodesOk(inodes, cuts), NEW r, AnalysisIn(r, inodes, cuts), NEW o \in DOMAIN inodes, NEW d,
         inodes[o].state # "complete", Writes(r) => r.own # o,
         NEW s, s = [inodes EXCEPT ![o] = d]
  PROVE  AnalysisIn(r, s, cuts)
<1>1. DOMAIN s = DOMAIN inodes /\ \A i \in DOMAIN inodes : i # o => s[i] = inodes[i]
  OBVIOUS
<1>2. r.navigator # None => r.navigator \in DOMAIN s /\ s[r.navigator].state = "complete"
  BY <1>1 DEF AnalysisIn
<1>3. Writes(r) => r.own \in DOMAIN inodes /\ s[r.own] = inodes[r.own]
  BY <1>1 DEF AnalysisIn
<1>4. r.pc = "frames" => Writes(r)
  BY DEF Writes
<1>5. r.pc = "complete" => Writes(r)
  BY DEF Writes
<1> QED BY <1>1, <1>2, <1>3, <1>4, <1>5 DEF AnalysisIn

\* One analysis writes its own inode.
LEMMA WriteKeeps ==
  ASSUME GroupsInv, NEW t \in Analyses, NEW r, NEW d \in Inode,
         Writes(run[t]), Writes(r) => r.own = run[t].own,
         d.state = "complete" => Covers(d.groups, FrameCount, cuts),
         inodes' = [inodes EXCEPT ![run[t].own] = d],
         AnalysisIn(r, inodes', cuts),
         run' = [run EXCEPT ![t] = r], names' = names, cuts' = cuts
  PROVE  GroupsInv'
<1> DEFINE o == run[t].own
<1>0. /\ o \in DOMAIN inodes /\ inodes[o].state = "building"
      /\ InodesOk(inodes, cuts) /\ NamesOk(names, inodes) /\ cuts \subseteq 1 .. FrameCount - 1
      /\ \A u \in Analyses : AnalysisIn(run[u], inodes, cuts)
      /\ inodes \in Seq(Inode)
  BY DEF GroupsInv, AnalysisIn, InodesOk
<1>1. run' = [u \in Analyses |-> IF u = t THEN r ELSE run[u]]
  BY DEF GroupsInv
<1>2. run'[t] = r /\ \A u \in Analyses : u # t => run'[u] = run[u]
  BY <1>1
<1>3. run' = [u \in Analyses |-> run'[u]]
  BY <1>1, Zenon
<1>4. ASSUME NEW u \in Analyses PROVE AnalysisIn(run'[u], inodes', cuts)
  <2>1. CASE u = t
    BY <1>2, <2>1
  <2>2. CASE u # t
    <3>1. Writes(run[u]) => run[u].own # o
      BY <2>2 DEF GroupsInv
    <3>2. AnalysisIn(run[u], inodes', cuts)
      BY <1>0, <3>1, WriteIsPrivate, Zenon
    <3> QED BY <1>2, <2>2, <3>2
  <2> QED BY <2>1, <2>2
<1>5. ASSUME NEW u \in Analyses, NEW v \in Analyses, u # v, Writes(run'[u]), Writes(run'[v])
      PROVE  run'[u].own # run'[v].own
  BY <1>2, <1>5 DEF GroupsInv
<1>6. inodes' \in Seq(Inode) /\ DOMAIN inodes' = DOMAIN inodes
  BY <1>0, ExceptSeq
<1>7. \A i \in DOMAIN inodes' : inodes'[i].state = "complete" => Covers(inodes'[i].groups, FrameCount, cuts)
  BY <1>0, <1>6 DEF InodesOk
<1>8. NamesOk(names, inodes')
  BY <1>0, <1>6 DEF NamesOk
<1>9. InodesOk(inodes', cuts)
  BY <1>6, <1>7 DEF InodesOk
<1> QED
  BY <1>0, <1>3, <1>4, <1>5, <1>8, <1>9, Zenon DEF GroupsInv

LEMMA IdleIsARun ==
  ASSUME NEW p \in {"idle", "visit", "purge", "open", "build", "frames", "complete", "rename"},
         NEW o \in Nat \cup {None}, NEW v \in Nat \cup {None}
  PROVE  /\ [Groups!Idle EXCEPT !.pc = p, !.own = o] \in RunRecord
         /\ [Groups!Idle EXCEPT !.pc = p] \in RunRecord
         /\ [Groups!Idle EXCEPT !.navigator = v] \in RunRecord
         /\ Groups!Idle \in RunRecord
<1>1. <<>> \in Seq(GroupRecord)
  BY EmptySeq
<1> QED BY <1>1, Zenon DEF Groups!Idle, RunRecord

LEMMA EndKeeps ==
  ASSUME GroupsInv, NEW t \in Analyses, Groups!End(t), inodes' = inodes, cuts' = cuts,
         NamesOk(names', inodes)
  PROVE  GroupsInv'
<1> DEFINE r == [Groups!Idle EXCEPT !.navigator = run[t].navigator]
<1>0. AnalysisIn(run[t], inodes, cuts)
  BY DEF GroupsInv
<1>1. run[t].navigator \in Nat \cup {None}
  BY <1>0 DEF AnalysisIn, RunRecord
<1>2. r \in RunRecord
  BY <1>1, IdleIsARun, Zenon
<1>3. r.pc = "idle" /\ r.navigator = run[t].navigator
  BY DEF Groups!Idle
<1>4. AnalysisIn(r, inodes, cuts) /\ ~Writes(r)
  BY <1>0, <1>2, <1>3 DEF AnalysisIn, Writes
<1>5. run' = [run EXCEPT ![t] = r]
  BY DEF Groups!End
<1> HIDE DEF r
<1> QED BY <1>4, <1>5, MoveKeeps, Zenon

LEMMA GoKeeps ==
  ASSUME GroupsInv, NEW t \in Analyses, NEW step \in {"visit", "purge", "open", "build", "rename"},
         Groups!Go(t, step), inodes' = inodes, cuts' = cuts, NamesOk(names', inodes)
  PROVE  GroupsInv'
<1> DEFINE r == [run[t] EXCEPT !.pc = step]
<1>0. AnalysisIn(run[t], inodes, cuts) /\ run[t] \in RunRecord
  BY DEF GroupsInv, AnalysisIn
<1>1. r \in RunRecord /\ r.pc = step /\ r.navigator = run[t].navigator
  BY <1>0 DEF RunRecord
<1>2. AnalysisIn(r, inodes, cuts) /\ ~Writes(r)
  BY <1>0, <1>1 DEF AnalysisIn, Writes
<1>3. run' = [run EXCEPT ![t] = r]
  BY DEF Groups!Go
<1> HIDE DEF r
<1> QED BY <1>2, <1>3, MoveKeeps, Zenon

LEMMA ReadersKeep ==
  ASSUME GroupsInv, NEW t \in Analyses,
         \/ Groups!Start(t) \/ Groups!GiveUp(t) \/ Groups!Visit(t) \/ Groups!Purge(t)
         \/ Groups!OpenNavigator(t) \/ Groups!Rename(t)
  PROVE  GroupsInv'
<1>0. /\ AnalysisIn(run[t], inodes, cuts) /\ run[t] \in RunRecord /\ NamesOk(names, inodes)
      /\ inodes \in Seq(Inode)
  BY DEF GroupsInv, AnalysisIn, InodesOk
<1>1. CASE Groups!Start(t)
  <2> DEFINE r == [Groups!Idle EXCEPT !.pc = "visit"]
  <2>1. r \in RunRecord
    BY IdleIsARun, GroupsAssumption, Zenon
  <2>2. r.pc = "visit" /\ r.navigator = None
    BY DEF Groups!Idle
  <2>3. AnalysisIn(r, inodes, cuts) /\ ~Writes(r)
    BY <2>1, <2>2 DEF AnalysisIn, Writes
  <2>4. run' = [run EXCEPT ![t] = r] /\ inodes' = inodes /\ cuts' = cuts /\ names' = names
    BY <1>1 DEF Groups!Start
  <2> HIDE DEF r
  <2> QED BY <1>0, <2>3, <2>4, MoveKeeps, Zenon
<1>2. CASE Groups!GiveUp(t)
  BY <1>0, <1>2, EndKeeps DEF Groups!GiveUp
<1>3. CASE Groups!Visit(t)
  <2>1. inodes' = inodes /\ cuts' = cuts /\ names' = names
    BY <1>3 DEF Groups!Visit
  <2>2. Groups!End(t) \/ \E step \in {"build", "open", "purge"} : Groups!Go(t, step)
    BY <1>3 DEF Groups!Visit
  <2> QED BY <1>0, <2>1, <2>2, EndKeeps, GoKeeps
<1>4. CASE Groups!Purge(t)
  <2>1. inodes' = inodes /\ cuts' = cuts /\ names' = [names EXCEPT !.final = None]
    BY <1>4 DEF Groups!Purge
  <2>2. Groups!End(t) \/ Groups!Go(t, "build")
    BY <1>4 DEF Groups!Purge
  <2>3. NamesOk(names', inodes)
    BY <1>0, <2>1 DEF NamesOk
  <2> QED BY <2>1, <2>2, <2>3, EndKeeps, GoKeeps
<1>5. CASE Groups!OpenNavigator(t)
  <2>1. inodes' = inodes /\ cuts' = cuts /\ names' = names
    BY <1>5 DEF Groups!OpenNavigator
  <2>2. CASE Groups!End(t)
    BY <1>0, <2>1, <2>2, EndKeeps
  <2>3. CASE ~Groups!End(t)
    <3> DEFINE r == [Groups!Idle EXCEPT !.navigator = names.final]
    <3>1. /\ names.final # None /\ inodes[names.final].state = "complete"
          /\ run' = [run EXCEPT ![t] = r]
      BY <1>5, <2>3 DEF Groups!OpenNavigator
    <3>2. names.final \in DOMAIN inodes /\ names.final \in Nat
      BY <1>0, <3>1, LenProperties DEF NamesOk
    <3>3. r \in RunRecord
      BY <3>2, IdleIsARun, Zenon
    <3>4. r.pc = "idle" /\ r.navigator = names.final
      BY DEF Groups!Idle
    <3>5. AnalysisIn(r, inodes, cuts) /\ ~Writes(r)
      BY <3>1, <3>2, <3>3, <3>4 DEF AnalysisIn, Writes
    <3> HIDE DEF r
    <3> QED BY <1>0, <2>1, <3>1, <3>5, MoveKeeps, Zenon
  <2> QED BY <2>2, <2>3
<1>6. CASE Groups!Rename(t)
  <2>1. inodes' = inodes /\ cuts' = cuts
    BY <1>6 DEF Groups!Rename
  <2>2. CASE names.building = None
    BY <1>0, <1>6, <2>1, <2>2, EndKeeps DEF Groups!Rename
  <2>3. CASE names.building # None
    <3> DEFINE r == [run[t] EXCEPT !.pc = "visit", !.own = None, !.verify = TRUE]
    <3>1. /\ names' = [final |-> names.building, building |-> None]
          /\ run' = [run EXCEPT ![t] = r]
      BY <1>6, <2>3, Zenon DEF Groups!Rename
    <3>2. NamesOk(names', inodes)
      BY <1>0, <2>3, <3>1 DEF NamesOk
    <3>3. r \in RunRecord /\ r.pc = "visit" /\ r.navigator = run[t].navigator
      BY <1>0, Zenon DEF RunRecord
    <3>4. AnalysisIn(r, inodes, cuts) /\ ~Writes(r)
      BY <1>0, <3>3 DEF AnalysisIn, Writes
    <3> HIDE DEF r
    <3> QED BY <2>1, <3>1, <3>2, <3>4, MoveKeeps, Zenon
  <2> QED BY <2>2, <2>3
<1> QED BY <1>1, <1>2, <1>3, <1>4, <1>5, <1>6

LEMMA ConcatAppend ==
  ASSUME NEW S, NEW a \in Seq(S), NEW b \in Seq(S), NEW e \in S
  PROVE  a \o Append(b, e) = Append(a \o b, e)
<1>1. /\ Append(b, e) \in Seq(S) /\ Len(Append(b, e)) = Len(b) + 1
      /\ \A i \in 1 .. Len(b) : Append(b, e)[i] = b[i]
      /\ Append(b, e)[Len(b) + 1] = e
  BY AppendProperties
<1>2. a \o b \in Seq(S) /\ Len(a \o b) = Len(a) + Len(b) /\ Len(a) \in Nat /\ Len(b) \in Nat
  BY ConcatProperties, LenProperties
<1> DEFINE l == a \o Append(b, e)
           m == Append(a \o b, e)
<1>3. /\ l \in Seq(S) /\ Len(l) = Len(a) + Len(b) + 1
      /\ \A i \in 1 .. Len(a) + Len(b) + 1 :
            l[i] = IF i <= Len(a) THEN a[i] ELSE Append(b, e)[i - Len(a)]
  BY <1>1, <1>2, ConcatProperties
<1>4. /\ m \in Seq(S) /\ Len(m) = Len(a) + Len(b) + 1 /\ m[Len(a) + Len(b) + 1] = e
      /\ \A i \in 1 .. Len(a) + Len(b) : m[i] = (a \o b)[i]
  BY <1>2, AppendProperties
<1>5. \A i \in 1 .. Len(a) + Len(b) : (a \o b)[i] = IF i <= Len(a) THEN a[i] ELSE b[i - Len(a)]
  BY ConcatProperties
<1> HIDE DEF l, m
<1>6. ASSUME NEW i \in 1 .. Len(l) PROVE l[i] = m[i]
  <2>0. i \in 1 .. Len(a) + Len(b) + 1
    BY <1>3
  <2>1. CASE i <= Len(a)
    <3>1. i \in 1 .. Len(a) + Len(b)
      BY <1>2, <2>0, <2>1
    <3>2. l[i] = a[i]
      BY <1>3, <2>0, <2>1
    <3>3. m[i] = a[i]
      BY <1>4, <1>5, <2>1, <3>1
    <3> QED BY <3>2, <3>3
  <2>2. CASE i > Len(a) /\ i <= Len(a) + Len(b)
    <3>1. i - Len(a) \in 1 .. Len(b)
      BY <1>2, <2>2
    <3>2. l[i] = Append(b, e)[i - Len(a)]
      BY <1>2, <1>3, <2>2
    <3>3. m[i] = b[i - Len(a)]
      BY <1>2, <1>4, <1>5, <2>2
    <3> QED BY <1>1, <3>1, <3>2, <3>3
  <2>3. CASE i = Len(a) + Len(b) + 1
    <3>1. i - Len(a) = Len(b) + 1
      BY <1>2, <2>3
    <3>2. l[i] = Append(b, e)[i - Len(a)]
      BY <1>2, <1>3, <2>3
    <3> QED BY <1>1, <1>4, <2>3, <3>1, <3>2
  <2> QED BY <1>2, <2>0, <2>1, <2>2, <2>3
<1>7. l = m
  BY <1>3, <1>4, <1>6, SeqEqual
<1> QED BY <1>7 DEF l, m

LEMMA FlushedIsAnInode ==
  ASSUME NEW d \in Inode, NEW gs \in Seq(GroupRecord)
  PROVE  /\ Groups!Flushed(d, gs) \in Inode
         /\ Groups!Flushed(d, gs).state = d.state
         /\ Groups!Flushed(d, gs).groups = d.groups \o gs
<1>1. d.groups \in Seq(GroupRecord)
  BY DEF Inode
<1>2. d.groups \o gs \in Seq(GroupRecord) /\ Len(d.groups) + Len(gs) \in Nat
  BY <1>1, ConcatProperties, LenProperties
<1> QED BY <1>2, Zenon DEF Inode, Groups!Flushed

Stepped(r, x, f, p) == [r EXCEPT !.next = x, !.first = f, !.pending = p]

IsStepOf(n, r, x, f, p) ==
  /\ n \in RunRecord /\ n.pc = r.pc /\ n.own = r.own /\ n.navigator = r.navigator
  /\ n.next = x /\ n.first = f /\ n.pending = p

LEMMA SteppedRun ==
  ASSUME NEW r \in RunRecord, NEW x \in Nat, NEW f \in Nat, NEW p \in Seq(GroupRecord)
  PROVE  IsStepOf(Stepped(r, x, f, p), r, x, f, p)
BY Zenon DEF RunRecord, Stepped, IsStepOf

\* What an analysis that reads frames can count on.
LEMMA FramesFacts ==
  ASSUME GroupsInv, NEW t \in Analyses, run[t].pc = "frames"
  PROVE  /\ run[t] \in RunRecord /\ Writes(run[t]) /\ run[t].own \in DOMAIN inodes
         /\ inodes[run[t].own] \in Inode /\ inodes[run[t].own].state = "building"
         /\ inodes[run[t].own].groups \in Seq(GroupRecord) /\ run[t].pending \in Seq(GroupRecord)
         /\ run[t].next \in Nat /\ run[t].next <= FrameCount
         /\ run[t].first = None => run[t].next = 0
         /\ run[t].first # None =>
              /\ run[t].first \in Nat /\ run[t].first < run[t].next
              /\ run[t].first = 0 \/ run[t].first \in cuts
              /\ \A k \in Nat : run[t].first < k /\ k < run[t].next => k \notin cuts
         /\ Covers(inodes[run[t].own].groups \o run[t].pending, Start0(run[t]), cuts)
         /\ run[t].navigator # None =>
              run[t].navigator \in DOMAIN inodes /\ inodes[run[t].navigator].state = "complete"
<1>1. AnalysisIn(run[t], inodes, cuts) /\ inodes \in Seq(Inode) /\ Writes(run[t])
  BY DEF GroupsInv, InodesOk, Writes
<1>2. run[t] \in RunRecord /\ run[t].own \in DOMAIN inodes /\ inodes[run[t].own].state = "building"
  BY <1>1 DEF AnalysisIn
<1>3. inodes[run[t].own] \in Inode
  BY <1>1, <1>2
<1>4. inodes[run[t].own].groups \in Seq(GroupRecord)
  BY <1>3 DEF Inode
<1>5. run[t].pending \in Seq(GroupRecord) /\ run[t].next \in Nat /\ run[t].first \in Nat \cup {None}
  BY <1>2 DEF RunRecord
<1> QED BY <1>1, <1>2, <1>3, <1>4, <1>5 DEF AnalysisIn

LEMMA FrameKeeps ==
  ASSUME GroupsInv, NEW t \in Analyses, Groups!Frame(t)
  PROVE  GroupsInv'
<1> DEFINE r == run[t]
           opens == r.first = None
           closes == ~opens /\ r.next \in cuts
           pending == IF closes THEN Append(r.pending, Groups!Group(r.first, r.next - 1)) ELSE r.pending
           full == Len(pending) >= GroupBatch
           start == IF opens \/ closes THEN r.next ELSE r.first
           held == IF full THEN <<>> ELSE pending
           n == Stepped(r, r.next + 1, start, held)
           d == IF full THEN Groups!Flushed(inodes[r.own], pending) ELSE inodes[r.own]
<1>0. r.pc = "frames" /\ r.next < FrameCount /\ cuts' = cuts /\ names' = names
  BY DEF Groups!Frame
<1>1. run' = [run EXCEPT ![t] = n]
  BY Zenon DEF Groups!Frame, Stepped
<1>2. inodes' = IF full THEN [inodes EXCEPT ![r.own] = Groups!Flushed(inodes[r.own], pending)] ELSE inodes
  BY DEF Groups!Frame
<1>f. /\ r \in RunRecord /\ Writes(r) /\ r.own \in DOMAIN inodes
      /\ inodes[r.own] \in Inode /\ inodes[r.own].state = "building"
      /\ inodes[r.own].groups \in Seq(GroupRecord) /\ r.pending \in Seq(GroupRecord)
      /\ r.next \in Nat /\ FrameCount \in Nat /\ inodes \in Seq(Inode)
  BY <1>0, FramesFacts, GroupsAssumption DEF GroupsInv, InodesOk
<1>3. /\ pending \in Seq(GroupRecord) /\ start \in Nat /\ start < r.next + 1
      /\ start = 0 \/ start \in cuts
      /\ \A k \in Nat : start < k /\ k < r.next + 1 => k \notin cuts
      /\ Covers(inodes[r.own].groups \o pending, start, cuts)
  <2>1. CASE opens
    <3>1. start = 0 /\ pending = r.pending /\ r.next = 0 /\ Start0(r) = 0
      BY <1>0, <2>1, FramesFacts DEF Start0
    <3>2. Covers(inodes[r.own].groups \o pending, start, cuts)
      BY <1>0, <3>1, FramesFacts
    <3> HIDE DEF start, pending
    <3> QED BY <1>f, <3>1, <3>2
  <2>2. CASE closes
    <3>1. /\ start = r.next /\ r.first \in Nat /\ r.first < r.next /\ Start0(r) = r.first
          /\ pending = Append(r.pending, Groups!Group(r.first, r.next - 1))
      BY <1>0, <2>2, FramesFacts DEF Start0
    <3>2. Groups!Group(r.first, r.next - 1) \in GroupRecord
      BY <1>f, <3>1 DEF Groups!Group, GroupRecord
    <3> DEFINE e == Groups!Group(r.first, r.next - 1)
               gs == inodes[r.own].groups
               ps == r.pending
    <3>3. /\ pending \in Seq(GroupRecord)
          /\ gs \o pending = Append(gs \o ps, e)
      <4>1. gs \in Seq(GroupRecord) /\ ps \in Seq(GroupRecord) /\ e \in GroupRecord /\ pending = Append(ps, e)
        BY <1>f, <3>1, <3>2
      <4> HIDE DEF gs, ps, e, pending
      <4> QED BY <4>1, ConcatAppend, AppendProperties
    <3>4. /\ r.first = 0 \/ r.first \in cuts
          /\ \A k \in Nat : r.first < k /\ k < r.next => k \notin cuts
          /\ Covers(inodes[r.own].groups \o r.pending, r.first, cuts)
      BY <1>0, <2>2, <3>1, FramesFacts
    <3>5. Covers(inodes[r.own].groups \o pending, start, cuts)
      BY <1>f, <3>1, <3>3, <3>4, CoversAppend, Zenon
    <3>6. start \in cuts /\ r.next \in Nat
      BY <1>f, <2>2, <3>1
    <3> HIDE DEF start, pending, closes, opens
    <3>7. start \in Nat /\ start < r.next + 1 /\ \A k \in Nat : ~(start < k /\ k < r.next + 1)
      BY <3>1, <3>6
    <3> QED BY <3>3, <3>5, <3>6, <3>7, Zenon
  <2>3. CASE ~opens /\ ~closes
    <3>1. /\ start = r.first /\ pending = r.pending /\ r.first # None /\ r.next \notin cuts
          /\ Start0(r) = r.first
      BY <2>3 DEF Start0
    <3>2. /\ r.first \in Nat /\ r.first < r.next /\ (r.first = 0 \/ r.first \in cuts)
          /\ \A k \in Nat : r.first < k /\ k < r.next => k \notin cuts
          /\ Covers(inodes[r.own].groups \o r.pending, r.first, cuts)
      BY <1>0, <3>1, FramesFacts
    <3>3. \A k \in Nat : r.first < k /\ k < r.next + 1 => k \notin cuts
      <4>1. r.next \in Nat /\ \A k \in Nat : k < r.next + 1 => k < r.next \/ k = r.next
        BY <1>f
      <4> HIDE DEF r
      <4> QED BY <3>1, <3>2, <4>1
    <3> HIDE DEF start, pending
    <3> QED BY <1>f, <3>1, <3>2, <3>3
  <2> QED BY <2>1, <2>2, <2>3
<1>4. /\ d \in Inode /\ d.state = "building" /\ held \in Seq(GroupRecord)
      /\ Covers(d.groups \o held, start, cuts)
  <2>1. CASE full
    <3>1. /\ d \in Inode /\ d.state = "building" /\ held = <<>> /\ <<>> \in Seq(GroupRecord)
          /\ d.groups = inodes[r.own].groups \o pending
      BY <1>f, <1>3, <2>1, FlushedIsAnInode, EmptySeq, Zenon
    <3>2. d.groups \in Seq(GroupRecord)
      BY <3>1, Zenon DEF Inode
    <3>3. d.groups \o held = d.groups
      BY <3>1, <3>2, ConcatEmptySeq, Zenon
    <3> QED BY <1>3, <3>1, <3>3, Zenon
  <2>2. CASE ~full
    BY <1>f, <1>3, <2>2
  <2> QED BY <2>1, <2>2
<1>5. inodes' = [inodes EXCEPT ![r.own] = d]
  <2>1. CASE full
    BY <1>2, <2>1, Zenon
  <2>2. CASE ~full
    <3>1. d = inodes[r.own] /\ inodes' = inodes
      BY <1>2, <2>2
    <3>2. inodes = [inodes EXCEPT ![r.own] = inodes[r.own]]
      BY <1>f
    <3> HIDE DEF d
    <3> QED BY <3>1, <3>2
  <2> QED BY <2>1, <2>2
<1>6. DOMAIN inodes' = DOMAIN inodes /\ inodes'[r.own] = d
      /\ \A i \in DOMAIN inodes : i # r.own => inodes'[i] = inodes[i]
  BY <1>5, <1>f
<1> HIDE DEF d, start, held
<1>7. /\ n \in RunRecord /\ n.pc = "frames" /\ n.own = r.own /\ n.navigator = r.navigator
      /\ n.next = r.next + 1 /\ n.first = start /\ n.pending = held
  <2> DEFINE x == r.next + 1
  <2>1. x \in Nat
    BY <1>f
  <2>2. r \in RunRecord /\ start \in Nat /\ held \in Seq(GroupRecord)
    BY <1>f, <1>3, <1>4
  <2> HIDE DEF r, x
  <2>3. IsStepOf(n, r, x, start, held)
    BY <2>1, <2>2, SteppedRun DEF x
  <2> QED BY <1>0, <2>3 DEF x, r, IsStepOf
<1>8. AnalysisIn(n, inodes', cuts)
  <2>1. n.navigator # None => n.navigator \in DOMAIN inodes' /\ inodes'[n.navigator].state = "complete"
    <3>1. r.navigator # None => r.navigator \in DOMAIN inodes /\ inodes[r.navigator].state = "complete"
      BY <1>0, FramesFacts
    <3>2. r.navigator # None => r.navigator # r.own
      BY <1>f, <3>1
    <3>3. n.navigator = r.navigator
      BY <1>7
    <3> HIDE DEF n, r
    <3> QED BY <1>6, <3>1, <3>2, <3>3
  <2>2. Start0(n) = start /\ n.first # None
    BY <1>3, <1>7, GroupsAssumption DEF Start0
  <2>3. n.next <= FrameCount
    BY <1>0, <1>f, <1>7
  <2> HIDE DEF n
  <2> QED BY <1>3, <1>4, <1>6, <1>7, <1>f, <2>1, <2>2, <2>3 DEF AnalysisIn
<1> HIDE DEF n
<1>9. /\ d \in Inode /\ d.state # "complete" /\ Writes(run[t]) /\ n.own = run[t].own
      /\ cuts' = cuts /\ names' = names
  BY <1>0, <1>f, <1>4, <1>7
<1> QED BY <1>1, <1>5, <1>8, <1>9, WriteKeeps, Zenon

LEMMA DrainKeeps ==
  ASSUME GroupsInv, NEW t \in Analyses, Groups!Drain(t)
  PROVE  GroupsInv'
<1> DEFINE r == run[t]
           last == IF r.first = None THEN <<>> ELSE <<Groups!Group(r.first, FrameCount - 1)>>
           more == r.pending \o last
           d == Groups!Flushed(inodes[r.own], more)
           n == [r EXCEPT !.pc = "complete", !.pending = <<>>, !.first = None]
<1>0. r.pc = "frames" /\ r.next = FrameCount /\ cuts' = cuts /\ names' = names
  BY DEF Groups!Drain
<1>1. run' = [run EXCEPT ![t] = n] /\ inodes' = [inodes EXCEPT ![r.own] = d]
  BY Zenon DEF Groups!Drain
<1>f. /\ r \in RunRecord /\ Writes(r) /\ r.own \in DOMAIN inodes
      /\ inodes[r.own] \in Inode /\ inodes[r.own].state = "building"
      /\ inodes[r.own].groups \in Seq(GroupRecord) /\ r.pending \in Seq(GroupRecord)
      /\ FrameCount \in Nat /\ inodes \in Seq(Inode)
  BY <1>0, FramesFacts, GroupsAssumption DEF GroupsInv, InodesOk
<1>g. r.navigator # None => r.navigator \in DOMAIN inodes /\ inodes[r.navigator].state = "complete"
  BY <1>0, FramesFacts
<1>2. more \in Seq(GroupRecord) /\ Covers(inodes[r.own].groups \o more, FrameCount, cuts)
  <2>1. CASE r.first = None
    <3>1. last = <<>> /\ more = r.pending
      BY <1>f, <2>1, ConcatEmptySeq
    <3>2. Start0(r) = 0 /\ FrameCount = 0
      BY <1>0, <2>1, FramesFacts DEF Start0
    <3>3. Covers(inodes[r.own].groups \o r.pending, FrameCount, cuts)
      BY <1>0, <3>2, FramesFacts
    <3> HIDE DEF more, last, r
    <3> QED BY <1>f, <3>1, <3>3
  <2>2. CASE r.first # None
    <3> DEFINE e == Groups!Group(r.first, FrameCount - 1)
               gs == inodes[r.own].groups
               ps == r.pending
    <3>1. /\ r.first \in Nat /\ r.first < FrameCount /\ Start0(r) = r.first
          /\ r.first = 0 \/ r.first \in cuts
          /\ \A k \in Nat : r.first < k /\ k < FrameCount => k \notin cuts
          /\ Covers(gs \o ps, r.first, cuts)
      BY <1>0, <2>2, FramesFacts DEF Start0
    <3>2. e \in GroupRecord /\ last = <<e>> /\ gs \in Seq(GroupRecord) /\ ps \in Seq(GroupRecord)
      BY <1>f, <2>2, <3>1 DEF Groups!Group, GroupRecord
    <3>3. more = Append(ps, e)
      <4> HIDE DEF e, ps, last
      <4> QED BY <3>2, AppendIsConcat DEF ps
    <3>4. more \in Seq(GroupRecord) /\ gs \o more = Append(gs \o ps, e)
      <4> HIDE DEF e, ps, gs, more
      <4> QED BY <3>2, <3>3, ConcatAppend, AppendProperties
    <3>5. Covers(Append(gs \o ps, e), FrameCount, cuts)
      <4> HIDE DEF ps, gs
      <4> QED BY <1>f, <3>1, CoversAppend
    <3> HIDE DEF more, e, ps
    <3> QED BY <3>4, <3>5, Zenon
  <2> QED BY <2>1, <2>2
<1>3. d \in Inode /\ d.state = "building" /\ d.groups = inodes[r.own].groups \o more
  <2> HIDE DEF more
  <2> QED BY <1>f, <1>2, FlushedIsAnInode, Zenon
<1> HIDE DEF d
<1>4. n \in RunRecord /\ n.pc = "complete" /\ n.own = r.own /\ n.navigator = r.navigator
  <2>1. <<>> \in Seq(GroupRecord)
    BY EmptySeq
  <2> HIDE DEF r
  <2> QED BY <1>f, <2>1, Zenon DEF RunRecord
<1>5. /\ DOMAIN inodes' = DOMAIN inodes /\ inodes'[r.own] = d
      /\ \A i \in DOMAIN inodes : i # r.own => inodes'[i] = inodes[i]
  BY <1>1, <1>f
<1> HIDE DEF n
<1>6. n.navigator # None => n.navigator \in DOMAIN inodes' /\ inodes'[n.navigator].state = "complete"
  BY <1>f, <1>g, <1>4, <1>5
<1>7. AnalysisIn(n, inodes', cuts)
  <2>1. Covers(d.groups, FrameCount, cuts)
    BY <1>2, <1>3, Zenon
  <2> QED BY <1>f, <1>3, <1>4, <1>5, <1>6, <2>1, Zenon DEF AnalysisIn
<1>8. /\ d \in Inode /\ d.state # "complete" /\ Writes(run[t]) /\ n.own = run[t].own
      /\ cuts' = cuts /\ names' = names
  BY <1>0, <1>f, <1>3, <1>4
<1> QED BY <1>1, <1>7, <1>8, WriteKeeps, Zenon

LEMMA CompleteKeeps ==
  ASSUME GroupsInv, NEW t \in Analyses, Groups!Complete(t)
  PROVE  GroupsInv'
<1> DEFINE r == run[t]
           d == [inodes[r.own] EXCEPT !.state = "complete"]
           n == [r EXCEPT !.pc = "rename"]
<1>0. r.pc = "complete" /\ cuts' = cuts /\ names' = names
  BY DEF Groups!Complete
<1>1. run' = [run EXCEPT ![t] = n] /\ inodes' = [inodes EXCEPT ![r.own] = d]
  BY DEF Groups!Complete, Groups!Go
<1>f. /\ AnalysisIn(r, inodes, cuts) /\ inodes \in Seq(Inode) /\ Writes(r)
  BY <1>0 DEF GroupsInv, InodesOk, Writes
<1>2. /\ r \in RunRecord /\ r.own \in DOMAIN inodes /\ inodes[r.own] \in Inode
      /\ Covers(inodes[r.own].groups, FrameCount, cuts)
      /\ r.navigator # None => r.navigator \in DOMAIN inodes /\ inodes[r.navigator].state = "complete"
  BY <1>0, <1>f DEF AnalysisIn
<1>3. d \in Inode /\ d.state = "complete" /\ d.groups = inodes[r.own].groups
  <2> DEFINE b == inodes[r.own]
  <2>1. b \in Inode
    BY <1>2
  <2> HIDE DEF b
  <2>2. [b EXCEPT !.state = "complete"] \in Inode
    BY <2>1 DEF Inode, Groups!States
  <2>3. [b EXCEPT !.state = "complete"].state = "complete" /\ [b EXCEPT !.state = "complete"].groups = b.groups
    BY <2>1 DEF Inode
  <2> QED BY <2>2, <2>3 DEF b
<1> HIDE DEF d
<1>4. n \in RunRecord /\ n.pc = "rename" /\ n.navigator = r.navigator
  <2> HIDE DEF r
  <2> QED BY <1>2 DEF RunRecord
<1>5. /\ DOMAIN inodes' = DOMAIN inodes /\ inodes'[r.own] = d
      /\ \A i \in DOMAIN inodes : i # r.own => inodes'[i] = inodes[i]
  BY <1>1, <1>2
<1> HIDE DEF n
<1>6. n.navigator # None => n.navigator \in DOMAIN inodes' /\ inodes'[n.navigator].state = "complete"
  BY <1>2, <1>3, <1>4, <1>5
<1>7. AnalysisIn(n, inodes', cuts) /\ ~Writes(n)
  BY <1>4, <1>6 DEF AnalysisIn, Writes
<1>8. /\ d \in Inode /\ Covers(d.groups, FrameCount, cuts) /\ Writes(run[t])
      /\ cuts' = cuts /\ names' = names
  BY <1>0, <1>f, <1>2, <1>3
<1> QED BY <1>1, <1>7, <1>8, WriteKeeps, Zenon

LEMMA BeginKeeps ==
  ASSUME GroupsInv, NEW t \in Analyses, Groups!Begin(t)
  PROVE  GroupsInv'
<1> DEFINE o == Len(inodes) + 1
           d == Groups!Database("building", <<>>)
           n == [Groups!Idle EXCEPT !.pc = "frames", !.own = o]
<1>0. /\ inodes \in Seq(Inode) /\ InodesOk(inodes, cuts) /\ NamesOk(names, inodes)
      /\ cuts \subseteq 1 .. FrameCount - 1 /\ \A u \in Analyses : AnalysisIn(run[u], inodes, cuts)
  BY DEF GroupsInv, InodesOk
<1>1. /\ inodes' = Append(inodes, d) /\ names' = [names EXCEPT !.building = o]
      /\ run' = [run EXCEPT ![t] = n] /\ cuts' = cuts
  BY DEF Groups!Begin
<1>2. d \in Inode /\ d.state = "building" /\ d.groups = <<>> /\ <<>> \in Seq(GroupRecord)
  BY EmptySeq DEF Groups!Database, Inode, Groups!States
<1> HIDE DEF d
<1>3. /\ inodes' \in Seq(Inode) /\ o \in Nat /\ DOMAIN inodes' = 1 .. o /\ DOMAIN inodes = 1 .. Len(inodes)
      /\ o \in DOMAIN inodes' /\ o \notin DOMAIN inodes /\ inodes'[o] = d
      /\ \A i \in DOMAIN inodes : i \in DOMAIN inodes' /\ inodes'[i] = inodes[i]
  <2>1. Len(inodes) \in Nat /\ DOMAIN inodes = 1 .. Len(inodes)
    BY <1>0, LenProperties
  <2>2. /\ Append(inodes, d) \in Seq(Inode) /\ Len(Append(inodes, d)) = Len(inodes) + 1
        /\ \A i \in 1 .. Len(inodes) : Append(inodes, d)[i] = inodes[i]
        /\ Append(inodes, d)[Len(inodes) + 1] = d
    BY <1>0, <1>2, AppendProperties
  <2>3. DOMAIN Append(inodes, d) = 1 .. Len(Append(inodes, d))
    BY <2>2, LenProperties
  <2> QED BY <1>1, <2>1, <2>2, <2>3
<1>4. o # None
  BY <1>3, GroupsAssumption
<1>5. /\ n \in RunRecord
  BY <1>3, IdleIsARun, Zenon
<1>6. /\ n.pc = "frames" /\ n.own = o /\ n.navigator = None /\ n.next = 0 /\ n.first = None
      /\ n.pending = <<>>
  BY DEF Groups!Idle
<1> HIDE DEF n
<1>7. AnalysisIn(n, inodes', cuts)
  <2>1. d.groups \o n.pending = <<>>
    BY <1>2, <1>6, ConcatEmptySeq
  <2>2. Start0(n) = 0
    BY <1>6 DEF Start0
  <2>3. Covers(<<>>, 0, cuts)
    BY <1>2 DEF Covers
  <2>4. Covers(inodes'[n.own].groups \o n.pending, Start0(n), cuts)
    BY <1>3, <1>6, <2>1, <2>2, <2>3
  <2>5. n.next <= FrameCount
    BY <1>6, GroupsAssumption
  <2> QED BY <1>2, <1>3, <1>5, <1>6, <2>4, <2>5 DEF AnalysisIn
<1>8. ASSUME NEW u \in Analyses PROVE AnalysisIn(run[u], inodes', cuts)
  <2> DEFINE r == run[u]
  <2>1. AnalysisIn(r, inodes, cuts)
    BY <1>0
  <2> HIDE DEF r
  <2>2. r.navigator # None => r.navigator \in DOMAIN inodes' /\ inodes'[r.navigator].state = "complete"
    BY <1>3, <2>1 DEF AnalysisIn
  <2>3. Writes(r) => r.own \in DOMAIN inodes /\ r.own \in DOMAIN inodes' /\ inodes'[r.own] = inodes[r.own]
    BY <1>3, <2>1 DEF AnalysisIn
  <2>4. (r.pc = "frames" => Writes(r)) /\ (r.pc = "complete" => Writes(r))
    BY DEF Writes
  <2>5. AnalysisIn(r, inodes', cuts)
    BY <2>1, <2>2, <2>3, <2>4 DEF AnalysisIn
  <2> QED BY <2>5 DEF r
<1>9. run' = [u \in Analyses |-> IF u = t THEN n ELSE run[u]]
  BY <1>1 DEF GroupsInv
<1>10. run'[t] = n /\ \A u \in Analyses : u # t => run'[u] = run[u]
  BY <1>9
<1>11. run' = [u \in Analyses |-> run'[u]]
  BY <1>9, Zenon
<1>12. \A u \in Analyses : AnalysisIn(run'[u], inodes', cuts)
  BY <1>7, <1>8, <1>10
<1>13. ASSUME NEW u \in Analyses, NEW v \in Analyses, u # v, Writes(run'[u]), Writes(run'[v])
       PROVE  run'[u].own # run'[v].own
  <2>1. \A w \in Analyses : Writes(run[w]) => run[w].own # o
    <3>1. \A w \in Analyses : Writes(run[w]) => run[w].own \in DOMAIN inodes
      BY <1>0, Zenon DEF AnalysisIn
    <3>2. o \notin DOMAIN inodes
      BY <1>3, Zenon
    <3> HIDE DEF o
    <3> QED BY <3>1, <3>2, Zenon
  <2>2. CASE u = t
    BY <1>6, <1>10, <1>13, <2>1, <2>2
  <2>3. CASE v = t
    BY <1>6, <1>10, <1>13, <2>1, <2>3
  <2>4. CASE u # t /\ v # t
    BY <1>10, <1>13, <2>4 DEF GroupsInv
  <2> QED BY <2>2, <2>3, <2>4
<1>14. InodesOk(inodes', cuts)
  <2>1. ASSUME NEW i \in DOMAIN inodes', inodes'[i].state = "complete"
        PROVE  Covers(inodes'[i].groups, FrameCount, cuts)
    <3>1. i \in DOMAIN inodes
      BY <1>2, <1>3, <2>1, LenProperties, <1>0
    <3> QED BY <1>0, <1>3, <2>1, <3>1 DEF InodesOk
  <2> QED BY <1>3, <2>1 DEF InodesOk
<1>15. NamesOk(names', inodes')
  BY <1>0, <1>1, <1>3 DEF NamesOk
<1> QED BY <1>0, <1>1, <1>11, <1>12, <1>13, <1>14, <1>15, Zenon DEF GroupsInv

LEMMA CrashKeeps ==
  ASSUME GroupsInv, Groups!Crash
  PROVE  GroupsInv'
<1>1. /\ run' = [t \in Analyses |-> Groups!Idle] /\ cuts' = cuts /\ inodes' = inodes /\ names' = names
  BY DEF Groups!Crash
<1>2. Groups!Idle \in RunRecord
  BY IdleIsARun, GroupsAssumption, Zenon
<1>3. Groups!Idle.pc = "idle" /\ Groups!Idle.navigator = None
  BY DEF Groups!Idle
<1>4. AnalysisIn(Groups!Idle, inodes, cuts) /\ ~Writes(Groups!Idle)
  BY <1>2, <1>3 DEF AnalysisIn, Writes
<1>5. run' = [t \in Analyses |-> run'[t]] /\ \A t \in Analyses : run'[t] = Groups!Idle
  BY <1>1, Zenon
<1> QED BY <1>1, <1>4, <1>5, Zenon DEF GroupsInv

LEMMA GroupsInductive ==
  /\ Groups!Init => GroupsInv
  /\ GroupsInv /\ [Groups!Next]_(Groups!vars) => GroupsInv'
<1>1. ASSUME Groups!Init PROVE GroupsInv
  <2>1. /\ run = [t \in Analyses |-> Groups!Idle] /\ cuts \subseteq 1 .. FrameCount - 1
        /\ names = [final |-> IF inodes = <<>> THEN None ELSE 1, building |-> None]
        /\ inodes \in {<<>>} \cup {<<Groups!Database(s, <<>>)>> : s \in {"stale", "garbage"}}
    BY <1>1 DEF Groups!Init
  <2>2. Groups!Idle \in RunRecord
    BY IdleIsARun, GroupsAssumption, Zenon
  <2>3. Groups!Idle.pc = "idle" /\ Groups!Idle.navigator = None
    BY DEF Groups!Idle
  <2>4. AnalysisIn(Groups!Idle, inodes, cuts) /\ ~Writes(Groups!Idle)
    BY <2>2, <2>3 DEF AnalysisIn, Writes
  <2>5. run = [t \in Analyses |-> run[t]] /\ \A t \in Analyses : run[t] = Groups!Idle
    BY <2>1, Zenon
  <2>6. InodesOk(inodes, cuts) /\ NamesOk(names, inodes)
    <3>1. CASE inodes = <<>>
      <4>1. inodes \in Seq(Inode) /\ DOMAIN inodes = {} /\ names.final = None /\ names.building = None
        BY <2>1, <3>1, EmptySeq
      <4> QED BY <4>1 DEF InodesOk, NamesOk
    <3>2. ASSUME NEW s \in {"stale", "garbage"}, inodes = <<Groups!Database(s, <<>>)>>
          PROVE  InodesOk(inodes, cuts) /\ NamesOk(names, inodes)
      <4> DEFINE d == Groups!Database(s, <<>>)
      <4>1. d \in Inode /\ d.state = s
        BY EmptySeq DEF Groups!Database, Inode, Groups!States
      <4> HIDE DEF d
      <4>2. inodes = <<d>> /\ inodes # <<>>
        BY <3>2 DEF d
      <4>3. inodes \in Seq(Inode) /\ DOMAIN inodes = {1} /\ inodes[1] = d
        BY <4>1, <4>2
      <4>4. names.final = 1 /\ names.building = None
        BY <2>1, <4>2
      <4> QED BY <4>1, <4>3, <4>4 DEF InodesOk, NamesOk
    <3> QED BY <2>1, <3>1, <3>2
  <2> QED BY <2>1, <2>4, <2>5, <2>6, Zenon DEF GroupsInv
<1>2. ASSUME GroupsInv, Groups!Next PROVE GroupsInv'
  BY <1>2, CrashKeeps, ReadersKeep, BeginKeeps, FrameKeeps, DrainKeeps, CompleteKeeps DEF Groups!Next
<1>3. ASSUME GroupsInv, UNCHANGED Groups!vars PROVE GroupsInv'
  BY <1>3 DEF GroupsInv, Groups!vars
<1> QED BY <1>1, <1>2, <1>3

(***************************************************************************)
(* For any number of analyses of any timeline, whatever is renamed, purged *)
(* or left half-built in between: what a navigator has opened is a         *)
(* complete partition of the timeline, cut exactly where the grouper cuts  *)
(* (SimilarityGroupNavigator::open, begin, append, flush_batch, finish).   *)
(***************************************************************************)
THEOREM NavigatorIsAlwaysWhole == Groups!Spec => []NavigatorIsWhole
<1>1. GroupsInv => NavigatorIsWhole
  <2> SUFFICES ASSUME GroupsInv, NEW t \in Analyses, run[t].navigator # None
               PROVE  LET db == inodes[run[t].navigator] IN db.state = "complete" /\ Groups!Whole(db.groups)
    BY DEF NavigatorIsWhole, Groups!NavigatorIsWhole
  <2>1. run[t].navigator \in DOMAIN inodes /\ inodes[run[t].navigator].state = "complete"
    BY DEF GroupsInv, AnalysisIn
  <2>2. Covers(inodes[run[t].navigator].groups, FrameCount, cuts) /\ cuts \subseteq 1 .. FrameCount - 1
    BY <2>1 DEF GroupsInv, InodesOk
  <2> QED BY <2>1, <2>2, CoversIsWhole
<1> QED BY <1>1, GroupsInductive, PTL DEF Groups!Spec

(***************************************************************************)
(* The companion catalogue.  Whatever was in the file, a catalogue that is *)
(* open is bound to the authority it was opened for, holds what was        *)
(* written under that binding only, and its anchors are those of the       *)
(* prefix it was last synchronised with.                                   *)
(***************************************************************************)
LayerNames == {"structural", "visual", "exact"}

Own(db, b) ==
  /\ db.layers # None => \A l \in LayerNames : db.layers[l].by \in {None, b}
  /\ db.visuals \subseteq {None, b}
  /\ db.similarity.by \in {None, b}

OpenFor(db, b) == db \in Catalogues /\ db.schema = 1 /\ db.meta = b /\ db.layers # None /\ Own(db, b)

\* The anchors a are the groups of pictures of rows.
CutsInto(a, rows, life) ==
  /\ \A i \in DOMAIN rows : rows[i] = "key" <=> \E n \in DOMAIN a : a[n].frame = i - 1
  /\ \A n \in DOMAIN a : n < Len(a) => a[n].end = a[n + 1].frame /\ a[n].frame < a[n].end
  /\ a # <<>> => a[Len(a)].end = IF life = "complete" THEN Len(rows) ELSE None

SyncedTo(db, s) ==
  /\ CutsInto(db.anchors, s.rows, s.life)
  /\ db.layers.structural.done = Len(db.anchors)
  /\ db.layers.exact.prefix = Len(s.rows)

CatalogueInv ==
  /\ authority \in [id : CompanionIdentities, rows : Seq(Companion!Kinds), life : Companion!Lives]
  /\ generation \in CompanionGenerations
  /\ file \in {NoFile, Garbage} \cup Catalogues
  /\ handle \in {"closed", "open"}
  /\ handle = "open" => OpenFor(file, Companion!Binding)
  /\ file \in Catalogues /\ file.meta # None => Own(file, file.meta)
  /\ file \in Catalogues /\ file.layers # None /\ snapshot # None => SyncedTo(file, snapshot)

INSTANCE FiniteSetTheorems

LEMMA CompanionCardinality == \A S : Companion!Cardinality(S) = Cardinality(S)
BY Zenon DEF Companion!Cardinality, Cardinality

\* Nth lists a set of row numbers in ascending order, each once.
LEMMA NthIsAscending ==
  ASSUME NEW m \in Nat, NEW K \in SUBSET (1 .. m)
  PROVE  /\ Cardinality(K) \in Nat
         /\ \A n \in 1 .. Cardinality(K) : Companion!Nth(K, n) \in K
         /\ \A i \in K : \E n \in 1 .. Cardinality(K) : Companion!Nth(K, n) = i
         /\ \A n \in 1 .. Cardinality(K) - 1 : Companion!Nth(K, n) < Companion!Nth(K, n + 1)
<1> DEFINE below(i) == {j \in K : j < i}
           size == Cardinality(K)
           rank == [i \in K |-> Cardinality(below(i))]
<1>0. \A i \in K : i \in Int
  OBVIOUS
<1>1. IsFiniteSet(K) /\ size \in Nat
  <2>1. IsFiniteSet(1 .. m)
    BY FS_Interval
  <2>2. IsFiniteSet(K)
    BY <2>1, FS_Subset, Zenon
  <2> QED BY <2>2, FS_CardinalityType, Zenon
<1>2. \A i \in K : below(i) \in SUBSET K /\ IsFiniteSet(below(i)) /\ Cardinality(below(i)) \in Nat
  <2> SUFFICES ASSUME NEW i \in K
               PROVE  below(i) \in SUBSET K /\ IsFiniteSet(below(i)) /\ Cardinality(below(i)) \in Nat
    OBVIOUS
  <2>1. below(i) \in SUBSET K
    OBVIOUS
  <2> HIDE DEF below
  <2>2. IsFiniteSet(below(i))
    BY <1>1, <2>1, FS_Subset, Zenon
  <2> QED BY <2>1, <2>2, FS_CardinalityType, Zenon
<1>3. ASSUME NEW i \in K, NEW j \in K, i < j PROVE Cardinality(below(i)) < Cardinality(below(j))
  <2>0. (\A k \in K : k < i => k < j) /\ ~(i < i)
    BY <1>0, <1>3
  <2>1. below(i) \in SUBSET below(j) /\ i \in below(j) /\ i \notin below(i)
    BY <1>3, <2>0, Zenon
  <2> HIDE DEF below
  <2>2. /\ Cardinality(below(i)) <= Cardinality(below(j))
        /\ Cardinality(below(j)) = Cardinality(below(i)) => below(j) = below(i)
    BY <1>2, <2>1, FS_Subset, Zenon
  <2> QED BY <1>2, <2>1, <2>2
<1>4. ASSUME NEW i \in K PROVE Cardinality(below(i)) \in 0 .. size - 1
  <2>1. below(i) \in SUBSET K /\ i \notin below(i)
    OBVIOUS
  <2> HIDE DEF below
  <2>2. Cardinality(below(i)) <= size /\ (size = Cardinality(below(i)) => K = below(i))
    BY <1>1, <2>1, FS_Subset, Zenon
  <2> HIDE DEF size
  <2> QED BY <1>1, <1>2, <2>1, <2>2
<1> HIDE DEF below
<1>5. rank \in Injection(K, 0 .. size - 1)
  <2>1. rank \in [K -> 0 .. size - 1]
    BY <1>4
  <2>2. ASSUME NEW i \in K, NEW j \in K, rank[i] = rank[j] PROVE i = j
    <3>1. Cardinality(below(i)) = Cardinality(below(j)) /\ i \in Int /\ j \in Int
      BY <2>2
    <3> QED BY <1>2, <1>3, <3>1
  <2> HIDE DEF rank
  <2> QED BY <2>1, <2>2 DEF Injection, IsInjective
<1>6. IsFiniteSet(0 .. size - 1) /\ Cardinality(0 .. size - 1) = size
  <2> HIDE DEF size
  <2>1. 0 \in Int /\ size - 1 \in Int
    BY <1>1
  <2>2. /\ IsFiniteSet(0 .. size - 1)
        /\ Cardinality(0 .. size - 1) = IF 0 > size - 1 THEN 0 ELSE (size - 1) - 0 + 1
    BY <2>1, FS_Interval, Zenon
  <2> QED BY <1>1, <2>2
<1>7. rank \in Surjection(K, 0 .. size - 1)
  <2> HIDE DEF rank
  <2> QED BY <1>5, <1>6, FS_Injection, Zenon
<1>8. ASSUME NEW n \in 1 .. size
      PROVE  Companion!Nth(K, n) \in K /\ Cardinality(below(Companion!Nth(K, n))) = n - 1
  <2> HIDE DEF size
  <2>1. n - 1 \in 0 .. size - 1
    BY <1>1
  <2>2. \E i \in K : rank[i] = n - 1
    <3> HIDE DEF rank
    <3> QED BY <1>7, <2>1 DEF Surjection
  <2>3. \E i \in K : Companion!Cardinality({j \in K : j < i}) = n - 1
    BY <2>2, CompanionCardinality DEF below
  <2> HIDE DEF rank
  <2>4. /\ Companion!Nth(K, n) \in K
        /\ Companion!Cardinality({j \in K : j < Companion!Nth(K, n)}) = n - 1
    BY <2>3, Zenon DEF Companion!Nth
  <2> QED BY <2>4, CompanionCardinality, Zenon DEF below
<1>9. ASSUME NEW i \in K PROVE \E n \in 1 .. size : Companion!Nth(K, n) = i
  <2> DEFINE n == Cardinality(below(i)) + 1
  <2>1. n \in 1 .. size /\ n - 1 = Cardinality(below(i))
    <3> HIDE DEF size
    <3> QED BY <1>1, <1>2, <1>4
  <2> HIDE DEF n
  <2>2. Companion!Nth(K, n) \in K /\ Cardinality(below(Companion!Nth(K, n))) = n - 1
    BY <1>8, <2>1, Zenon
  <2>3. i \in Int /\ Companion!Nth(K, n) \in Int
    BY <1>0, <2>2, Zenon
  <2>4. Companion!Nth(K, n) = i
    BY <1>2, <1>3, <2>1, <2>2, <2>3
  <2> QED BY <2>1, <2>4
<1>10. ASSUME NEW n \in 1 .. size - 1 PROVE Companion!Nth(K, n) < Companion!Nth(K, n + 1)
  <2> HIDE DEF size
  <2>1. n \in 1 .. size /\ n + 1 \in 1 .. size /\ (n + 1) - 1 = n
    BY <1>1
  <2>2. /\ Companion!Nth(K, n) \in K /\ Cardinality(below(Companion!Nth(K, n))) = n - 1
        /\ Companion!Nth(K, n + 1) \in K /\ Cardinality(below(Companion!Nth(K, n + 1))) = n
    BY <1>8, <2>1
  <2>3. Companion!Nth(K, n) \in Int /\ Companion!Nth(K, n + 1) \in Int
    BY <1>0, <2>2, Zenon
  <2>4. n \in Int
    BY <1>1
  <2> QED BY <1>2, <1>3, <2>2, <2>3, <2>4
<1> QED BY <1>1, <1>8, <1>9, <1>10

\* synchronize_authoritative_snapshot lists the groups of pictures of its rows.
LEMMA AnchorsCut ==
  ASSUME NEW rows \in Seq(Companion!Kinds), NEW life
  PROVE  /\ Companion!Anchors(rows, life) \in Seq([frame : Nat, end : Nat \cup {None}])
         /\ CutsInto(Companion!Anchors(rows, life), rows, life)
<1> DEFINE K == Companion!CleanKeyframes(rows)
           size == Cardinality(K)
           nth(n) == Companion!Nth(K, n)
           a == Companion!Anchors(rows, life)
           close == IF life = "complete" THEN Len(rows) ELSE None
<1>1. Len(rows) \in Nat /\ DOMAIN rows = 1 .. Len(rows)
  BY LenProperties
<1>2. /\ K \in SUBSET (1 .. Len(rows))
      /\ \A i \in 1 .. Len(rows) : i \in K <=> rows[i] = "key"
  BY <1>1 DEF Companion!CleanKeyframes
<1>3. a = [n \in 1 .. size |-> [frame |-> nth(n) - 1, end |-> IF n < size THEN nth(n + 1) - 1 ELSE close]]
  BY CompanionCardinality, Zenon DEF Companion!Anchors
<1> HIDE DEF K, a
<1>4. /\ size \in Nat
      /\ \A n \in 1 .. size : nth(n) \in K
      /\ \A i \in K : \E n \in 1 .. size : nth(n) = i
      /\ \A n \in 1 .. size - 1 : nth(n) < nth(n + 1)
  BY <1>1, <1>2, NthIsAscending, Zenon
<1>5. close \in Nat \cup {None}
  BY <1>1, Zenon
<1> HIDE DEF size, nth, close
<1>6. \A n \in 1 .. size : nth(n) \in 1 .. Len(rows)
  BY <1>2, <1>4, Zenon
<1>7. /\ DOMAIN a = 1 .. size
      /\ \A n \in 1 .. size : a[n].frame = nth(n) - 1
      /\ \A n \in 1 .. size : a[n].end = IF n < size THEN nth(n + 1) - 1 ELSE close
  BY <1>3
<1>8. a \in Seq([frame : Nat, end : Nat \cup {None}])
  <2>1. ASSUME NEW n \in 1 .. size
        PROVE  [frame |-> nth(n) - 1, end |-> IF n < size THEN nth(n + 1) - 1 ELSE close]
                 \in [frame : Nat, end : Nat \cup {None}]
    <3>1. nth(n) - 1 \in Nat
      BY <1>1, <1>6
    <3>2. n < size => n + 1 \in 1 .. size
      BY <1>4
    <3>3. n < size => nth(n + 1) - 1 \in Nat
      BY <1>1, <1>6, <3>2
    <3> QED BY <1>5, <3>1, <3>3
  <2>2. a \in [1 .. size -> [frame : Nat, end : Nat \cup {None}]]
    BY <1>3, <2>1
  <2> DEFINE X == [frame : Nat, end : Nat \cup {None}]
  <2>3. a \in [1 .. size -> X] /\ size \in Nat
    BY <1>4, <2>2
  <2> HIDE DEF X
  <2>4. a \in Seq(X)
    <3>1. ASSUME NEW n \in Nat, NEW g \in [1 .. n -> X] PROVE g \in Seq(X)
      BY SeqDef, Zenon
    <3> QED BY <2>3, <3>1, Zenon
  <2> QED BY <2>4 DEF X
<1>9. Len(a) = size
  BY <1>4, <1>7, <1>8, LenProperties
<1>10. ASSUME NEW i \in DOMAIN rows PROVE rows[i] = "key" <=> \E n \in DOMAIN a : a[n].frame = i - 1
  <2>1. ASSUME rows[i] = "key" PROVE \E n \in DOMAIN a : a[n].frame = i - 1
    <3>1. i \in K
      BY <1>1, <1>2, <2>1
    <3>2. PICK n \in 1 .. size : nth(n) = i
      BY <1>4, <3>1
    <3> QED BY <1>7, <3>2
  <2>2. ASSUME NEW n \in DOMAIN a, a[n].frame = i - 1 PROVE rows[i] = "key"
    <3>1. nth(n) \in K /\ nth(n) - 1 = i - 1 /\ nth(n) \in Int /\ i \in Int
      BY <1>1, <1>4, <1>6, <1>7, <2>2
    <3>2. i \in K
      BY <3>1
    <3> QED BY <1>1, <1>2, <3>2
  <2> QED BY <2>1, <2>2
<1>11. ASSUME NEW n \in DOMAIN a, n < Len(a) PROVE a[n].end = a[n + 1].frame /\ a[n].frame < a[n].end
  <2>1. n \in 1 .. size /\ n < size /\ n + 1 \in 1 .. size /\ n \in 1 .. size - 1
    BY <1>4, <1>7, <1>9, <1>11
  <2>2. nth(n) < nth(n + 1) /\ nth(n) \in Int /\ nth(n + 1) \in Int
    BY <1>4, <1>6, <2>1
  <2> QED BY <1>7, <2>1, <2>2
<1>12. a # <<>> => a[Len(a)].end = close
  <2> SUFFICES ASSUME a # <<>> PROVE a[Len(a)].end = close
    OBVIOUS
  <2>1. size # 0
    BY <1>8, <1>9, EmptySeq
  <2>2. size \in 1 .. size /\ ~(size < size)
    BY <1>4, <2>1
  <2> QED BY <1>7, <1>9, <2>2
<1> QED BY <1>8, <1>10, <1>11, <1>12 DEF CutsInto, a, close

LEMMA RebindIsOwn ==
  ASSUME CatalogueInv, NEW db
  PROVE  /\ OpenFor(Companion!Rebind(db), Companion!Binding)
         /\ Companion!ValidCatalog(Companion!Rebind(db))
<1> DEFINE r == Companion!Rebind(db)
           b == Companion!Binding
           z == Companion!NotStarted
<1>1. b \in Bindings
  BY DEF CatalogueInv, Companion!Binding, Bindings
<1>2. z \in Statuses /\ z.by = None /\ z.life = "not_started"
  BY DEF Companion!NotStarted, Companion!Status, Statuses
<1>3. r = [schema |-> 1, meta |-> b, layers |-> [structural |-> z, visual |-> z, exact |-> z],
           anchors |-> <<>>, visuals |-> {}, similarity |-> z]
  BY DEF Companion!Rebind, Companion!StatusRows
<1> HIDE DEF r, b, z
<1> DEFINE y == [structural |-> z, visual |-> z, exact |-> z]
<1>4. y \in Layers /\ \A l \in LayerNames : y[l] = z
  BY <1>2 DEF Layers, LayerNames
<1>5. DOMAIN y = LayerNames
  BY DEF LayerNames
<1> HIDE DEF y
<1>6. r = [schema |-> 1, meta |-> b, layers |-> y, anchors |-> <<>>, visuals |-> {}, similarity |-> z]
  BY <1>3 DEF y
<1>7. /\ r \in Catalogues /\ r.schema = 1 /\ r.meta = b /\ r.layers = y /\ r.visuals = {} /\ r.similarity = z
  BY <1>1, <1>2, <1>4, <1>6, EmptySeq DEF Catalogues
<1>8. y # None
  BY <1>4, CompanionAssumption
<1>9. Own(r, b)
  BY <1>2, <1>4, <1>7 DEF Own
<1>10. Companion!ValidCatalog(r)
  BY <1>2, <1>4, <1>5, <1>7, <1>8 DEF Companion!ValidCatalog, Companion!Consistent
<1> QED BY <1>7, <1>8, <1>9, <1>10 DEF OpenFor, r, b

\* try_open either has no answer or a catalogue bound to the authority, and the
\* answer for an empty path is never missing.
LEMMA TryOpenIsOwn ==
  ASSUME CatalogueInv
  PROVE  /\ Companion!TryOpen(file) # None => OpenFor(Companion!TryOpen(file), Companion!Binding)
         /\ OpenFor(Companion!TryOpen(NoFile), Companion!Binding)
         /\ file = NoFile => Companion!TryOpen(file) # None
<1>1. ASSUME NEW f \in {NoFile, Garbage} \cup Catalogues, Companion!TryOpen(f) # None,
             f \in Catalogues /\ f.meta # None => Own(f, f.meta)
      PROVE  OpenFor(Companion!TryOpen(f), Companion!Binding)
  <2> DEFINE db == IF f = NoFile THEN Companion!Migrated ELSE f
             bound == IF db.meta # None /\ Companion!Belongs(db) THEN db ELSE Companion!Rebind(db)
  <2>1. f # Garbage /\ db.schema = 1 /\ Companion!ValidCatalog(bound) /\ Companion!TryOpen(f) = bound
    BY <1>1, Zenon DEF Companion!TryOpen
  <2>2. CASE db.meta # None /\ Companion!Belongs(db)
    <3>1. f # NoFile
      BY <2>2 DEF Companion!Migrated
    <3>2. db = f /\ bound = f /\ f \in Catalogues
      BY <1>1, <2>1, <2>2, <3>1
    <3>3. f.meta \in Bindings /\ f.meta.id = authority.id /\ f.meta.generation = generation
      BY <2>2, <3>2 DEF Companion!Belongs, Catalogues
    <3>4. f.meta = Companion!Binding
      BY <3>3 DEF Bindings, Companion!Binding
    <3>5. Own(f, Companion!Binding)
      BY <1>1, <2>2, <3>2, <3>4
    <3>6. f.layers # None
      BY <2>1, <3>2 DEF Companion!ValidCatalog
    <3>s. f.schema = 1
      BY <2>1, <3>2
    <3> HIDE DEF bound, db
    <3>7. Companion!TryOpen(f) = f
      BY <2>1, <3>2
    <3> QED BY <3>s, <3>2, <3>4, <3>5, <3>6, <3>7 DEF OpenFor
  <2>3. CASE ~(db.meta # None /\ Companion!Belongs(db))
    <3>1. bound = Companion!Rebind(db)
      BY <2>3, Zenon
    <3> HIDE DEF bound, db
    <3> QED BY <2>1, <3>1, RebindIsOwn
  <2> QED BY <2>2, <2>3
<1>2. Companion!TryOpen(NoFile) = Companion!Rebind(Companion!Migrated)
  <2>1. Companion!Migrated.meta = None /\ Companion!Migrated.schema = 1
    BY DEF Companion!Migrated
  <2>2. NoFile # Garbage /\ Companion!ValidCatalog(Companion!Rebind(Companion!Migrated))
    BY CompanionAssumption, RebindIsOwn
  <2> QED BY <2>1, <2>2, Zenon DEF Companion!TryOpen
<1>3. OpenFor(Companion!TryOpen(NoFile), Companion!Binding)
  BY <1>2, RebindIsOwn
<1>4. Companion!TryOpen(NoFile) # None
  BY <1>3, CompanionAssumption DEF OpenFor
<1> QED BY <1>1, <1>3, <1>4 DEF CatalogueInv

LEMMA CatalogueOpens ==
  ASSUME CatalogueInv, Companion!OpenOrCreate
  PROVE  CatalogueInv'
<1> DEFINE first == Companion!TryOpen(file)
           result == IF first = None THEN Companion!TryOpen(NoFile) ELSE first
<1>1. /\ file' = result /\ handle' = (IF result = None THEN "failed" ELSE "open")
      /\ snapshot' = (IF result = file THEN snapshot ELSE None)
      /\ authority' = authority /\ generation' = generation
  BY DEF Companion!OpenOrCreate
<1>2. OpenFor(result, Companion!Binding)
  BY TryOpenIsOwn
<1> HIDE DEF first, result
<1>3. result \in Catalogues /\ result # None
  BY <1>2, CompanionAssumption DEF OpenFor
<1>4. Companion!Binding' = Companion!Binding
  BY <1>1 DEF Companion!Binding
<1>5. handle' = "open" /\ OpenFor(file', Companion!Binding')
  BY <1>1, <1>2, <1>3, <1>4
<1>6. Own(file', file'.meta)
  BY <1>1, <1>2 DEF OpenFor
<1>7. file' \in Catalogues /\ file'.layers # None /\ snapshot' # None => SyncedTo(file', snapshot')
  BY <1>1, <1>3 DEF CatalogueInv
<1> QED BY <1>1, <1>3, <1>5, <1>6, <1>7 DEF CatalogueInv

\* A transaction on an open catalogue that writes under its binding.
LEMMA CatalogueWritten ==
  ASSUME CatalogueInv, handle = "open", UNCHANGED <<authority, generation, handle>>,
         OpenFor(file', Companion!Binding), snapshot' # None => SyncedTo(file', snapshot')
  PROVE  CatalogueInv'
<1>1. Companion!Binding' = Companion!Binding
  BY DEF Companion!Binding
<1>2. file' \in Catalogues /\ Own(file', file'.meta)
  BY DEF OpenFor
<1> QED BY <1>1, <1>2 DEF CatalogueInv

\* What an open catalogue is made of.
LEMMA OpenParts ==
  ASSUME CatalogueInv, handle = "open"
  PROVE  /\ Companion!Binding \in Bindings
         /\ OpenFor(file, Companion!Binding) /\ file \in Catalogues /\ file.layers \in Layers
         /\ file.layers = [structural |-> file.layers.structural, visual |-> file.layers.visual,
                           exact |-> file.layers.exact]
         /\ file.layers.structural \in Statuses /\ file.layers.visual \in Statuses /\ file.layers.exact \in Statuses
         /\ snapshot # None => SyncedTo(file, snapshot)
<1>1. Companion!Binding \in Bindings
  BY DEF CatalogueInv, Companion!Binding, Bindings
<1>2. OpenFor(file, Companion!Binding) /\ file \in Catalogues
  BY DEF CatalogueInv, OpenFor
<1>3. file.layers \in Layers
  BY <1>2 DEF OpenFor, Catalogues
<1>4. /\ file.layers = [structural |-> file.layers.structural, visual |-> file.layers.visual,
                        exact |-> file.layers.exact]
      /\ file.layers.structural \in Statuses /\ file.layers.visual \in Statuses /\ file.layers.exact \in Statuses
  BY <1>3 DEF Layers
<1>5. snapshot # None => SyncedTo(file, snapshot)
  BY <1>2 DEF CatalogueInv, OpenFor
<1> QED BY <1>1, <1>2, <1>3, <1>4, <1>5

LEMMA Synchronizes ==
  ASSUME CatalogueInv, Companion!Synchronize
  PROVE  CatalogueInv'
<1> DEFINE rows == authority.rows
           life == authority.life
           a == Companion!Anchors(rows, life)
           b == Companion!Binding
           total(n) == IF life = "complete" THEN n ELSE None
           st == Companion!Status(life, Len(a), total(Len(a)), Len(rows), b)
           ex == Companion!Status(life, Len(rows), total(Len(rows)), Len(rows), b)
           y == [structural |-> st, visual |-> file.layers.visual, exact |-> ex]
<1>1. /\ handle = "open" /\ UNCHANGED <<authority, generation, handle>>
      /\ file' = [file EXCEPT !.anchors = a, !.layers = y]
      /\ snapshot' = [rows |-> rows, life |-> life]
  BY DEF Companion!Synchronize
<1>2. rows \in Seq(Companion!Kinds) /\ life \in Companion!Lives
  BY DEF CatalogueInv
<1> HIDE DEF rows, life
<1>3. a \in Seq([frame : Nat, end : Nat \cup {None}]) /\ CutsInto(a, rows, life)
  BY <1>2, AnchorsCut, Zenon
<1> HIDE DEF a
<1>4. Len(a) \in Nat /\ Len(rows) \in Nat
  BY <1>2, <1>3, LenProperties
<1>5. /\ b \in Bindings /\ OpenFor(file, b) /\ file \in Catalogues
      /\ file.layers.visual \in Statuses /\ file.layers \in Layers
  BY <1>1, OpenParts
<1> HIDE DEF b
<1>6. /\ st \in Statuses /\ st.by = b /\ st.done = Len(a)
      /\ ex \in Statuses /\ ex.by = b /\ ex.prefix = Len(rows)
  BY <1>2, <1>4, <1>5 DEF Companion!Status, Statuses, Companion!Lives
<1> HIDE DEF st, ex
<1>7. y \in Layers /\ y.structural = st /\ y.exact = ex /\ y.visual = file.layers.visual
  BY <1>5, <1>6 DEF Layers
<1>8. y["structural"] = st /\ y["exact"] = ex /\ y["visual"] = file.layers["visual"]
  OBVIOUS
<1> HIDE DEF y
<1>9. /\ file' \in Catalogues /\ file'.schema = 1 /\ file'.meta = b /\ file'.layers = y /\ file'.anchors = a
      /\ file'.visuals = file.visuals /\ file'.similarity = file.similarity
  BY <1>1, <1>3, <1>5, <1>7, Zenon DEF Catalogues, OpenFor
<1>10. y # None
  BY <1>7, CompanionAssumption
<1>11. Own(file', b)
  <2>1. file.layers["visual"].by \in {None, b}
    BY <1>5 DEF OpenFor, Own, LayerNames
  <2>2. \A l \in LayerNames : y[l].by \in {None, b}
    BY <1>6, <1>8, <2>1 DEF LayerNames
  <2> QED BY <1>5, <1>9, <2>2 DEF OpenFor, Own
<1>12. SyncedTo(file', snapshot')
  <2>1. snapshot'.rows = rows /\ snapshot'.life = life
    BY <1>1
  <2> QED BY <1>3, <1>6, <1>7, <1>9, <2>1 DEF SyncedTo
<1>13. OpenFor(file', b)
  BY <1>9, <1>10, <1>11 DEF OpenFor
<1> QED BY <1>1, <1>12, <1>13, CatalogueWritten DEF b

LEMMA VisualLayerWritten ==
  ASSUME CatalogueInv, Companion!UpdateVisualLayer
  PROVE  CatalogueInv'
<1>1. /\ handle = "open" /\ UNCHANGED <<authority, generation, handle, snapshot>>
  BY DEF Companion!UpdateVisualLayer
<1>2. PICK life \in Companion!Lives \ {"failed"}, total \in {None, 1} :
        file' = [file EXCEPT !.layers.visual = Companion!Status(life, 1, total, None, Companion!Binding)]
  BY DEF Companion!UpdateVisualLayer
<1> DEFINE b == Companion!Binding
           st == Companion!Status(life, 1, total, None, b)
           y == [file.layers EXCEPT !.visual = st]
<1>3. /\ b \in Bindings /\ OpenFor(file, b) /\ file \in Catalogues
      /\ file.layers \in Layers /\ (snapshot # None => SyncedTo(file, snapshot))
  BY <1>1, OpenParts
<1>4. file' = [file EXCEPT !.layers = y]
  BY <1>2, <1>3 DEF Catalogues
<1> HIDE DEF b
<1>5. st \in Statuses /\ st.by = b
  BY <1>3 DEF Companion!Status, Statuses, Companion!Lives
<1> HIDE DEF st
<1>6. /\ y \in Layers /\ y.structural = file.layers.structural /\ y.exact = file.layers.exact
      /\ y["visual"] = st /\ y["structural"] = file.layers["structural"] /\ y["exact"] = file.layers["exact"]
  BY <1>3, <1>5 DEF Layers
<1> HIDE DEF y
<1>7. /\ file' \in Catalogues /\ file'.schema = 1 /\ file'.meta = b /\ file'.layers = y
      /\ file'.anchors = file.anchors /\ file'.visuals = file.visuals /\ file'.similarity = file.similarity
  BY <1>3, <1>4, <1>6, Zenon DEF Catalogues, OpenFor
<1>8. y # None
  BY <1>6, CompanionAssumption
<1>9. Own(file', b)
  <2>1. file.layers["structural"].by \in {None, b} /\ file.layers["exact"].by \in {None, b}
    BY <1>3 DEF OpenFor, Own, LayerNames
  <2>2. \A l \in LayerNames : y[l].by \in {None, b}
    BY <1>5, <1>6, <2>1 DEF LayerNames
  <2> QED BY <1>3, <1>7, <2>2 DEF OpenFor, Own
<1>10. snapshot' # None => SyncedTo(file', snapshot')
  BY <1>1, <1>3, <1>6, <1>7 DEF SyncedTo
<1>11. OpenFor(file', b)
  BY <1>7, <1>8, <1>9 DEF OpenFor
<1> QED BY <1>1, <1>10, <1>11, CatalogueWritten DEF b

LEMMA DerivedRowsWritten ==
  ASSUME CatalogueInv, Companion!RecordVisualArtifact \/ Companion!UpdateSimilarity
  PROVE  CatalogueInv'
<1> DEFINE b == Companion!Binding
           st == Companion!Status("building", 1, None, None, b)
<1>1. /\ handle = "open" /\ UNCHANGED <<authority, generation, handle, snapshot>>
      /\ file' = [file EXCEPT !.visuals = {b}] \/ file' = [file EXCEPT !.similarity = st]
  BY DEF Companion!RecordVisualArtifact, Companion!UpdateSimilarity
<1>2. /\ b \in Bindings /\ OpenFor(file, b) /\ file \in Catalogues
      /\ (snapshot # None => SyncedTo(file, snapshot))
  BY <1>1, OpenParts
<1> HIDE DEF b
<1>3. st \in Statuses /\ st.by = b
  BY <1>2 DEF Companion!Status, Statuses
<1> HIDE DEF st
<1>4. /\ file' \in Catalogues /\ file'.schema = 1 /\ file'.meta = b /\ file'.layers = file.layers
      /\ file'.anchors = file.anchors
      /\ file'.visuals \in {file.visuals, {b}} /\ file'.similarity \in {file.similarity, st}
  BY <1>1, <1>2, <1>3 DEF Catalogues, OpenFor
<1>5. OpenFor(file', b)
  BY <1>2, <1>3, <1>4 DEF OpenFor, Own
<1>6. snapshot' # None => SyncedTo(file', snapshot')
  BY <1>1, <1>2, <1>4 DEF SyncedTo
<1> QED BY <1>1, <1>5, <1>6, CatalogueWritten DEF b

LEMMA AuthorityMoved ==
  ASSUME CatalogueInv, Companion!AuthorityMoves
  PROVE  CatalogueInv'
<1>1. UNCHANGED <<generation, file, handle, snapshot>>
  BY DEF Companion!AuthorityMoves
<1>2. /\ authority' \in [id : CompanionIdentities, rows : Seq(Companion!Kinds), life : Companion!Lives]
      /\ authority'.id = authority.id
  <2>1. /\ authority \in [id : CompanionIdentities, rows : Seq(Companion!Kinds), life : Companion!Lives]
        /\ authority.rows \in Seq(Companion!Kinds)
    BY DEF CatalogueInv
  <2>2. CASE \E kind \in Companion!Kinds : authority' = [authority EXCEPT !.rows = Append(@, kind)]
    <3>1. PICK kind \in Companion!Kinds : authority' = [authority EXCEPT !.rows = Append(@, kind)]
      BY <2>2, Zenon
    <3>2. Append(authority.rows, kind) \in Seq(Companion!Kinds)
      BY <2>1, AppendProperties
    <3> QED BY <2>1, <3>1, <3>2
  <2>3. CASE \E life \in Companion!Lives : authority' = [authority EXCEPT !.life = life]
    BY <2>1, <2>3
  <2>4. CASE authority' = [authority EXCEPT !.rows = <<>>, !.life = "building"]
    BY <2>1, <2>4, EmptySeq, Zenon DEF Companion!Lives
  <2> QED BY <2>2, <2>3, <2>4 DEF Companion!AuthorityMoves
<1>3. Companion!Binding' = Companion!Binding
  BY <1>1, <1>2 DEF Companion!Binding
<1> QED BY <1>1, <1>2, <1>3 DEF CatalogueInv

\* What happens to a file nobody has open.
LEMMA ClosedChanges ==
  ASSUME CatalogueInv, Companion!DieOpening \/ Companion!Close \/ Companion!Elsewhere \/ Companion!Damage
  PROVE  CatalogueInv'
<1>1. CASE Companion!DieOpening
  <2> DEFINE m == Companion!Migrated
  <2>1. m \in Catalogues /\ m.meta = None
    BY EmptySeq DEF Companion!Migrated, Catalogues
  <2> HIDE DEF m
  <2>2. /\ file' = m \/ file' = NoFile
        /\ snapshot' = None /\ handle = "closed" /\ UNCHANGED <<authority, generation, handle>>
    BY <1>1 DEF Companion!DieOpening, m
  <2>3. NoFile \notin Catalogues
    BY CompanionAssumption
  <2> QED BY <2>1, <2>2, <2>3 DEF CatalogueInv
<1>2. CASE Companion!Close
  BY <1>2 DEF Companion!Close, CatalogueInv
<1>3. CASE Companion!Elsewhere
  <2>1. /\ handle = "closed" /\ UNCHANGED <<file, handle, snapshot>>
        /\ authority' \in [id : CompanionIdentities, rows : Seq(Companion!Kinds), life : Companion!Lives]
        /\ generation' \in CompanionGenerations
    <3>1. handle = "closed" /\ UNCHANGED <<file, handle, snapshot>>
      BY <1>3 DEF Companion!Elsewhere
    <3>2. CASE /\ \E id \in CompanionIdentities \ {authority.id} :
                    authority' = [id |-> id, rows |-> <<>>, life |-> "building"]
               /\ UNCHANGED generation
      <4>1. PICK id \in CompanionIdentities : authority' = [id |-> id, rows |-> <<>>, life |-> "building"]
        BY <3>2
      <4>2. <<>> \in Seq(Companion!Kinds) /\ "building" \in Companion!Lives
        BY EmptySeq DEF Companion!Lives
      <4>3. authority' \in [id : CompanionIdentities, rows : Seq(Companion!Kinds), life : Companion!Lives]
        BY <4>1, <4>2, Zenon
      <4> QED BY <3>1, <3>2, <4>3 DEF CatalogueInv
    <3>3. CASE generation' \in CompanionGenerations \ {generation} /\ UNCHANGED authority
      BY <3>1, <3>3 DEF CatalogueInv
    <3> QED BY <1>3, <3>2, <3>3, Zenon DEF Companion!Elsewhere
  <2> QED BY <2>1 DEF CatalogueInv
<1>4. CASE Companion!Damage
  <2>1. /\ handle = "closed" /\ UNCHANGED <<authority, generation, handle, snapshot>>
        /\ file \in Catalogues
        /\ \/ file' = Garbage
           \/ file' = [file EXCEPT !.schema = 2]
           \/ file' = [file EXCEPT !.layers = None]
    BY <1>4 DEF Companion!Damage, CatalogueInv
  <2>2. CASE file' = Garbage
    <3>1. Garbage \notin Catalogues
      BY CompanionAssumption
    <3> QED BY <2>1, <2>2, <3>1 DEF CatalogueInv
  <2>3. CASE file' # Garbage
    <3>1. /\ file' \in Catalogues /\ file'.meta = file.meta /\ file'.layers \in {file.layers, None}
          /\ file'.anchors = file.anchors /\ file'.visuals = file.visuals /\ file'.similarity = file.similarity
      BY <2>1, <2>3 DEF Catalogues
    <3>2. file'.meta # None => Own(file', file'.meta)
      BY <2>1, <3>1 DEF CatalogueInv, Own
    <3>3. file'.layers # None /\ snapshot' # None => SyncedTo(file', snapshot')
      BY <2>1, <3>1 DEF CatalogueInv, SyncedTo
    <3> QED BY <2>1, <3>1, <3>2, <3>3 DEF CatalogueInv
  <2> QED BY <2>2, <2>3
<1> QED BY <1>1, <1>2, <1>3, <1>4

LEMMA CatalogueInductive ==
  /\ Companion!Init => CatalogueInv
  /\ CatalogueInv /\ [Companion!Next]_(Companion!vars) => CatalogueInv'
<1>1. ASSUME Companion!Init PROVE CatalogueInv
  <2>1. /\ authority \in [id : CompanionIdentities, rows : Seq(Companion!Kinds), life : Companion!Lives]
        /\ generation \in CompanionGenerations /\ file = NoFile /\ handle = "closed" /\ snapshot = None
    BY <1>1, EmptySeq DEF Companion!Init, Companion!Lives
  <2> QED BY <2>1, CompanionAssumption DEF CatalogueInv
<1>2. ASSUME CatalogueInv, Companion!Next PROVE CatalogueInv'
  BY <1>2, CatalogueOpens, Synchronizes, VisualLayerWritten, DerivedRowsWritten, AuthorityMoved,
     ClosedChanges DEF Companion!Next
<1>3. ASSUME CatalogueInv, UNCHANGED Companion!vars PROVE CatalogueInv'
  BY <1>3 DEF CatalogueInv, Companion!vars, Companion!Binding
<1> QED BY <1>1, <1>2, <1>3

(***************************************************************************)
(* For any sources, streams, timeline generations and lengths of index,    *)
(* through crashes inside an open, damage and other builds: the companion  *)
(* opens, an open one holds nothing written under another binding, and its *)
(* anchors are the groups of pictures of the synchronised prefix           *)
(* (open_or_create, try_open, synchronize_authoritative_snapshot).         *)
(***************************************************************************)
THEOREM CatalogueIsAlwaysSound == Companion!Spec => []CatalogueIsSound
<1>1. CatalogueInv => CatalogueIsSound
  <2> SUFFICES ASSUME CatalogueInv
               PROVE  /\ Companion!CatalogueAlwaysOpens /\ Companion!CatalogueIsOwn
                      /\ Companion!AnchorsAreGroups
    BY DEF CatalogueIsSound
  <2>1. Companion!CatalogueAlwaysOpens
    BY DEF CatalogueInv, Companion!CatalogueAlwaysOpens
  <2>2. ASSUME handle = "open" PROVE Companion!Writers(file) \subseteq {None, Companion!Binding}
    <3>1. file.layers \in Layers /\ file.layers # None /\ Own(file, Companion!Binding)
      BY <2>2, OpenParts DEF OpenFor
    <3>2. DOMAIN file.layers = LayerNames
      BY <3>1 DEF Layers, LayerNames
    <3> QED BY <3>1, <3>2 DEF Companion!Writers, Own
  <2>3. ASSUME handle = "open", snapshot # None PROVE SyncedTo(file, snapshot)
    BY <2>3, OpenParts
  <2> QED BY <2>1, <2>2, <2>3, Zenon DEF Companion!CatalogueIsOwn, Companion!AnchorsAreGroups, SyncedTo, CutsInto
<1> QED BY <1>1, CatalogueInductive, PTL DEF Companion!Spec
====
