--------------------------- MODULE ToolingProofs ---------------------------
(* Proofs about the verification tooling: evidence lanes, exploration and     *)
(* mutation measurements, for any lanes, processes, ports, catalog and shards. *)
EXTENDS MutationShards, EvidenceLanes, Exploration, WellFoundedInduction, TLAPS

-----------------------------------------------------------------------------
(* Sequences *)

\* Two naturals that are each up to the other are one.
LEMMA Antisymmetric == \A a, b \in Nat : a <= b /\ b <= a => a = b
OBVIOUS

\* What is up to a natural is up to a greater one.
LEMMA Transitive ==
    \A a, b, c \in Nat : b <= c => (a <= b => a <= c) /\ (a < b => a < c)
OBVIOUS

\* Every nonempty set of naturals has a least element: what the induction below
\* rests on.
LEMMA LeastNat ==
    ASSUME NEW T \in SUBSET Nat, T # {}
    PROVE  \E x \in T : \A y \in T : x <= y
<1> DEFINE R == OpToRel(<, Nat)
<1>1. \A x, y \in Nat : <<y, x>> \in R <=> y < x
  BY DEF OpToRel
<1>2. IsWellFoundedOn(R, Nat)
  BY NatLessThanWellFounded, Zenon
<1> HIDE DEF R
<1>3. PICK x \in T : \A y \in T : ~ (<<y, x>> \in R)
  BY <1>2, WFMin, Zenon
<1>4. ASSUME NEW y \in T
      PROVE  x <= y
  <2>1. x \in Nat /\ y \in Nat /\ ~ (y < x)
    BY <1>1, <1>3, Zenon
  <2> QED BY <2>1
<1> QED BY <1>4

\* f[i] is the concatenation of the first i of parts.
Concatenations(parts, n, f) ==
    f = [i \in 0..n |-> IF i = 0 THEN <<>> ELSE f[i - 1] \o parts[i]]

\* The function that flatMap defines by recursion exists.
LEMMA ConcatenationsExist ==
    ASSUME NEW parts, NEW n \in Nat
    PROVE  \E f : Concatenations(parts, n, f)
<1> DEFINE T == {k \in Nat : ~ \E f : Concatenations(parts, k, f)}
<1>1. SUFFICES ASSUME T # {} PROVE FALSE
  OBVIOUS
<1>2. PICK k \in T : \A y \in T : k <= y
  BY <1>1, LeastNat, Zenon
<1>3. k # 0
  <2> DEFINE f == [i \in 0..0 |-> <<>>]
  <2>1. f = [i \in 0..0 |-> IF i = 0 THEN <<>> ELSE f[i - 1] \o parts[i]]
    OBVIOUS
  <2> HIDE DEF f
  <2>2. Concatenations(parts, 0, f)
    BY <2>1, Zenon DEF Concatenations
  <2> QED  BY <2>2
<1>4. PICK f : Concatenations(parts, k - 1, f)
  <2>1. k - 1 \in Nat /\ k - 1 \notin T
    BY <1>2, <1>3
  <2> QED  BY <2>1
<1> DEFINE g == [i \in 0..k |-> IF i = k THEN f[k - 1] \o parts[k] ELSE f[i]]
<1>5. ASSUME NEW i \in 0..k
      PROVE  g[i] = IF i = 0 THEN <<>> ELSE g[i - 1] \o parts[i]
  <2>1. CASE i = k
    <3>1. i # 0 /\ i - 1 \in 0..k /\ i - 1 # k
      BY <1>2, <1>3, <2>1
    <3> QED  BY <2>1, <3>1, Zenon
  <2>2. CASE i # k
    <3>1. i \in 0..k - 1 /\ (i # 0 => i - 1 \in 0..k /\ i - 1 # k)
      BY <1>2, <2>2
    <3>2. f[i] = IF i = 0 THEN <<>> ELSE f[i - 1] \o parts[i]
      BY <1>4, <3>1, Zenon DEF Concatenations
    <3> QED  BY <2>2, <3>1, <3>2
  <2> QED  BY <2>1, <2>2
<1>6. g = [i \in 0..k |-> g[i]]
  OBVIOUS
<1> HIDE DEF g
<1>7. Concatenations(parts, k, g)
  BY <1>5, <1>6, Zenon DEF Concatenations
<1> QED  BY <1>2, <1>7

\* flatMap keeps to the elements of its parts.
LEMMA FlatMapType ==
    ASSUME NEW A, NEW parts \in Seq(Seq(A))
    PROVE  flatMap(parts) \in Seq(A)
<1> DEFINE n == Len(parts)
           F == CHOOSE f : f = [i \in 0..n |-> IF i = 0 THEN <<>> ELSE f[i - 1] \o parts[i]]
<1>1. n \in Nat /\ \A i \in 1..n : parts[i] \in Seq(A)
  OBVIOUS
<1>2. flatMap(parts) = F[n]
  BY Zenon DEF flatMap
<1>3. F = [i \in 0..n |-> IF i = 0 THEN <<>> ELSE F[i - 1] \o parts[i]]
  <2>1. \E f : f = [i \in 0..n |-> IF i = 0 THEN <<>> ELSE f[i - 1] \o parts[i]]
    BY <1>1, ConcatenationsExist, Zenon DEF Concatenations
  <2> QED  BY <2>1, Zenon
<1> HIDE DEF n, F
<1>4. \A i \in 0..n : F[i] = IF i = 0 THEN <<>> ELSE F[i - 1] \o parts[i]
  BY <1>3, Zenon
<1> DEFINE T == {i \in 0..n : F[i] \notin Seq(A)}
<1>5. ASSUME T # {} PROVE FALSE
  <2>1. PICK k \in T : \A y \in T : k <= y
    <3>1. T \in SUBSET Nat
      BY <1>1
    <3> QED  BY <1>5, <3>1, LeastNat, Zenon
  <2>2. k # 0
    <3>1. 0 \in 0..n
      BY <1>1
    <3>2. F[0] = <<>>
      BY <1>4, <3>1, Zenon
    <3>3. <<>> \in Seq(A)
      OBVIOUS
    <3> QED  BY <2>1, <3>2, <3>3, Zenon
  <2>3. k - 1 \in 0..n /\ k - 1 \notin T /\ k \in 1..n
    BY <1>1, <2>1, <2>2
  <2>4. F[k - 1] \in Seq(A) /\ parts[k] \in Seq(A) /\ F[k] = F[k - 1] \o parts[k]
    BY <1>1, <1>4, <2>2, <2>3, Zenon
  <2>5. F[k - 1] \o parts[k] \in Seq(A)
    BY <2>4
  <2> QED  BY <2>4, <2>5, Zenon
<1>6. n \in 0..n
  BY <1>1
<1> QED  BY <1>2, <1>5, <1>6, Zenon

-----------------------------------------------------------------------------
(* Mutation shards *)

\* The directories whose reports count: a partial run's never does.
Counting == {Root} \cup Shards

MeasurerSteps == {"prepare", "copy", "fingerprint", "baselines", "measure"}

\* What a measuring process holds at each of its steps, for the port l.
Measurement(d, m, l) ==
    /\ m \in [step : MeasurerSteps, report : ReportFiles, workspace : Nat \cup {None}]
    /\ ~m.report.complete /\ ~m.report.error /\ m.report.shards = 0
    /\ m.step = "prepare" => m.report = Stub
    /\ m.step \in {"copy", "fingerprint"} => l = "ts"
    /\ m.step # "measure" => m.report.mutations = <<>>
    /\ m.step # "prepare" =>
          m.report.ids \in Seq(Mutants) /\ (d = Root => m.report.ids = Catalog)
    /\ m.step \in {"fingerprint", "baselines", "measure"} => m.workspace \in Nat
    /\ m.step \in {"baselines", "measure"} =>
          m.report.inputs \in Nat /\ (l # "ts" => m.report.inputs = m.workspace)
    /\ m.step = "measure" =>
          /\ m.report.baselines # None
          /\ Len(m.report.mutations) <= Len(m.report.ids)
          /\ \A k \in DOMAIN m.report.mutations :
                /\ m.report.mutations[k].id = m.report.ids[k]
                /\ m.report.mutations[k].of = m.workspace

\* A report file: baselines come with the fingerprint, and what was measured was
\* measured in the tree it names.
Filed(r, l) ==
    /\ r \in ReportFiles
    /\ ~r.error /\ r.inputs # None => r.baselines # None
    /\ l # "ts" => \A k \in DOMAIN r.mutations : r.mutations[k].of = r.inputs

\* A shard's file and the process that writes it agree on what was selected and
\* measured.
Synced(r, m) ==
    /\ r # None /\ r.mutations = m.report.mutations
    /\ r.ids # None => r.ids = m.report.ids

\* All that was selected has been measured.
Settled(r) == r.ids # None /\ r.ids = Ids(r.mutations)

\* A complete report by itself.
Evident(r, l) ==
    r.complete =>
       /\ Ids(r.mutations) = Catalog /\ Regressions(r) = {} /\ ~r.error
       /\ r.baselines # None
       /\ l # "ts" => \A k \in DOMAIN r.mutations : r.mutations[k].of = r.inputs

\* A merged report stands on settled shards, which are the only ones.
Founded(r) ==
    r.complete /\ r.shards > 0 =>
       /\ r.shards \in Counts
       /\ readShardReports = {d \in Shards : d.count = r.shards}
       /\ \A d \in readShardReports : Settled(reports[d])
       /\ Merged(r.shards) = r.mutations

\* The inductive invariant of the measurements.
ShardsInv ==
    /\ tree \in Nat
    /\ reports = [d \in selectionDirectory |-> reports[d]]
    /\ measurer = [d \in selectionDirectory |-> measurer[d]]
    /\ \A d \in Counting : measurer[d] # None => Measurement(d, measurer[d], language)
    /\ \A d \in Shards :
          /\ reports[d] # None => Filed(reports[d], language)
          /\ measurer[d] # None => Synced(reports[d], measurer[d])
    /\ reports[Root] # None =>
          /\ reports[Root] \in ReportFiles
          /\ Evident(reports[Root], language) /\ Founded(reports[Root])

\* The root is no shard, and the partial directory neither.
LEMMA Directories ==
    /\ Root \notin Shards /\ Partial \notin Counting
    /\ Counting \subseteq selectionDirectory
    /\ \A d \in Shards : d.count \in Counts /\ d.index \in 1..d.count
    /\ \A c \in Counts : \A i \in 1..c : [index |-> i, count |-> c] \in Shards
<1>1. \A c \in Counts : c \in Nat /\ c > 1
  BY ShardsAssumption
<1>2. \A d \in Shards : d.count \in Counts /\ d.index \in 1..d.count
  BY DEF Shards
<1>3. Root \notin Shards
  BY <1>1, <1>2 DEF Root
<1>4. Partial \notin Counting
  BY <1>1, <1>2 DEF Partial, Counting, Root
<1>5. Counting \subseteq selectionDirectory
  BY DEF Counting, selectionDirectory
<1>6. \A c \in Counts : \A i \in 1..c : [index |-> i, count |-> c] \in Shards
  BY DEF Shards
<1> QED  BY <1>2, <1>3, <1>4, <1>5, <1>6

\* The report a measurement begins with is a file that claims nothing.
LEMMA StubIsFile == Stub \in ReportFiles /\ Stub # None /\ ~Stub.complete
<1>1. <<>> \in Seq(Measured)
  OBVIOUS
<1> HIDE DEF Measured
<1>2. Stub \in ReportFiles
  BY <1>1 DEF Stub, ReportFiles
<1> QED  BY <1>2, ShardsAssumption, Zenon DEF Stub

\* Nothing changes for the root when a shard's process saves what it holds.
LEMMA FoundedStays ==
    ASSUME ShardsInv, NEW d \in Shards, measurer[d] # None, NEW r \in ReportFiles,
           reports' = [reports EXCEPT ![d] = r],
           Settled(reports[d]) => r.mutations = reports[d].mutations /\ r.ids = reports[d].ids,
           NEW root, Founded(root), root.complete, root.shards > 0
    PROVE  Founded(root)'
<1> DEFINE c == root.shards
<1>1. /\ c \in Counts /\ readShardReports = {e \in Shards : e.count = c}
      /\ \A e \in readShardReports : Settled(reports[e])
      /\ Merged(c) = root.mutations
  BY DEF Founded
<1>2. reports[d] # None /\ r # None
  BY ShardsAssumption, Zenon DEF ShardsInv, Synced
<1>3. d \in readShardReports
  BY <1>2 DEF readShardReports
<1>4. /\ \A e \in Shards : reports'[e] = IF e = d THEN r ELSE reports[e]
  BY Directories DEF ShardsInv, Counting
<1>5. readShardReports' = readShardReports
  BY <1>2, <1>4 DEF readShardReports
<1>6. r.mutations = reports[d].mutations /\ r.ids = reports[d].ids
  BY <1>1, <1>3
<1>7. \A e \in readShardReports : Settled(reports'[e])
  BY <1>1, <1>3, <1>4, <1>6 DEF Settled, readShardReports
<1>8. \A i \in 1..c : reports'[[index |-> i, count |-> c]].mutations
                         = reports[[index |-> i, count |-> c]].mutations
  BY <1>1, <1>4, <1>6, Directories
<1>9. Merged(c)' = Merged(c)
  <2> HIDE DEF c
  <2> QED  BY <1>8, Zenon DEF Merged
<1> QED  BY <1>1, <1>5, <1>7, <1>9 DEF Founded, Settled

\* A process saves its report and goes on, or ends.
LEMMA SaveStays ==
    ASSUME ShardsInv, NEW d \in Counting, measurer[d] # None, NEW r, NEW m,
           Filed(r, language), m # None => Measurement(d, m, language) /\ m.report = r,
           d \in Shards /\ Settled(reports[d]) =>
              r.mutations = reports[d].mutations /\ r.ids = reports[d].ids,
           d = Root => r.shards = 0 /\ Evident(r, language),
           reports' = [reports EXCEPT ![d] = r],
           measurer' = [measurer EXCEPT ![d] = m], UNCHANGED <<language, tree>>
    PROVE  ShardsInv'
<1> r \in ReportFiles /\ r # None
  BY ShardsAssumption DEF Filed
<1>1. /\ tree' \in Nat
      /\ reports' = [e \in selectionDirectory |-> reports'[e]]
      /\ measurer' = [e \in selectionDirectory |-> measurer'[e]]
  BY Zenon DEF ShardsInv
<1>2. \A e \in Counting : /\ reports'[e] = IF e = d THEN r ELSE reports[e]
                          /\ measurer'[e] = IF e = d THEN m ELSE measurer[e]
  BY Directories, Zenon DEF ShardsInv
<1>3. \A e \in Counting : measurer'[e] # None => Measurement(e, measurer'[e], language')
  BY <1>2 DEF ShardsInv
<1>4. ASSUME NEW e \in Shards
      PROVE  /\ reports'[e] # None => Filed(reports'[e], language')
             /\ measurer'[e] # None => Synced(reports'[e], measurer'[e])
  <2>1. e \in Counting
    BY DEF Counting
  <2>2. CASE e = d
    BY <1>2, <2>1, <2>2 DEF Synced
  <2>3. CASE e # d
    BY <1>2, <2>1, <2>3, Zenon DEF ShardsInv
  <2> QED  BY <2>2, <2>3
<1>5. ASSUME reports'[Root] # None
      PROVE  /\ reports'[Root] \in ReportFiles
             /\ Evident(reports'[Root], language') /\ Founded(reports[Root])'
  <2>1. PICK root : root = reports'[Root]
    OBVIOUS
  <2>2. CASE d = Root
    <3>1. root = r
      BY <1>2, <2>1, <2>2
    <3>2. Founded(root)'
      BY <2>2, <3>1 DEF Founded
    <3> QED  BY <2>1, <2>2, <3>1, <3>2
  <2>3. CASE d # Root
    <3>1. d \in Shards /\ root = reports[Root]
      BY <1>2, <2>1, <2>3 DEF Counting
    <3>2. root \in ReportFiles /\ Evident(root, language) /\ Founded(root)
      BY <1>5, <2>1, <3>1, Zenon DEF ShardsInv
    <3>3. Founded(root)'
      <4>1. CASE root.complete /\ root.shards > 0
        BY <3>1, <3>2, <4>1, FoundedStays, Zenon
      <4>2. CASE ~(root.complete /\ root.shards > 0)
        BY <4>2 DEF Founded
      <4> QED  BY <4>1, <4>2
    <3> QED  BY <2>1, <3>2, <3>3
  <2> QED  BY <2>2, <2>3
<1> QED  BY <1>1, <1>3, <1>4, <1>5, Zenon DEF ShardsInv

\* A process moves on, or ends, and leaves the files alone.
LEMMA MoveStays ==
    ASSUME ShardsInv, NEW d \in Counting, measurer[d] # None, NEW m,
           m # None => /\ Measurement(d, m, language)
                       /\ m.report.mutations = measurer[d].report.mutations
                       /\ \/ d \in Shards => reports[d].ids = None
                          \/ m.report.ids = measurer[d].report.ids,
           measurer' = [measurer EXCEPT ![d] = m], UNCHANGED <<language, tree, reports>>
    PROVE  ShardsInv'
<1>1. /\ tree' \in Nat
      /\ reports' = [e \in selectionDirectory |-> reports'[e]]
      /\ measurer' = [e \in selectionDirectory |-> measurer'[e]]
  BY DEF ShardsInv
<1>2. \A e \in Counting : measurer'[e] = IF e = d THEN m ELSE measurer[e]
  BY Directories DEF ShardsInv
<1>3. \A e \in Counting : measurer'[e] # None => Measurement(e, measurer'[e], language')
  BY <1>2 DEF ShardsInv
<1>4. ASSUME NEW e \in Shards
      PROVE  measurer'[e] # None => Synced(reports'[e], measurer'[e])
  <2>1. e \in Counting
    BY DEF Counting
  <2>2. CASE e = d
    BY <1>2, <2>1, <2>2, Zenon DEF Synced, ShardsInv
  <2>3. CASE e # d
    BY <1>2, <2>1, <2>3, Zenon DEF ShardsInv
  <2> QED  BY <2>2, <2>3
<1>5. Founded(reports[Root]) => Founded(reports[Root])'
  BY DEF Founded, readShardReports, Merged, Settled
<1> QED  BY <1>1, <1>3, <1>4, <1>5, Zenon DEF ShardsInv

\* A partial run touches no report that counts.
LEMMA PartialStays ==
    ASSUME ShardsInv, NEW r, NEW m, reports' = [reports EXCEPT ![Partial] = r],
           measurer' = [measurer EXCEPT ![Partial] = m], UNCHANGED <<language, tree>>
    PROVE  ShardsInv'
<1>1. /\ tree' \in Nat
      /\ reports' = [e \in selectionDirectory |-> reports'[e]]
      /\ measurer' = [e \in selectionDirectory |-> measurer'[e]]
  BY Zenon DEF ShardsInv
<1>2. \A e \in Counting : measurer'[e] = measurer[e] /\ reports'[e] = reports[e]
  BY Directories, Zenon DEF ShardsInv
<1>3. Root \in Counting /\ Shards \subseteq Counting
  BY DEF Counting
<1>4. /\ \A e \in Counting : measurer'[e] # None => Measurement(e, measurer'[e], language')
      /\ \A e \in Shards :
            /\ reports'[e] # None => Filed(reports'[e], language')
            /\ measurer'[e] # None => Synced(reports'[e], measurer'[e])
  BY <1>2, <1>3 DEF ShardsInv
<1>5. ASSUME NEW root, Founded(root) PROVE Founded(root)'
  <2>1. readShardReports' = readShardReports
    BY <1>2, <1>3 DEF readShardReports
  <2>2. ASSUME NEW c \in Counts PROVE Merged(c)' = Merged(c)
    <3>1. \A i \in 1..c : reports'[[index |-> i, count |-> c]].mutations
                             = reports[[index |-> i, count |-> c]].mutations
      BY <1>2, <1>3, Directories
    <3> QED  BY <3>1, Zenon DEF Merged
  <2>3. \A e \in readShardReports : reports'[e] = reports[e]
    BY <1>2, <1>3 DEF readShardReports
  <2> QED  BY <1>5, <2>1, <2>2, <2>3 DEF Founded, Settled
<1>6. reports'[Root] = reports[Root]
  BY <1>2, <1>3
<1>7. PICK root : root = reports[Root]
  OBVIOUS
<1>8. root # None => /\ root \in ReportFiles /\ Evident(root, language') /\ Founded(root)'
  BY <1>5, <1>7, Zenon DEF ShardsInv
<1> QED  BY <1>1, <1>4, <1>6, <1>7, <1>8, Zenon DEF ShardsInv

\* A shard's slice lies within the catalog.
LEMMA SliceFits ==
    ASSUME NEW n \in Nat, NEW c \in Nat \ {0}, NEW i \in 1..c
    PROVE  LET base == n \div c
               extra == n % c
               least == IF i - 1 <= extra THEN i - 1 ELSE extra
               skipped == (i - 1) * base + least IN
           /\ base \in Nat /\ skipped \in Nat
           /\ skipped + base + (IF i <= extra THEN 1 ELSE 0) <= n
<1> DEFINE base == n \div c
           extra == n % c
<1>1. base \in Nat /\ extra \in Nat /\ extra < c /\ n = c * base + extra
  OBVIOUS
<1> HIDE DEF base, extra
<1>2. (i - 1) * base \in Nat /\ i * base \in Nat /\ c * base \in Nat
  BY <1>1
<1>3. (i - 1) * base + base = i * base
  BY <1>1
<1>4. i * base <= c * base
  <2>1. PICK k \in Nat : c = i + k
    <3>1. c - i \in Nat /\ c = i + (c - i)
      OBVIOUS
    <3> QED  BY <3>1
  <2>2. c * base = i * base + k * base /\ k * base \in Nat
    BY <1>1, <2>1
  <2> QED  BY <1>2, <2>2
<1> QED
  <2> DEFINE least == IF i - 1 <= extra THEN i - 1 ELSE extra
             more == IF i <= extra THEN 1 ELSE 0
  <2>1. least \in Nat /\ least + more <= extra
    BY <1>1
  <2> HIDE DEF least, more
  <2>2. (i - 1) * base + least \in Nat
    BY <1>2, <2>1
  <2>3. (i - 1) * base + least + base + more <= n
    BY <1>1, <1>2, <1>3, <1>4, <2>1 DEF more
  <2> QED  BY <1>1, <2>2, <2>3 DEF base, extra, least, more

\* A directory's slice is of the catalog; the root's is all of it.
LEMMA SlicesAreOfTheCatalog ==
    ASSUME NEW d \in Counting
    PROVE  /\ partitionMutations(d) \in Seq(Mutants)
           /\ d = Root => partitionMutations(d) = Catalog
<1> DEFINE n == Len(Catalog)
           base == n \div d.count
           extra == n % d.count
           least == IF d.index - 1 <= extra THEN d.index - 1 ELSE extra
           skipped == (d.index - 1) * base + least
           end == skipped + base + (IF d.index <= extra THEN 1 ELSE 0)
<1>1. Catalog \in Seq(Mutants) /\ n \in Nat
  BY ShardsAssumption DEF Mutants
<1>2. d.count \in Nat \ {0} /\ d.index \in 1..d.count
  <2>1. CASE d = Root
    BY <2>1 DEF Root
  <2>2. CASE d \in Shards
    <3>1. d.count \in Counts /\ d.index \in 1..d.count
      BY <2>2, Directories
    <3> QED  BY <3>1, ShardsAssumption, Zenon
  <2> QED  BY <2>1, <2>2 DEF Counting
<1>3. skipped \in Nat /\ base \in Nat /\ end <= n /\ extra \in Nat
  <2>1. PICK c, i : c = d.count /\ i = d.index
    OBVIOUS
  <2>2. c \in Nat \ {0} /\ i \in 1..c
    BY <1>2, <2>1
  <2>3. n % c \in Nat
    BY <1>1, <2>2
  <2> HIDE DEF n
  <2>4. n \in Nat
    BY <1>1
  <2> QED  BY <2>1, <2>2, <2>3, <2>4, SliceFits, Zenon
<1>4. partitionMutations(d) = SubSeq(Catalog, skipped + 1, end)
  BY Zenon DEF partitionMutations
<1>5. end \in Nat
  BY <1>3
<1>6. ASSUME d = Root PROVE skipped = 0 /\ end = n
  <2>1. d.index = 1 /\ d.count = 1
    BY <1>6 DEF Root
  <2>2. base = n /\ extra = 0
    BY <1>1, <2>1
  <2> HIDE DEF base, extra, n
  <2> QED  BY <1>1, <2>1, <2>2
<1> HIDE DEF skipped, end, n
<1>7. SubSeq(Catalog, skipped + 1, end) \in Seq(Mutants)
  BY <1>1, <1>3, <1>5 DEF n
<1>8. SubSeq(Catalog, 1, n) = Catalog
  BY <1>1 DEF n
<1> QED  BY <1>4, <1>6, <1>7, <1>8

\* A measurement begins by taking the complete report above it away.
LEMMA StartStays ==
    ASSUME ShardsInv, NEW d \in Counting, start(d)
    PROVE  ShardsInv'
<1> DEFINE m == [step |-> "prepare", report |-> Stub, workspace |-> None]
<1>1. /\ reports' = [reports EXCEPT ![Root] = Stub, ![d] = Stub]
      /\ measurer' = [measurer EXCEPT ![d] = m] /\ UNCHANGED <<language, tree>>
  BY Directories DEF start, invalidate
<1>2. /\ tree' \in Nat
      /\ reports' = [e \in selectionDirectory |-> reports'[e]]
      /\ measurer' = [e \in selectionDirectory |-> measurer'[e]]
  BY <1>1, Zenon DEF ShardsInv
<1>3. \A e \in Counting : measurer'[e] = IF e = d THEN m ELSE measurer[e]
  BY <1>1, Directories DEF ShardsInv
<1>4. \A e \in Counting : reports'[e] = IF e \in {Root, d} THEN Stub ELSE reports[e]
  BY <1>1, Directories DEF ShardsInv, Counting
<1>5. Measurement(d, m, language) /\ m.report = Stub
  BY StubIsFile DEF Measurement, Stub, MeasurerSteps
<1>6. Filed(Stub, language) /\ Synced(Stub, m)
  BY StubIsFile DEF Filed, Synced, Stub
<1> HIDE DEF m
<1>7. \A e \in Counting : measurer'[e] # None => Measurement(e, measurer'[e], language')
  BY <1>1, <1>3, <1>5 DEF ShardsInv
<1>8. \A e \in Shards : /\ reports'[e] # None => Filed(reports'[e], language')
                        /\ measurer'[e] # None => Synced(reports'[e], measurer'[e])
  BY <1>1, <1>3, <1>4, <1>6, Directories DEF ShardsInv, Counting
<1>9. reports'[Root] = Stub
  BY <1>4 DEF Counting
<1>10. Evident(Stub, language') /\ Founded(Stub)'
  BY StubIsFile DEF Evident, Founded
<1> QED  BY <1>2, <1>7, <1>8, <1>9, <1>10, StubIsFile DEF ShardsInv, Founded

\* What a process has measured was measured in the tree its report names.
LEMMA MeasuredInTheTree ==
    ASSUME NEW d, NEW m, NEW l, Measurement(d, m, l), l # "ts"
    PROVE  \A k \in DOMAIN m.report.mutations : m.report.mutations[k].of = m.report.inputs
<1>1. CASE m.step = "measure"
  BY <1>1 DEF Measurement
<1>2. CASE m.step # "measure"
  BY <1>2 DEF Measurement
<1> QED  BY <1>1, <1>2

\* A settled file of a shard is what its process holds.
LEMMA SettledIsHeld ==
    ASSUME ShardsInv, NEW d \in Shards, measurer[d] # None, Settled(reports[d])
    PROVE  /\ measurer[d].report.mutations = reports[d].mutations
           /\ measurer[d].report.ids = reports[d].ids
           /\ measurer[d].step # "prepare"
<1>1. Synced(reports[d], measurer[d]) /\ Measurement(d, measurer[d], language)
  BY DEF ShardsInv, Counting
<1>2. measurer[d].report.ids # None
  BY <1>1 DEF Synced, Settled
<1> QED  BY <1>1, <1>2 DEF Synced, Settled, Measurement, Stub

\* A measurement that throws files what it has as an error (the measurers' catch).
LEMMA ThrowStays ==
    ASSUME ShardsInv, NEW d \in Counting, measurer[d] # None, Throws(d)
    PROVE  ShardsInv'
<1> DEFINE h == measurer[d].report
           r == [h EXCEPT !.complete = FALSE, !.error = TRUE]
<1>1. Measurement(d, measurer[d], language)
  BY DEF ShardsInv
<1>2. h \in ReportFiles /\ h.shards = 0
  BY <1>1 DEF Measurement
<1>3. /\ r \in ReportFiles /\ r.error /\ ~r.complete /\ r.shards = 0
      /\ r.mutations = h.mutations /\ r.ids = h.ids /\ r.inputs = h.inputs
  BY <1>2, Zenon DEF ReportFiles
<1>4. /\ reports' = [reports EXCEPT ![d] = r] /\ UNCHANGED <<language, tree>>
      /\ measurer' = [measurer EXCEPT ![d] = None]
  BY DEF Throws, Saves
<1> HIDE DEF r
<1>5. Filed(r, language)
  BY <1>1, <1>3, MeasuredInTheTree DEF Filed
<1>6. d \in Shards /\ Settled(reports[d]) =>
         r.mutations = reports[d].mutations /\ r.ids = reports[d].ids
  BY <1>3, SettledIsHeld
<1>7. Evident(r, language)
  BY <1>3 DEF Evident
<1> QED  BY <1>3, <1>4, <1>5, <1>6, <1>7, SaveStays, Zenon

\* A process ends and leaves its files (cancel, a failed preflight).
LEMMA EndStays ==
    ASSUME ShardsInv, NEW d \in Counting, measurer[d] # None,
           measurer' = [measurer EXCEPT ![d] = None], UNCHANGED <<language, tree, reports>>
    PROVE  ShardsInv'
BY MoveStays, Zenon

\* TypeScript selects its mutants, or fails before it does.
LEMMA SelectionStays ==
    ASSUME ShardsInv, NEW d \in Counting, NEW only, prepareTypescript(d, only)
    PROVE  ShardsInv'
<1>1. /\ measurer[d] # None /\ measurer[d].step = "prepare" /\ language = "ts"
      /\ Measurement(d, measurer[d], language)
  BY DEF prepareTypescript, At, ShardsInv
<1>3. CASE Saves(d, [Stub EXCEPT !.ids = selectMutations(d, only)], "copy")
  <2> DEFINE ids == partitionMutations(d)
             r == [Stub EXCEPT !.ids = ids]
             m == [measurer[d] EXCEPT !.report = r, !.step = "copy"]
             then == IF "copy" = None THEN None ELSE m
  <2>1. selectMutations(d, only) = ids
    BY Directories DEF selectMutations
  <2>2. ids \in Seq(Mutants) /\ (d = Root => ids = Catalog)
    BY SlicesAreOfTheCatalog
  <2> HIDE DEF ids
  <2>3. /\ reports' = [reports EXCEPT ![d] = r] /\ UNCHANGED <<language, tree>>
        /\ measurer' = [measurer EXCEPT ![d] = then]
    BY <1>3, <2>1 DEF Saves
  <2>4. /\ r \in ReportFiles /\ ~r.complete /\ ~r.error /\ r.shards = 0 /\ r.ids = ids
        /\ r.mutations = <<>> /\ r.inputs = None
    BY <2>2, StubIsFile, Zenon DEF Stub, ReportFiles
  <2> HIDE DEF r
  <2>5. Filed(r, language) /\ Evident(r, language)
    BY <2>4 DEF Filed, Evident
  <2>6. Measurement(d, m, language) /\ m.report = r
    <3>1. measurer[d] \in [step : MeasurerSteps, report : ReportFiles, workspace : Nat \cup {None}]
      BY <1>1 DEF Measurement
    <3>2. /\ m \in [step : MeasurerSteps, report : ReportFiles, workspace : Nat \cup {None}]
          /\ m.step = "copy" /\ m.report = r
      BY <2>4, <3>1, Zenon DEF MeasurerSteps
    <3> HIDE DEF m
    <3> QED  BY <1>1, <2>2, <2>4, <3>2 DEF Measurement
  <2>7. ~(d \in Shards /\ Settled(reports[d]))
    BY <1>1, SettledIsHeld
  <2> HIDE DEF m
  <2>8. then # None => Measurement(d, then, language) /\ then.report = r
    BY <2>6
  <2> HIDE DEF then
  <2> QED  BY <1>1, <2>3, <2>4, <2>5, <2>7, <2>8, SaveStays, Zenon
<1>4. CASE /\ measurer' = [measurer EXCEPT ![d] = None]
           /\ UNCHANGED <<language, tree, reports, starts>>
  BY <1>1, <1>4, EndStays, Zenon
<1> QED  BY <1>3, <1>4 DEF prepareTypescript

\* TypeScript copies the checkout.
LEMMA CopyStays ==
    ASSUME ShardsInv, NEW d \in Counting, copyTypescript(d)
    PROVE  ShardsInv'
<1> DEFINE m == [measurer[d] EXCEPT !.step = "fingerprint", !.workspace = tree]
<1>1. /\ measurer[d] # None /\ measurer[d].step = "copy" /\ tree \in Nat
      /\ Measurement(d, measurer[d], language)
  BY DEF copyTypescript, At, ShardsInv
<1>2. measurer' = [measurer EXCEPT ![d] = m] /\ UNCHANGED <<language, tree, reports>>
  <2>2. d \in DOMAIN measurer
    BY Directories DEF ShardsInv
  <2> QED  BY <2>2, Zenon DEF copyTypescript
<1>3. /\ Measurement(d, m, language) /\ m.report.mutations = measurer[d].report.mutations
      /\ m.report.ids = measurer[d].report.ids
  <2>1. measurer[d] \in [step : MeasurerSteps, report : ReportFiles, workspace : Nat \cup {None}]
    BY <1>1 DEF Measurement
  <2>2. /\ m \in [step : MeasurerSteps, report : ReportFiles, workspace : Nat \cup {None}]
        /\ m.step = "fingerprint" /\ m.report = measurer[d].report /\ m.workspace = tree
    BY <1>1, <2>1, Zenon DEF MeasurerSteps
  <2> HIDE DEF m
  <2> QED  BY <1>1, <2>2 DEF Measurement
<1> HIDE DEF m
<1> QED  BY <1>1, <1>2, <1>3, MoveStays, Zenon

\* TypeScript hashes the checkout it has copied, as it is by then.
LEMMA FingerprintStays ==
    ASSUME ShardsInv, NEW d \in Counting, fingerprintTypescript(d)
    PROVE  ShardsInv'
<1> DEFINE h == measurer[d].report
           r == [h EXCEPT !.inputs = tree]
           m == [measurer[d] EXCEPT !.step = "baselines", !.report = r]
<1>1. /\ measurer[d] # None /\ measurer[d].step = "fingerprint" /\ tree \in Nat
      /\ Measurement(d, measurer[d], language)
  BY DEF fingerprintTypescript, At, ShardsInv
<1>2. measurer' = [measurer EXCEPT ![d] = m] /\ UNCHANGED <<language, tree, reports>>
  <2>2. d \in DOMAIN measurer
    BY Directories DEF ShardsInv
  <2> QED  BY <2>2, Zenon DEF fingerprintTypescript
<1>3. h \in ReportFiles
  BY <1>1 DEF Measurement
<1>4. /\ r \in ReportFiles /\ r.complete = h.complete /\ r.error = h.error
      /\ r.shards = h.shards /\ r.ids = h.ids /\ r.mutations = h.mutations /\ r.inputs = tree
  BY <1>1, <1>3 DEF ReportFiles
<1> HIDE DEF r
<1>5. /\ Measurement(d, m, language) /\ m.report.mutations = h.mutations
      /\ m.report.ids = h.ids
  <2>1. measurer[d] \in [step : MeasurerSteps, report : ReportFiles, workspace : Nat \cup {None}]
    BY <1>1 DEF Measurement
  <2>2. /\ m \in [step : MeasurerSteps, report : ReportFiles, workspace : Nat \cup {None}]
        /\ m.step = "baselines" /\ m.report = r /\ m.workspace = measurer[d].workspace
    BY <1>4, <2>1, Zenon DEF MeasurerSteps
  <2> HIDE DEF m
  <2> QED  BY <1>1, <1>4, <2>2 DEF Measurement
<1> HIDE DEF m
<1> QED  BY <1>1, <1>2, <1>5, MoveStays, Zenon

\* Go and Rust copy, select and hash in the copy.
LEMMA CopiesStay ==
    ASSUME ShardsInv, NEW d \in Counting, NEW only, At(d, "prepare"), Copies(d, only)
    PROVE  ShardsInv'
<1> DEFINE ids == partitionMutations(d)
           r == [Stub EXCEPT !.ids = ids, !.inputs = tree]
           m == [step |-> "baselines", workspace |-> tree, report |-> r]
<1>1. /\ measurer[d] # None /\ measurer[d].step = "prepare" /\ tree \in Nat
      /\ Measurement(d, measurer[d], language)
  BY DEF At, ShardsInv
<1>2. CASE Throws(d)
  BY <1>1, <1>2, ThrowStays, Zenon
<1>3. CASE ~Throws(d)
  <2>1. selectMutations(d, only) = ids
    BY Directories DEF selectMutations
  <2>2. ids \in Seq(Mutants) /\ (d = Root => ids = Catalog)
    BY SlicesAreOfTheCatalog
  <2> HIDE DEF ids
  <2>3. measurer' = [measurer EXCEPT ![d] = m] /\ UNCHANGED <<language, tree, reports>>
    BY <1>3, <2>1 DEF Copies
  <2>4. /\ r \in ReportFiles /\ ~r.complete /\ ~r.error /\ r.shards = 0 /\ r.ids = ids
        /\ r.mutations = <<>> /\ r.inputs = tree
    BY <1>1, <2>2, StubIsFile, Zenon DEF Stub, ReportFiles
  <2> HIDE DEF r
  <2>5. Measurement(d, m, language)
    BY <1>1, <2>2, <2>4, Zenon DEF Measurement, MeasurerSteps
  <2>6. m.report.mutations = measurer[d].report.mutations
    BY <1>1, <2>4, Zenon DEF Measurement
  <2>7. d \in Shards => reports[d].ids = None
    <3>1. d \in Shards => Synced(reports[d], measurer[d])
      BY <1>1 DEF ShardsInv
    <3> QED  BY <1>1, <3>1 DEF Synced, Measurement, Stub
  <2> HIDE DEF m
  <2> QED  BY <1>1, <2>3, <2>5, <2>6, <2>7, MoveStays, Zenon
<1> QED  BY <1>2, <1>3

\* The baselines are measured before any mutant.
LEMMA BaselinesStay ==
    ASSUME ShardsInv, NEW d \in Counting, NEW seen \in Environments, Baselines(d, seen)
    PROVE  ShardsInv'
<1> DEFINE h == measurer[d].report
           r == [h EXCEPT !.baselines = seen]
           m == [measurer[d] EXCEPT !.report = r, !.step = "measure"]
           then == IF "measure" = None THEN None ELSE m
<1>1. /\ measurer[d] # None /\ measurer[d].step = "baselines"
      /\ Measurement(d, measurer[d], language)
  BY DEF Baselines, At, ShardsInv
<1>2. CASE Throws(d)
  BY <1>1, <1>2, ThrowStays
<1>3. CASE ~Throws(d)
  <2>1. /\ reports' = [reports EXCEPT ![d] = r] /\ UNCHANGED <<language, tree>>
        /\ measurer' = [measurer EXCEPT ![d] = then]
    BY <1>3 DEF Baselines, Saves
  <2>2. h \in ReportFiles /\ seen # None
    BY <1>1, ShardsAssumption DEF Measurement
  <2>3. /\ r \in ReportFiles /\ r.complete = h.complete /\ r.error = h.error
        /\ r.shards = h.shards /\ r.ids = h.ids /\ r.mutations = h.mutations
        /\ r.inputs = h.inputs /\ r.baselines = seen
    BY <2>2 DEF ReportFiles
  <2> HIDE DEF r
  <2>4. r.mutations = <<>> /\ r.ids \in Seq(Mutants) /\ ~r.complete /\ r.shards = 0
    BY <1>1, <2>3 DEF Measurement
  <2>5. Filed(r, language) /\ Evident(r, language)
    BY <2>2, <2>3, <2>4 DEF Filed, Evident
  <2>6. Measurement(d, m, language) /\ m.report = r
    <3>1. measurer[d] \in [step : MeasurerSteps, report : ReportFiles, workspace : Nat \cup {None}]
      BY <1>1, Zenon DEF Measurement
    <3>2. /\ m \in [step : MeasurerSteps, report : ReportFiles, workspace : Nat \cup {None}]
          /\ m.step = "measure" /\ m.report = r /\ m.workspace = measurer[d].workspace
      BY <2>3, <3>1, Zenon DEF MeasurerSteps
    <3> HIDE DEF m
    <3>3. /\ DOMAIN r.mutations = {} /\ Len(r.mutations) <= Len(r.ids)
      BY <2>4
    <3>4. /\ ~h.error /\ h.inputs \in Nat /\ (d = Root => h.ids = Catalog)
          /\ measurer[d].workspace \in Nat
          /\ language # "ts" => h.inputs = measurer[d].workspace
      BY <1>1, Zenon DEF Measurement
    <3> HIDE DEF h
    <3> QED  BY <2>2, <2>3, <2>4, <3>2, <3>3, <3>4, Zenon DEF Measurement
  <2>7. d \in Shards /\ Settled(reports[d]) =>
           r.mutations = reports[d].mutations /\ r.ids = reports[d].ids
    BY <1>1, <2>3, SettledIsHeld
  <2> HIDE DEF m
  <2>8. then # None => Measurement(d, then, language) /\ then.report = r
    BY <2>6
  <2> HIDE DEF then
  <2> QED  BY <1>1, <2>1, <2>4, <2>5, <2>7, <2>8, SaveStays, Zenon
<1> QED  BY <1>2, <1>3

\* The next mutant is measured and appended; a settled shard has no next one.
LEMMA MeasuresStay ==
    ASSUME ShardsInv, NEW d \in Counting, NEW held \in BOOLEAN, Measures(d, held)
    PROVE  ShardsInv'
<1> DEFINE h == measurer[d].report
           x == [id |-> h.ids[Len(h.mutations) + 1], held |-> held,
                 of |-> measurer[d].workspace]
           r == [h EXCEPT !.mutations = Append(h.mutations, x)]
           m == [measurer[d] EXCEPT !.report = r, !.step = "measure"]
           then == IF "measure" = None THEN None ELSE m
<1>1. /\ measurer[d] # None /\ measurer[d].step = "measure"
      /\ Len(h.mutations) < Len(h.ids) /\ Measurement(d, measurer[d], language)
  BY Zenon DEF Measures, At, ShardsInv
<1>2. CASE Throws(d)
  BY <1>1, <1>2, ThrowStays
<1>3. CASE ~Throws(d)
  <2>1. /\ reports' = [reports EXCEPT ![d] = r] /\ UNCHANGED <<language, tree>>
        /\ measurer' = [measurer EXCEPT ![d] = then]
    BY <1>3 DEF Measures, Saves
  <2>2. /\ h \in ReportFiles /\ h.mutations \in Seq(Measured) /\ h.ids \in Seq(Mutants)
        /\ measurer[d].workspace \in Nat
    BY <1>1, Zenon DEF Measurement, ReportFiles
  <2>3. x \in Measured /\ x.id = h.ids[Len(h.mutations) + 1] /\ x.of = measurer[d].workspace
    <3>1. h.ids[Len(h.mutations) + 1] \in Mutants
      BY <1>1, <2>2
    <3> QED  BY <2>2, <3>1 DEF Measured
  <2> HIDE DEF x
  <2>4. /\ Append(h.mutations, x) \in Seq(Measured)
        /\ Len(Append(h.mutations, x)) = Len(h.mutations) + 1
        /\ \A k \in DOMAIN Append(h.mutations, x) :
              /\ Append(h.mutations, x)[k].id = h.ids[k]
              /\ Append(h.mutations, x)[k].of = measurer[d].workspace
    <3>1. /\ Append(h.mutations, x) \in Seq(Measured)
          /\ Len(Append(h.mutations, x)) = Len(h.mutations) + 1
          /\ DOMAIN Append(h.mutations, x) = 1 .. Len(h.mutations) + 1
      BY <2>2, <2>3
    <3>2. ASSUME NEW k \in 1 .. Len(h.mutations) + 1
          PROVE  Append(h.mutations, x)[k] =
                    IF k = Len(h.mutations) + 1 THEN x ELSE h.mutations[k]
      BY <2>2, <2>3
    <3>3. \A k \in 1 .. Len(h.mutations) : /\ h.mutations[k].id = h.ids[k]
                                           /\ h.mutations[k].of = measurer[d].workspace
      <4>1. DOMAIN h.mutations = 1 .. Len(h.mutations)
        BY <2>2
      <4> QED  BY <1>1, <4>1, Zenon DEF Measurement
    <3>4. \A k \in 1 .. Len(h.mutations) + 1 :
             k # Len(h.mutations) + 1 => k \in 1 .. Len(h.mutations)
      BY <2>2
    <3> QED  BY <2>3, <3>1, <3>2, <3>3, <3>4, Zenon
  <2>5. /\ r \in ReportFiles /\ r.complete = h.complete /\ r.error = h.error
        /\ r.shards = h.shards /\ r.ids = h.ids /\ r.mutations = Append(h.mutations, x)
        /\ r.inputs = h.inputs /\ r.baselines = h.baselines
    BY <2>2, <2>4, Zenon DEF ReportFiles
  <2> HIDE DEF r
  <2>6. Measurement(d, m, language) /\ m.report = r
    <3>1. measurer[d] \in [step : MeasurerSteps, report : ReportFiles, workspace : Nat \cup {None}]
      BY <1>1 DEF Measurement
    <3>2. /\ m \in [step : MeasurerSteps, report : ReportFiles, workspace : Nat \cup {None}]
          /\ m.step = "measure" /\ m.report = r /\ m.workspace = measurer[d].workspace
      BY <2>5, <3>1, Zenon DEF MeasurerSteps
    <3>3. /\ ~r.complete /\ ~r.error /\ r.shards = 0 /\ r.ids \in Seq(Mutants)
          /\ d = Root => r.ids = Catalog
          /\ r.inputs \in Nat /\ (language # "ts" => r.inputs = measurer[d].workspace)
          /\ r.baselines # None
      BY <1>1, <2>5, Zenon DEF Measurement
    <3>4. /\ Len(r.mutations) <= Len(r.ids)
          /\ \A k \in DOMAIN r.mutations : /\ r.mutations[k].id = r.ids[k]
                                           /\ r.mutations[k].of = measurer[d].workspace
      <4>1. Len(r.mutations) <= Len(r.ids)
        BY <1>1, <2>2, <2>4, <2>5
      <4> QED  BY <2>4, <2>5, <4>1, Zenon
    <3> HIDE DEF m
    <3> QED  BY <2>2, <3>2, <3>3, <3>4 DEF Measurement
  <2>7. Filed(r, language) /\ Evident(r, language) /\ r.shards = 0
    <3>1. /\ ~r.complete /\ r.baselines # None /\ r.shards = 0
          /\ language # "ts" => r.inputs = measurer[d].workspace
      BY <1>1, <2>5, Zenon DEF Measurement
    <3> QED  BY <2>4, <2>5, <3>1, Zenon DEF Filed, Evident
  <2>8. ~(d \in Shards /\ Settled(reports[d]))
    <3>1. ASSUME d \in Shards, Settled(reports[d]) PROVE FALSE
      <4>1. h.ids = Ids(h.mutations)
        BY <1>1, <3>1, SettledIsHeld DEF Settled
      <4>2. DOMAIN h.ids = DOMAIN h.mutations
        BY <4>1 DEF Ids
      <4> QED  BY <1>1, <2>2, <4>2
    <3> QED  BY <3>1
  <2> HIDE DEF m
  <2>9. then # None => Measurement(d, then, language) /\ then.report = r
    BY <2>6
  <2> HIDE DEF then
  <2> QED  BY <1>1, <2>1, <2>7, <2>8, <2>9, SaveStays, Zenon
<1> QED  BY <1>2, <1>3

\* What the gate makes of a report.
Gated(r, summarize, g) ==
    /\ g \in ReportFiles
    /\ g.complete <=> summarize /\ Regressions(r) = {}
    /\ g.error <=> Regressions(r) # {}
    /\ g.ids = r.ids /\ g.mutations = r.mutations /\ g.baselines = r.baselines
    /\ g.inputs = r.inputs /\ g.shards = r.shards
    /\ Regressions(g) = Regressions(r)

\* gateDetections grants completion to a summary without regressions and keeps
\* the rest of the report.
LEMMA Gating ==
    ASSUME NEW r \in ReportFiles, NEW summarize \in BOOLEAN, NEW g,
           g = gateDetections(r, summarize)
    PROVE  Gated(r, summarize, g)
<1>1. PICK a, b \in BOOLEAN :
         /\ a = (summarize /\ Regressions(r) = {}) /\ b = (Regressions(r) # {})
  BY Zenon
<1>2. g = [r EXCEPT !.complete = a, !.error = b]
  BY <1>1, Zenon DEF gateDetections
<1>3. /\ g \in ReportFiles /\ g.complete = a /\ g.error = b
      /\ g.ids = r.ids /\ g.mutations = r.mutations /\ g.baselines = r.baselines
      /\ g.inputs = r.inputs /\ g.shards = r.shards
  BY <1>2, Zenon DEF ReportFiles
<1>4. Regressions(g) = Regressions(r)
  BY <1>3 DEF Regressions
<1> QED  BY <1>1, <1>3, <1>4, Zenon DEF Gated

\* The last mutant is measured: the root gates the catalog, a shard its slice.
LEMMA FinishesStay ==
    ASSUME ShardsInv, NEW d \in Counting, Finishes(d)
    PROVE  ShardsInv'
<1> DEFINE h == measurer[d].report
<1>1. /\ measurer[d] # None /\ measurer[d].step = "measure"
      /\ Len(h.mutations) = Len(h.ids) /\ Measurement(d, measurer[d], language)
  BY DEF Finishes, At, ShardsInv
<1>2. PICK s \in BOOLEAN : s = (d = Root)
  BY Zenon
<1>a. PICK r : r = gateDetections(h, s)
  OBVIOUS
<1>3. /\ reports' = [reports EXCEPT ![d] = r] /\ UNCHANGED <<language, tree>>
      /\ measurer' = [measurer EXCEPT ![d] = None]
  BY <1>2, <1>a, Directories, Zenon DEF Finishes, Saves
<1>4. h \in ReportFiles /\ h.mutations \in Seq(Measured) /\ h.ids \in Seq(Mutants)
  BY <1>1, Zenon DEF Measurement, ReportFiles
<1>5. /\ r \in ReportFiles /\ (r.complete <=> s /\ Regressions(h) = {})
      /\ r.error <=> Regressions(h) # {}
      /\ r.ids = h.ids /\ r.mutations = h.mutations /\ r.baselines = h.baselines
      /\ r.inputs = h.inputs /\ r.shards = h.shards /\ Regressions(r) = Regressions(h)
  <2> HIDE DEF h
  <2>1. Gated(h, s, r)
    BY <1>4, <1>a, Gating
  <2> QED  BY <2>1, Zenon DEF Gated
<1>6. /\ r.baselines # None /\ r.shards = 0
      /\ language # "ts" => \A k \in DOMAIN r.mutations : r.mutations[k].of = r.inputs
  BY <1>1, <1>5, MeasuredInTheTree, Zenon DEF Measurement
<1>7. Filed(r, language)
  BY <1>5, <1>6 DEF Filed
<1>8. d = Root => Ids(r.mutations) = Catalog
  <2>1. DOMAIN h.mutations = DOMAIN h.ids
    BY <1>1, <1>4
  <2>2. Ids(h.mutations) = h.ids
    <3>1. \A k \in DOMAIN h.mutations : h.mutations[k].id = h.ids[k]
      BY <1>1, Zenon DEF Measurement
    <3>2. h.ids = [k \in DOMAIN h.ids |-> h.ids[k]]
      BY <1>4
    <3> QED  BY <2>1, <3>1, <3>2 DEF Ids
  <2> QED  BY <1>1, <1>5, <2>2, Zenon DEF Measurement
<1>9. d = Root => Evident(r, language)
  BY <1>5, <1>6, <1>8 DEF Evident
<1>10. d \in Shards /\ Settled(reports[d]) =>
          r.mutations = reports[d].mutations /\ r.ids = reports[d].ids
  BY <1>1, <1>5, SettledIsHeld, Zenon
<1> QED  BY <1>1, <1>3, <1>6, <1>7, <1>9, <1>10, SaveStays, Zenon

\* Only the root's report changes.
LEMMA RootStays ==
    ASSUME ShardsInv, NEW r \in ReportFiles, reports' = [reports EXCEPT ![Root] = r],
           UNCHANGED <<language, tree, measurer>>, Evident(r, language), Founded(r)
    PROVE  ShardsInv'
<1>1. /\ tree' \in Nat
      /\ reports' = [e \in selectionDirectory |-> reports'[e]]
      /\ measurer' = [e \in selectionDirectory |-> measurer'[e]]
  BY DEF ShardsInv
<1>2. reports'[Root] = r /\ \A e \in Shards : reports'[e] = reports[e]
  BY Directories DEF ShardsInv, Counting
<1>3. /\ \A e \in Counting : measurer'[e] # None => Measurement(e, measurer'[e], language')
      /\ \A e \in Shards : /\ reports'[e] # None => Filed(reports'[e], language')
                           /\ measurer'[e] # None => Synced(reports'[e], measurer'[e])
  BY <1>2 DEF ShardsInv
<1>4. Founded(r)'
  <2>1. readShardReports' = readShardReports
    BY <1>2 DEF readShardReports
  <2>2. ASSUME NEW c \in Counts PROVE Merged(c)' = Merged(c)
    <3>1. \A i \in 1..c : reports'[[index |-> i, count |-> c]].mutations
                             = reports[[index |-> i, count |-> c]].mutations
      BY <1>2, Directories
    <3> QED  BY <3>1, Zenon DEF Merged
  <2>3. \A e \in readShardReports : reports'[e] = reports[e]
    BY <1>2 DEF readShardReports
  <2> QED  BY <2>1, <2>2, <2>3 DEF Founded, Settled
<1> QED  BY <1>1, <1>2, <1>3, <1>4 DEF ShardsInv

\* What mergeShardReports makes of mergeable reports.
LEMMA MergedIsEvidence ==
    ASSUME ShardsInv, NEW c \in Counts, mergeable(c), NEW r,
           r = gateDetections(mergeShardReports(c), TRUE)
    PROVE  r \in ReportFiles /\ Evident(r, language) /\ Founded(r)
<1> DEFINE first == reports[[index |-> 1, count |-> c]]
           union == mergeShardReports(c)
           A == {x \in Measured : language # "ts" => x.of = first.inputs}
           parts == [i \in 1..c |-> reports[[index |-> i, count |-> c]].mutations]
<1>1. c \in Nat /\ c > 1
  BY ShardsAssumption
<1>2. /\ readShardReports = {d \in Shards : d.count = c}
      /\ \A d \in readShardReports :
            /\ Settled(reports[d]) /\ ~reports[d].error /\ reports[d].inputs = first.inputs
      /\ first.inputs = tree /\ Ids(Merged(c)) = Catalog
  BY Zenon DEF mergeable, Settled
<1>3. \A i \in 1..c : [index |-> i, count |-> c] \in readShardReports
  BY <1>2, Directories
<1>4. \A d \in readShardReports : Filed(reports[d], language)
  BY DEF readShardReports, ShardsInv
<1>5. /\ first \in ReportFiles /\ first.baselines # None /\ first.inputs \in Nat
  <2>1. Filed(first, language) /\ ~first.error
    <3>1. 1 \in 1..c
      BY <1>1
    <3> QED  BY <1>2, <1>3, <1>4, <3>1, Zenon
  <2>2. first.inputs \in Nat /\ first.inputs # None
    BY <1>2, ShardsAssumption DEF ShardsInv
  <2> QED  BY <2>1, <2>2, Zenon DEF Filed
<1>6. Merged(c) \in Seq(A)
  <2>1. ASSUME NEW i \in 1..c PROVE parts[i] \in Seq(A)
    <3> DEFINE e == reports[[index |-> i, count |-> c]]
    <3>1. Filed(e, language) /\ e.inputs = first.inputs
      BY <1>2, <1>3, <1>4, Zenon
    <3>2. e.mutations \in Seq(Measured)
      BY <3>1 DEF Filed, ReportFiles
    <3>3. \A k \in 1 .. Len(e.mutations) : e.mutations[k] \in A
      <4>1. DOMAIN e.mutations = 1 .. Len(e.mutations)
        <5> HIDE DEF e
        <5> QED  BY <3>2
      <4> QED  BY <3>1, <3>2, <4>1 DEF Filed
    <3> HIDE DEF A, e
    <3>4. e.mutations \in Seq(A)
      BY <3>2, <3>3
    <3> QED  BY <3>4 DEF e
  <2> HIDE DEF A
  <2>2. parts \in Seq(Seq(A)) /\ Len(parts) = c
    <3> DEFINE S == Seq(A)
    <3>1. \A i \in 1..c : parts[i] \in S
      BY <2>1
    <3> HIDE DEF S
    <3>2. parts \in [1..c -> S]
      BY <3>1
    <3> HIDE DEF parts
    <3>3. parts \in Seq(S) /\ Len(parts) = c
      BY <1>1, <3>2
    <3> QED  BY <3>3 DEF S
  <2> HIDE DEF parts
  <2>3. flatMap(parts) \in Seq(A)
    BY <2>2, FlatMapType
  <2> QED  BY <2>3 DEF Merged, parts
<1>7. /\ Merged(c) \in Seq(Measured)
      /\ language # "ts" => \A k \in DOMAIN Merged(c) : Merged(c)[k].of = first.inputs
  <2>1. /\ DOMAIN Merged(c) = 1 .. Len(Merged(c)) /\ Len(Merged(c)) \in Nat
        /\ \A k \in DOMAIN Merged(c) : Merged(c)[k] \in A
        /\ Merged(c) = [k \in 1 .. Len(Merged(c)) |-> Merged(c)[k]]
    <3> HIDE DEF A
    <3> QED  BY <1>6
  <2>2. \A k \in DOMAIN Merged(c) : Merged(c)[k] \in Measured
    BY <2>1
  <2> QED  BY <2>1, <2>2
<1> HIDE DEF A, parts, first
<1>8. /\ union \in ReportFiles /\ union.mutations = Merged(c) /\ union.shards = c
      /\ union.inputs = first.inputs /\ union.baselines = first.baselines
  <2>1. union = [first EXCEPT !.ids = None, !.mutations = Merged(c), !.shards = c]
    BY DEF mergeShardReports, first
  <2> HIDE DEF union
  <2> QED  BY <1>1, <1>5, <1>7, <2>1, Zenon DEF ReportFiles
<1>9. /\ r \in ReportFiles /\ (r.complete <=> Regressions(union) = {})
      /\ r.error <=> Regressions(union) # {}
      /\ r.mutations = Merged(c) /\ r.baselines = first.baselines
      /\ r.inputs = first.inputs /\ r.shards = c /\ Regressions(r) = Regressions(union)
  <2> HIDE DEF union
  <2>1. r = gateDetections(union, TRUE)
    BY DEF union
  <2>2. Gated(union, TRUE, r)
    BY <1>8, <2>1, Gating, Zenon
  <2> QED  BY <1>8, <2>2, Zenon DEF Gated
<1> HIDE DEF union
<1>10. Evident(r, language)
  BY <1>2, <1>5, <1>7, <1>9, Zenon DEF Evident
<1>11. Founded(r)
  BY <1>2, <1>9, Zenon DEF Founded
<1> QED  BY <1>9, <1>10, <1>11, Zenon

\* A merge replaces the root by the gated merge or by its refusal.
LEMMA MergeStays ==
    ASSUME ShardsInv, mergeMutationReports
    PROVE  ShardsInv'
<1>1. CASE \E count \in Counts : mergeable(count)
  <2>1. PICK c : c = CHOOSE n \in Counts : mergeable(n)
    OBVIOUS
  <2>2. c \in Counts /\ mergeable(c)
    BY <1>1, <2>1, Zenon
  <2>3. PICK r : r = gateDetections(mergeShardReports(c), TRUE)
    BY Zenon
  <2>4. reports' = [reports EXCEPT ![Root] = r] /\ UNCHANGED <<language, tree, measurer>>
    BY <1>1, <2>1, <2>3, Zenon DEF mergeMutationReports
  <2>5. r \in ReportFiles /\ Evident(r, language) /\ Founded(r)
    BY <2>2, <2>3, MergedIsEvidence, Zenon
  <2> QED  BY <2>4, <2>5, RootStays, Zenon
<1>2. CASE ~\E count \in Counts : mergeable(count)
  <2> DEFINE r == [Stub EXCEPT !.error = TRUE]
  <2>1. reports' = [reports EXCEPT ![Root] = r] /\ UNCHANGED <<language, tree, measurer>>
    BY <1>2, Zenon DEF mergeMutationReports
  <2>2. r \in ReportFiles /\ ~r.complete
    BY StubIsFile, Zenon DEF Stub, ReportFiles
  <2> HIDE DEF r
  <2>3. Evident(r, language) /\ Founded(r)
    BY <2>2 DEF Evident, Founded
  <2> QED  BY <2>1, <2>2, <2>3, RootStays, Zenon
<1> QED  BY <1>1, <1>2

\* Whatever a partial run does, it does to its own directory.
LEMMA PartialRuns ==
    ASSUME ShardsInv, NEW d, d = Partial,
           \/ start(d) \/ copyTypescript(d) \/ fingerprintTypescript(d) \/ cancel(d)
           \/ \E only \in Named : prepareTypescript(d, only) \/ Copies(d, only)
           \/ \E seen \in Environments : Baselines(d, seen)
           \/ \E held \in BOOLEAN : Measures(d, held)
           \/ Finishes(d)
    PROVE  ShardsInv'
<1>1. SUFFICES \E r, m : /\ reports' = [reports EXCEPT ![Partial] = r]
                         /\ measurer' = [measurer EXCEPT ![Partial] = m]
                         /\ UNCHANGED <<language, tree>>
  BY PartialStays, Zenon
<1>2. ASSUME NEW r, NEW s, Saves(d, r, s)
      PROVE  \E q, m : /\ reports' = [reports EXCEPT ![Partial] = q]
                       /\ measurer' = [measurer EXCEPT ![Partial] = m]
                       /\ UNCHANGED <<language, tree>>
  BY <1>2, Zenon DEF Saves
<1>3. Throws(d) => \E r, s : Saves(d, r, s)
  BY Zenon DEF Throws
<1>4. reports = [reports EXCEPT ![Partial] = reports[Partial]]
  BY DEF ShardsInv
<1>5. Partial \in DOMAIN measurer
  BY DEF ShardsInv, selectionDirectory
<1>6. CASE start(d)
  BY <1>6, Zenon DEF start, invalidate
<1>7. CASE copyTypescript(d)
  BY <1>4, <1>5, <1>7, Zenon DEF copyTypescript
<1>8. CASE fingerprintTypescript(d)
  <2> DEFINE m == [measurer[d] EXCEPT !.step = "baselines",
                     !.report = [measurer[d].report EXCEPT !.inputs = tree]]
  <2>1. measurer' = [measurer EXCEPT ![d] = m]
    BY <1>5, <1>8, Zenon DEF fingerprintTypescript
  <2> HIDE DEF m
  <2> QED  BY <1>4, <1>8, <2>1, Zenon DEF fingerprintTypescript
<1>9. CASE cancel(d)
  BY <1>4, <1>9, Zenon DEF cancel
<1>10. CASE \E only \in Named : prepareTypescript(d, only)
  <2>1. PICK only : prepareTypescript(d, only)
    BY <1>10
  <2>2. CASE \E r, s : Saves(d, r, s)
    BY <1>2, <2>2
  <2>3. CASE ~\E r, s : Saves(d, r, s)
    BY <1>4, <2>1, <2>3 DEF prepareTypescript
  <2> QED  BY <2>2, <2>3
<1>11. CASE \E only \in Named : Copies(d, only)
  <2>1. PICK only : Copies(d, only)
    BY <1>11
  <2>2. CASE Throws(d)
    BY <1>2, <1>3, <2>2
  <2>3. CASE ~Throws(d)
    BY <1>4, <2>1, <2>3, Zenon DEF Copies
  <2> QED  BY <2>2, <2>3
<1>12. CASE \E seen \in Environments : Baselines(d, seen)
  <2>1. \E r, s : Saves(d, r, s)
    BY <1>3, <1>12, Zenon DEF Baselines
  <2> QED  BY <1>2, <2>1
<1>13. CASE \E held \in BOOLEAN : Measures(d, held)
  <2>1. \E r, s : Saves(d, r, s)
    BY <1>3, <1>13, Zenon DEF Measures
  <2> QED  BY <1>2, <2>1
<1>14. CASE Finishes(d)
  <2>1. \E r, s : Saves(d, r, s)
    BY <1>14, Zenon DEF Finishes
  <2> QED  BY <1>2, <2>1
<1> QED  BY <1>6, <1>7, <1>8, <1>9, <1>10, <1>11, <1>12, <1>13, <1>14

\* The reports and processes hold to the invariant, whatever order measurements,
\* cancellations, merges and edits come in.
THEOREM ShardsInvariant == ShardsSpec => []ShardsInv
<1>1. Init => ShardsInv
  <2> SUFFICES ASSUME Init PROVE ShardsInv
    OBVIOUS
  <2>1. tree \in Nat
    BY DEF Init
  <2>2. Root \in Counting /\ Counting \subseteq selectionDirectory
    BY Directories, Zenon DEF Counting
  <2>3. \A d \in selectionDirectory : reports[d] = None /\ measurer[d] = None
    BY Zenon DEF Init
  <2>4. /\ reports = [d \in selectionDirectory |-> reports[d]]
        /\ measurer = [d \in selectionDirectory |-> measurer[d]]
    BY Zenon DEF Init
  <2> QED  BY <2>1, <2>2, <2>3, <2>4, Zenon DEF ShardsInv, Counting
<1>2. ASSUME ShardsInv, [Next]_shardVars
      PROVE  ShardsInv'
  <2>1. ASSUME NEW d \in selectionDirectory,
               \/ start(d) \/ copyTypescript(d) \/ fingerprintTypescript(d) \/ cancel(d)
               \/ \E only \in Named : \/ prepareTypescript(d, only)
                                      \/ At(d, "prepare") /\ Copies(d, only)
               \/ \E seen \in Environments : Baselines(d, seen)
               \/ \E held \in BOOLEAN : Measures(d, held)
               \/ Finishes(d)
        PROVE  ShardsInv'
    <3>1. CASE d = Partial
      BY <1>2, <2>1, <3>1, PartialRuns
    <3>2. CASE d # Partial
      <4>1. d \in Counting
        BY <3>2 DEF selectionDirectory, Counting
      <4>2. CASE start(d)
        BY <1>2, <4>1, <4>2, StartStays
      <4>3. CASE copyTypescript(d)
        BY <1>2, <4>1, <4>3, CopyStays
      <4>4. CASE fingerprintTypescript(d)
        BY <1>2, <4>1, <4>4, FingerprintStays
      <4>5. CASE cancel(d)
        BY <1>2, <4>1, <4>5, EndStays, Zenon DEF cancel
      <4>6. CASE \E only \in Named : prepareTypescript(d, only)
        BY <1>2, <4>1, <4>6, SelectionStays
      <4>7. CASE \E only \in Named : At(d, "prepare") /\ Copies(d, only)
        BY <1>2, <4>1, <4>7, CopiesStay
      <4>8. CASE \E seen \in Environments : Baselines(d, seen)
        BY <1>2, <4>1, <4>8, BaselinesStay
      <4>9. CASE \E held \in BOOLEAN : Measures(d, held)
        BY <1>2, <4>1, <4>9, MeasuresStay
      <4>10. CASE Finishes(d)
        BY <1>2, <4>1, <4>10, FinishesStay
      <4> QED  BY <2>1, <4>2, <4>3, <4>4, <4>5, <4>6, <4>7, <4>8, <4>9, <4>10
    <3> QED  BY <3>1, <3>2
  <2>2. ASSUME NEW d \in selectionDirectory, NEW compiles \in BOOLEAN, NEW held \in BOOLEAN,
               \/ measureTypescript(d, compiles, held) \/ measureGo(d, compiles, held)
               \/ measureRust(d, compiles, held)
        PROVE  \E kept \in BOOLEAN : Measures(d, kept)
    <3>1. noncompilingResult(compiles, held) \in BOOLEAN
      BY DEF noncompilingResult
    <3> QED  BY <2>2, <3>1, Zenon DEF measureTypescript, measureGo, measureRust
  <2>3. CASE mergeMutationReports
    BY <1>2, <2>3, MergeStays
  <2>4. CASE Edit \/ UNCHANGED shardVars
    <3>1. UNCHANGED <<language, reports, measurer>> /\ tree' \in Nat
      BY <1>2, <2>4 DEF Edit, shardVars, ShardsInv
    <3> QED  BY <1>2, <3>1, Zenon DEF ShardsInv, Founded, readShardReports, Merged, Settled
  <2>5. CASE Next /\ ~mergeMutationReports /\ ~Edit
    <3>1. PICK d \in selectionDirectory :
          \/ start(d) \/ copyTypescript(d) \/ fingerprintTypescript(d) \/ cancel(d)
          \/ \E only \in Named : \/ prepareTypescript(d, only)
                                 \/ prepareGo(d, only) \/ prepareRust(d, only)
          \/ \E seen \in Environments : \/ baselinesTypescript(d, seen)
                                        \/ baselinesGo(d, seen) \/ baselinesRust(d, seen)
          \/ \E compiles, held \in BOOLEAN : \/ measureTypescript(d, compiles, held)
                                             \/ measureGo(d, compiles, held)
                                             \/ measureRust(d, compiles, held)
          \/ finishTypescript(d) \/ finishGo(d) \/ finishRust(d)
      BY <2>5, Zenon DEF Next
    <3>2. \/ start(d) \/ copyTypescript(d) \/ fingerprintTypescript(d) \/ cancel(d)
          \/ \E only \in Named : \/ prepareTypescript(d, only)
                                 \/ At(d, "prepare") /\ Copies(d, only)
          \/ \E seen \in Environments : Baselines(d, seen)
          \/ \E held \in BOOLEAN : Measures(d, held)
          \/ Finishes(d)
      BY <2>2, <3>1, Zenon DEF prepareGo, prepareRust, baselinesTypescript, baselinesGo,
                               baselinesRust, finishTypescript, finishGo, finishRust
    <3> QED  BY <2>1, <3>2
  <2> QED  BY <1>2, <2>3, <2>4, <2>5
<1> QED  BY <1>1, <1>2, PTL DEF ShardsSpec

\* A report that claims the whole catalog, whether mergeMutationReports put it
\* together from the shards or one measurement finished it, holds one outcome per
\* mutation of that catalog, measured on the sources it names.
THEOREM CompleteReportsAreEvidence == ShardsSpec => []CompleteReportIsEvidence
<1>1. ShardsInv => CompleteReportIsEvidence
  <2> SUFFICES ASSUME ShardsInv, reports[Root] # None, reports[Root].complete
               PROVE  CompleteReportIsEvidence
    BY Zenon DEF CompleteReportIsEvidence
  <2>1. Evident(reports[Root], language) /\ Founded(reports[Root])
    BY DEF ShardsInv
  <2> QED  BY <2>1, Zenon DEF Evident, Founded, CompleteReportIsEvidence
<1> QED  BY <1>1, ShardsInvariant, PTL

-----------------------------------------------------------------------------
(* Evidence lanes *)

Trees == [Group -> Nat]
UpTo(older, newer) == \A g \in Group : older[g] <= newer[g]

\* A prepared context is of an earlier or the present tree.
Prepared(c, present, now) ==
    /\ c.tree \in Trees /\ UpTo(c.tree, present)
    /\ c.createdAt \in Nat /\ c.createdAt < now

\* A replay read trees no newer than the present one, and none older than a
\* context that was there when it began.
ReadBy(n, present, now, contexts) ==
    /\ n.startedAt \in Nat /\ n.startedAt < now
    /\ n.saw \in SUBSET Trees /\ n.saw # {}
    /\ \A t \in n.saw : UpTo(t, present)
    /\ \A l \in LanePorts :
          contexts[l] # NoFile /\ n.startedAt >= contexts[l].createdAt
             => \A t \in n.saw : UpTo(contexts[l].tree, t)

Generation == {"invalidate", "generate", "generated"}
StepNames == Generation \cup {"prepare", "replay", "check", "adapt", "complete"}

\* Only a port's own target has the steps of a lane.
Planned(q) ==
    /\ q = [targets |-> q.targets, steps |-> q.steps, replay |-> q.replay]
    /\ q.targets \in Seq(LanePorts \cup {"generate"})
    /\ q.steps \in Seq(StepNames)
    /\ q.steps # <<>> =>
          /\ q.targets # <<>>
          /\ Head(q.targets) = "generate" => q.steps \in Seq(Generation)

\* The inductive invariant of the lanes.
LanesInv ==
    /\ laneTree \in Trees /\ clock \in Nat
    /\ context = [l \in LanePorts |-> context[l]]
    /\ native = [l \in LanePorts |-> native[l]]
    /\ completion = [l \in LanePorts |-> completion[l]]
    /\ process = [p \in Processes |-> process[p]]
    /\ \A l \in LanePorts :
          /\ context[l] # NoFile => Prepared(context[l], laneTree, clock)
          /\ native[l] # NoFile => ReadBy(native[l], laneTree, clock, context)
          /\ completion[l] # NoFile => ReadBy(completion[l], laneTree, clock, context)
    /\ \A p \in Processes :
          /\ Planned(process[p])
          /\ process[p].replay # NoFile =>
                ReadBy(process[p].replay, laneTree, clock, context)
    /\ CompletionIsCurrent

\* A tree up to another is up to the later ones.
LEMMA StillUpTo ==
    ASSUME NEW t \in Trees, NEW present \in Trees, NEW later \in Trees,
           UpTo(t, present), UpTo(present, later)
    PROVE  UpTo(t, later)
<1>1. ASSUME NEW g \in Group PROVE t[g] <= later[g]
  <2>1. t[g] \in Nat /\ present[g] \in Nat /\ later[g] \in Nat
    BY Zenon DEF Trees
  <2>2. t[g] <= present[g] /\ present[g] <= later[g]
    BY Zenon DEF UpTo
  <2> QED  BY <2>1, <2>2, Transitive, Zenon
<1> QED  BY <1>1, Zenon DEF UpTo

\* A reading stays one when the tree moves on and contexts are prepared anew.
LEMMA ReadingsStay ==
    ASSUME NEW n, NEW present \in Trees, NEW later \in Trees, NEW now \in Nat,
           NEW then \in Nat, NEW contexts, NEW renewed,
           ReadBy(n, present, now, contexts), UpTo(present, later), now <= then,
           \A l \in LanePorts : \/ renewed[l] = contexts[l]
                                \/ renewed[l].createdAt = now
    PROVE  ReadBy(n, later, then, renewed)
<1>1. \A t \in n.saw : UpTo(t, later)
  <2> TAKE t \in n.saw
  <2>1. t \in Trees /\ UpTo(t, present)
    BY Zenon DEF ReadBy
  <2> QED  BY <2>1, StillUpTo, Zenon
<1>2. ASSUME NEW l \in LanePorts, renewed[l] # NoFile,
             n.startedAt >= renewed[l].createdAt
      PROVE  \A t \in n.saw : UpTo(renewed[l].tree, t)
  <2>1. renewed[l].createdAt # now
    <3>1. n.startedAt \in Nat /\ n.startedAt < now
      BY Zenon DEF ReadBy
    <3>2. \A a, b \in Nat : a < b => ~(a >= b)
      OBVIOUS
    <3> QED  BY <1>2, <3>1, <3>2, Zenon
  <2> QED  BY <1>2, <2>1, Zenon DEF ReadBy
<1>3. /\ n.startedAt \in Nat /\ n.saw \in SUBSET Trees /\ n.saw # {}
  BY Zenon DEF ReadBy
<1>4. n.startedAt < then
  <2>1. n.startedAt < now
    BY Zenon DEF ReadBy
  <2> QED  BY <1>3, <2>1, Transitive, Zenon
<1> QED  BY <1>1, <1>2, <1>3, <1>4, Zenon DEF ReadBy

\* So does a context.
LEMMA ContextsStay ==
    ASSUME NEW c, NEW present \in Trees, NEW later \in Trees, NEW now \in Nat,
           NEW then \in Nat, Prepared(c, present, now), UpTo(present, later), now <= then
    PROVE  Prepared(c, later, then)
<1>1. c.tree \in Trees /\ UpTo(c.tree, present) /\ c.createdAt \in Nat /\ c.createdAt < now
  BY Zenon DEF Prepared
<1>2. UpTo(c.tree, later) /\ c.createdAt < then
  BY <1>1, StillUpTo, Transitive, Zenon
<1> QED  BY <1>1, <1>2, Zenon DEF Prepared

\* An invocation before any targets is well planned.
LEMMA BeforeIsPlanned ==
    ASSUME NEW targets \in Seq(LanePorts \cup {"generate"})
    PROVE  Planned(Before(targets)) /\ Before(targets).replay = NoFile
<1>1. CASE targets = <<>>
  <2>1. Before(targets) = [targets |-> <<>>, steps |-> <<>>, replay |-> NoFile]
    BY <1>1, Zenon DEF Before, Idle
  <2>2. <<>> \in Seq(LanePorts \cup {"generate"}) /\ <<>> \in Seq(StepNames)
    OBVIOUS
  <2> QED  BY <2>1, <2>2 DEF Planned
<1>2. CASE targets # <<>>
  <2>1. validationPlan(Head(targets)) \in Seq(StepNames)
    <3>1. <<"invalidate", "generate", "generated">> \in Seq(StepNames)
      BY DEF StepNames, Generation
    <3>2. <<"invalidate", "prepare", "replay", "check", "adapt", "complete">>
             \in Seq(StepNames)
      BY DEF StepNames, Generation
    <3> QED  BY <3>1, <3>2 DEF validationPlan
  <2>2. Head(targets) = "generate" => validationPlan(Head(targets)) \in Seq(Generation)
    BY DEF validationPlan, Generation
  <2> QED  BY <1>2, <2>1, <2>2 DEF Before, Planned
<1> QED  BY <1>1, <1>2

\* What is left of a well planned invocation is well planned, and nothing of it
\* reads the tree.
LEMMA LeftIsPlanned ==
    ASSUME NEW p, Planned(process[p]), process[p].steps # <<>>
    PROVE  Planned(Left(p)) /\ Left(p).replay = NoFile
<1> DEFINE q == process[p]
<1>1. q.targets \in Seq(LanePorts \cup {"generate"}) /\ q.targets # <<>>
  BY DEF Planned
<1>2. Tail(q.targets) \in Seq(LanePorts \cup {"generate"})
  BY <1>1
<1>3. CASE Tail(q.steps) = <<>>
  BY <1>2, <1>3, BeforeIsPlanned, Zenon DEF Left
<1>4. CASE Tail(q.steps) # <<>>
  <2>1. Left(p) = [targets |-> q.targets, steps |-> Tail(q.steps), replay |-> NoFile]
    BY <1>4, Zenon DEF Left, Planned
  <2>2. Tail(q.steps) \in Seq(StepNames)
    BY DEF Planned
  <2>3. ASSUME Head(q.targets) = "generate" PROVE Tail(q.steps) \in Seq(Generation)
    <3>1. q.steps \in Seq(Generation) /\ q.steps # <<>>
      BY <2>3 DEF Planned
    <3> QED  BY <3>1
  <2>4. /\ Left(p).targets = q.targets /\ Left(p).steps = Tail(q.steps)
        /\ Left(p).replay = NoFile
    <3> HIDE DEF q
    <3> QED  BY <2>1
  <2> HIDE DEF q
  <2> QED  BY <1>1, <2>1, <2>2, <2>3, <2>4 DEF Planned
<1> QED  BY <1>3, <1>4

\* A process between two invocations has nothing planned.
LEMMA IdleIsPlanned == Planned(Idle) /\ Idle.replay = NoFile
BY DEF Planned, Idle

\* What a step may do to the tree, the clock and the contexts: versions and the
\* clock only grow, and a context is prepared of the present tree.
LEMMA LanesGrow ==
    ASSUME LanesInv, LanesNext
    PROVE  /\ laneTree' \in Trees /\ UpTo(laneTree, laneTree')
           /\ clock' \in Nat /\ clock <= clock'
           /\ context' = [l \in LanePorts |-> context'[l]]
           /\ \A l \in LanePorts :
                 \/ context'[l] = context[l]
                 \/ /\ context'[l] = [tree |-> laneTree, createdAt |-> clock,
                                      runId |-> clock]
                    /\ laneTree' = laneTree /\ clock' = clock + 1
<1> DEFINE Fresh == [tree |-> laneTree, createdAt |-> clock, runId |-> clock]
           Moves == laneTree' \in Trees /\ UpTo(laneTree, laneTree')
           Same == laneTree' = laneTree /\ clock' = clock /\ context' = context
           Grown == \/ Same
                    \/ laneTree' = laneTree /\ clock' = clock + 1 /\ context' = context
                    \/ \E g \in Group :
                          /\ laneTree' = [laneTree EXCEPT ![g] = @ + 1]
                          /\ clock' = clock /\ context' = context
                    \/ \E p \in Processes :
                          /\ context' = [context EXCEPT ![Of(p)] = Fresh]
                          /\ laneTree' = laneTree /\ clock' = clock + 1
<1>1. ASSUME NEW g \in Group, laneTree' = [laneTree EXCEPT ![g] = @ + 1] PROVE Moves
  BY <1>1 DEF Trees, UpTo, LanesInv
<1>2. ASSUME laneTree' = laneTree PROVE Moves
  BY <1>2 DEF Trees, UpTo, LanesInv
<1>3. Grown
  <2>1. ASSUME NEW p \in Processes, NEW t \in Targets, runTarget(p, t) PROVE Same
    BY <2>1 DEF runTarget
  <2>2. ASSUME NEW p \in Processes,
               \/ removeCompletions(p) \/ generate(p) \/ check(p) \/ adapt(p)
               \/ completes(p)
        PROVE  Same
    BY <2>2, Zenon DEF removeCompletions, generate, check, adapt, completes
  <2>3. ASSUME NEW p \in Processes, generated(p) PROVE Grown
    BY <2>3 DEF generated, Group
  <2>4. ASSUME NEW p \in Processes, prepare(p) PROVE Grown
    BY <2>4 DEF prepare
  <2>5. ASSUME NEW p \in Processes, replay(p) PROVE Grown
    BY <2>5 DEF replay
  <2>6. ASSUME NEW p \in Processes, NEW passed \in SUBSET Cases, replayed(p, passed)
        PROVE  Grown
    BY <2>6, Zenon DEF replayed
  <2>7. ASSUME NEW g \in {"spec", "impl"}, EditTree(g) PROVE Grown
    BY <2>7, Zenon DEF EditTree, Group
  <2> QED  BY <2>1, <2>2, <2>3, <2>4, <2>5, <2>6, <2>7, Zenon DEF LanesNext
<1>4. ASSUME NEW p \in Processes, context' = [context EXCEPT ![Of(p)] = Fresh],
             laneTree' = laneTree, clock' = clock + 1
      PROVE  /\ context' = [l \in LanePorts |-> context'[l]]
             /\ \A l \in LanePorts : context'[l] = context[l] \/ context'[l] = Fresh
  BY <1>4 DEF LanesInv
<1> HIDE DEF Fresh, Moves
<1>5. clock \in Nat /\ context = [l \in LanePorts |-> context[l]]
  BY DEF LanesInv
<1>6. Moves /\ clock' \in Nat /\ clock <= clock'
  BY <1>1, <1>2, <1>3, <1>5
<1>7. /\ context' = [l \in LanePorts |-> context'[l]]
      /\ \A l \in LanePorts :
            \/ context'[l] = context[l]
            \/ context'[l] = Fresh /\ laneTree' = laneTree /\ clock' = clock + 1
  BY <1>3, <1>4, <1>5
<1> QED  BY <1>6, <1>7 DEF Moves, Fresh

\* So what was read and prepared before a step still was after it.
LEMMA LanesRemember ==
    ASSUME LanesInv, LanesNext
    PROVE  /\ \A n : ReadBy(n, laneTree, clock, context)
                        => ReadBy(n, laneTree', clock', context')
           /\ \A l \in LanePorts :
                 context'[l] # NoFile => Prepared(context'[l], laneTree', clock')
<1>1. /\ laneTree \in Trees /\ clock \in Nat
      /\ \A l \in LanePorts : context[l] # NoFile => Prepared(context[l], laneTree, clock)
  BY DEF LanesInv
<1>2. /\ laneTree' \in Trees /\ UpTo(laneTree, laneTree')
      /\ clock' \in Nat /\ clock <= clock'
  BY LanesGrow
<1>3. \A l \in LanePorts : context'[l] = context[l] \/ context'[l].createdAt = clock
  BY LanesGrow
<1>4. ASSUME NEW n, ReadBy(n, laneTree, clock, context)
      PROVE  ReadBy(n, laneTree', clock', context')
  BY <1>1, <1>2, <1>3, <1>4, ReadingsStay
<1>5. ASSUME NEW l \in LanePorts, context'[l] # NoFile
      PROVE  Prepared(context'[l], laneTree', clock')
  <2>1. CASE context'[l] = context[l]
    BY <1>1, <1>2, <1>5, <2>1, ContextsStay
  <2>2. CASE /\ context'[l] = [tree |-> laneTree, createdAt |-> clock, runId |-> clock]
             /\ laneTree' = laneTree /\ clock' = clock + 1
    BY <1>1, <2>2 DEF Prepared, UpTo, Trees
  <2> QED  BY <2>1, <2>2, LanesGrow
<1> QED  BY <1>4, <1>5

\* A suite that begins now has read the present tree.
LEMMA ReadingBegins ==
    ASSUME NEW n, NEW present \in Trees, NEW now \in Nat, NEW contexts,
           \A l \in LanePorts : contexts[l] # NoFile => Prepared(contexts[l], present, now),
           n.startedAt = now, n.saw = {present}
    PROVE  ReadBy(n, present, now + 1, contexts)
<1>1. UpTo(present, present)
  BY DEF UpTo, Trees
<1>2. n.startedAt \in Nat /\ n.startedAt < now + 1
  OBVIOUS
<1>3. \A l \in LanePorts : contexts[l] # NoFile => UpTo(contexts[l].tree, present)
  BY Zenon DEF Prepared
<1> QED  BY <1>1, <1>2, <1>3, Zenon DEF ReadBy

\* A suite that goes on has read the present tree too.
LEMMA ReadingGoesOn ==
    ASSUME NEW n, NEW r, NEW present \in Trees, NEW now \in Nat, NEW contexts,
           \A l \in LanePorts : contexts[l] # NoFile => Prepared(contexts[l], present, now),
           ReadBy(r, present, now, contexts),
           n.startedAt = r.startedAt, n.saw = r.saw \cup {present}
    PROVE  ReadBy(n, present, now, contexts)
<1>1. UpTo(present, present)
  BY DEF UpTo, Trees
<1> QED  BY <1>1 DEF ReadBy, Prepared

\* A report's copy read what the report did.
LEMMA ReadingCopied ==
    ASSUME NEW n, NEW r, NEW present, NEW now, NEW contexts,
           ReadBy(r, present, now, contexts), n.startedAt = r.startedAt, n.saw = r.saw
    PROVE  ReadBy(n, present, now, contexts)
BY DEF ReadBy

\* A report that is checked against a context of the present tree read that tree
\* and no other: not an older one than the context, nor a newer one than the tree.
LEMMA CheckedIsCurrent ==
    ASSUME LanesInv, NEW l \in LanePorts, NEW r,
           ReadBy(r, laneTree, clock, context), checkCompletion(r, context[l])
    PROVE  r.saw = {laneTree} /\ r.results = Cases
<1>1. /\ context[l] # NoFile /\ context[l].tree = laneTree
      /\ r.startedAt >= context[l].createdAt /\ r.results = Cases
  BY DEF checkCompletion, validateContext
<1>2. ASSUME NEW t \in r.saw PROVE t = laneTree
  <2>1. t \in Trees /\ laneTree \in Trees
    BY DEF ReadBy, LanesInv
  <2>2. UpTo(t, laneTree) /\ UpTo(laneTree, t)
    BY <1>1, Zenon DEF ReadBy
  <2>3. \A g \in Group : t[g] = laneTree[g]
    <3> TAKE g \in Group
    <3>1. t[g] <= laneTree[g] /\ laneTree[g] <= t[g]
      BY <2>2, Zenon DEF UpTo
    <3>2. t[g] \in Nat /\ laneTree[g] \in Nat
      BY <2>1, Zenon DEF Trees
    <3> QED  BY <3>1, <3>2, Antisymmetric, Zenon
  <2> QED  BY <2>1, <2>3 DEF Trees
<1>3. r.saw # {}
  BY Zenon DEF ReadBy
<1> QED  BY <1>1, <1>2, <1>3

\* The native reports after a step: the suite's own is of what it read.
LEMMA NativeStays ==
    ASSUME LanesInv, LanesNext
    PROVE  /\ native' = [l \in LanePorts |-> native'[l]]
           /\ \A l \in LanePorts : native'[l] # NoFile
                 => ReadBy(native'[l], laneTree', clock', context')
<1>1. CASE native' = native
  BY <1>1, LanesRemember DEF LanesInv
<1>2. CASE \E p \in Processes, passed \in SUBSET Cases : replayed(p, passed)
  <2>1. PICK p \in Processes, passed \in SUBSET Cases : replayed(p, passed)
    BY <1>2
  <2> DEFINE r == process[p].replay
             n == [startedAt |-> r.startedAt, finishedAt |-> clock,
                   saw |-> r.saw \cup {laneTree}, passed |-> passed]
  <2>2. /\ ReadBy(r, laneTree, clock, context)
        /\ native' = [native EXCEPT ![Of(p)] = n]
    BY <2>1, Zenon DEF replayed, LanesInv
  <2>3. ReadBy(n, laneTree, clock, context)
    <3>1. n.startedAt = r.startedAt /\ n.saw = r.saw \cup {laneTree}
      OBVIOUS
    <3> HIDE DEF n, r
    <3> QED  BY <2>2, <3>1, ReadingGoesOn, Zenon DEF LanesInv
  <2> HIDE DEF n
  <2>4. \A l \in LanePorts : native'[l] = native[l] \/ native'[l] = n
    BY <2>2 DEF LanesInv
  <2>5. native' = [l \in LanePorts |-> native'[l]]
    BY <2>2 DEF LanesInv
  <2> QED  BY <2>3, <2>4, <2>5, LanesRemember, Zenon DEF LanesInv
<1>3. native' = native \/ \E p \in Processes, passed \in SUBSET Cases : replayed(p, passed)
  BY Zenon DEF LanesNext, runTarget, removeCompletions, generate, generated, prepare, replay,
         check, adapt, completes, EditTree
<1> QED  BY <1>1, <1>2, <1>3

\* The completions after a step: one that is written is of what the suite read.
LEMMA CompletionsStay ==
    ASSUME LanesInv, LanesNext
    PROVE  /\ completion' = [l \in LanePorts |-> completion'[l]]
           /\ \A l \in LanePorts : completion'[l] # NoFile
                 => ReadBy(completion'[l], laneTree', clock', context')
<1>1. CASE completion' = completion
  BY <1>1, LanesRemember DEF LanesInv
<1>2. CASE \E p \in Processes : removeCompletions(p)
  <2>1. PICK p \in Processes : removeCompletions(p)
    BY <1>2
  <2>2. \A l \in LanePorts : completion'[l] = completion[l] \/ completion'[l] = NoFile
    BY <2>1 DEF removeCompletions
  <2>3. completion' = [l \in LanePorts |-> completion'[l]]
    BY <2>1 DEF removeCompletions
  <2> QED  BY <2>2, <2>3, LanesRemember, Zenon DEF LanesInv
<1>3. CASE \E p \in Processes : adapt(p)
  <2>1. PICK p \in Processes : adapt(p)
    BY <1>3
  <2> DEFINE n == native[Of(p)]
             filed == [contextSha256 |-> context[Of(p)], startedAt |-> n.startedAt,
                        finishedAt |-> n.finishedAt, results |-> n.passed,
                        saw |-> n.saw]
  <2>2. \/ n # NoFile /\ completion' = [completion EXCEPT ![Of(p)] = filed]
        \/ completion' = [completion EXCEPT ![Of(p)] = NoFile]
    BY <2>1, Zenon DEF adapt
  <2>3. filed.startedAt = n.startedAt /\ filed.saw = n.saw
    BY Zenon
  <2>4. ASSUME n # NoFile, Of(p) \in LanePorts
        PROVE  ReadBy(filed, laneTree, clock, context)
    <3>1. ReadBy(n, laneTree, clock, context)
      BY <2>4 DEF LanesInv
    <3> HIDE DEF n, filed
    <3> QED  BY <2>3, <3>1, ReadingCopied
  <2> HIDE DEF filed, n
  <2>5. \A l \in LanePorts : \/ completion'[l] = completion[l] \/ completion'[l] = NoFile
                             \/ completion'[l] = filed /\ n # NoFile /\ l = Of(p)
    BY <2>2 DEF LanesInv
  <2>6. completion' = [l \in LanePorts |-> completion'[l]]
    BY <2>2 DEF LanesInv
  <2> QED  BY <2>4, <2>5, <2>6, LanesRemember, Zenon DEF LanesInv
<1>4. \/ completion' = completion
      \/ \E p \in Processes : removeCompletions(p) \/ adapt(p)
  BY DEF LanesNext, runTarget, generate, generated, prepare, replay, replayed,
         check, completes, EditTree
<1> QED  BY <1>1, <1>2, <1>3, <1>4

\* A target's expansion runs the generation and lanes of ports.
LEMMA TargetsExpand ==
    ASSUME NEW target \in Targets
    PROVE  expandTargets(target) \in Seq(LanePorts \cup {"generate"})
<1>1. LaneOrder \in Seq(LanePorts \cup {"generate"})
  BY LanesAssumption DEF LanePorts
<1>2. <<"generate">> \in Seq(LanePorts \cup {"generate"})
  OBVIOUS
<1>3. <<"generate">> \o LaneOrder \in Seq(LanePorts \cup {"generate"})
  BY <1>1, <1>2
<1>4. target # "formal" => <<target>> \in Seq(LanePorts \cup {"generate"})
  BY LanesAssumption
<1> QED  BY <1>3, <1>4, Zenon DEF expandTargets

\* The invocations after a step: each is well planned, and a suite that runs has
\* read no tree but those since it began.
LEMMA ProcessesStay ==
    ASSUME LanesInv, LanesNext
    PROVE  /\ process' = [p \in Processes |-> process'[p]]
           /\ \A p \in Processes :
                 /\ Planned(process'[p])
                 /\ process'[p].replay # NoFile =>
                       ReadBy(process'[p].replay, laneTree', clock', context')
<1> DEFINE Good(q) == /\ Planned(q)
                      /\ q.replay # NoFile => ReadBy(q.replay, laneTree', clock', context')
           Moved == \E p \in Processes : \E q :
                       process' = [process EXCEPT ![p] = q] /\ Good(q)
<1>1. ASSUME NEW p \in Processes, NEW q, Planned(q) /\ q.replay = NoFile,
             process' = [process EXCEPT ![p] = q]
      PROVE  Moved
  BY <1>1, Zenon
<1>2. Planned(Idle) /\ Idle.replay = NoFile
  BY IdleIsPlanned
<1>3. ASSUME NEW p \in Processes, NEW step, AtStep(p, step)
      PROVE  Planned(Left(p)) /\ Left(p).replay = NoFile
  BY <1>3, LeftIsPlanned, Zenon DEF AtStep, LanesInv
<1>4. ASSUME NEW p \in Processes, NEW step, AtStep(p, step),
             process' = Rest(p) \/ process' = Fails(p)
      PROVE  Moved
  BY <1>1, <1>2, <1>3, <1>4 DEF Rest, Fails
<1>5. ASSUME NEW p \in Processes, NEW t \in Targets, runTarget(p, t) PROVE Moved
  BY <1>1, <1>5, TargetsExpand, BeforeIsPlanned, Zenon DEF runTarget
<1>6. ASSUME NEW p \in Processes,
             \/ removeCompletions(p) \/ generate(p) \/ generated(p) \/ prepare(p)
             \/ check(p) \/ adapt(p) \/ completes(p)
      PROVE  Moved
  <2>1. CASE removeCompletions(p)
    BY <1>4, <2>1, Zenon DEF removeCompletions
  <2>2. CASE generate(p)
    BY <1>4, <2>2 DEF generate
  <2>3. CASE generated(p)
    BY <1>4, <2>3 DEF generated
  <2>4. CASE prepare(p)
    BY <1>4, <2>4 DEF prepare
  <2>5. CASE check(p)
    BY <1>4, <2>5, Zenon DEF check
  <2>6. CASE adapt(p)
    BY <1>4, <2>6, Zenon DEF adapt
  <2>7. CASE completes(p)
    BY <1>4, <2>7, Zenon DEF completes
  <2> QED  BY <1>6, <2>1, <2>2, <2>3, <2>4, <2>5, <2>6, <2>7
<1>7. ASSUME NEW p \in Processes, NEW passed \in SUBSET Cases, replayed(p, passed)
      PROVE  Moved
  BY <1>4, <1>7, Zenon DEF replayed
<1>8. ASSUME NEW p \in Processes, replay(p) PROVE Moved
  <2> DEFINE n == [startedAt |-> clock, saw |-> {laneTree}]
             q == [process[p] EXCEPT !.replay = n]
  <2>1. process' = [process EXCEPT ![p] = q]
    BY <1>8 DEF replay
  <2>2. n.startedAt = clock /\ n.saw = {laneTree}
    OBVIOUS
  <2> HIDE DEF n
  <2>3. ReadBy(n, laneTree', clock', context')
    BY <1>8, <2>2, ReadingBegins, Zenon DEF LanesInv, replay
  <2>4. q = [targets |-> process[p].targets, steps |-> process[p].steps, replay |-> n]
    BY DEF LanesInv, Planned
  <2>5. q.targets = process[p].targets /\ q.steps = process[p].steps /\ q.replay = n
    BY <2>4
  <2>6. Planned(process[p])
    BY DEF LanesInv
  <2> HIDE DEF q
  <2>7. Planned(q)
    BY <2>4, <2>5, <2>6, Zenon DEF Planned
  <2> QED  BY <2>1, <2>3, <2>5, <2>7, Zenon
<1>9. CASE Moved
  <2>a. PICK p \in Processes : \E q : process' = [process EXCEPT ![p] = q] /\ Good(q)
    BY <1>9, Zenon
  <2>1. PICK q : process' = [process EXCEPT ![p] = q] /\ Good(q)
    BY <2>a, Zenon
  <2>2. ASSUME NEW o \in Processes PROVE Good(process[o])
    BY LanesRemember, Zenon DEF LanesInv
  <2>3. process = [o \in Processes |-> process[o]]
    BY DEF LanesInv
  <2> HIDE DEF Good
  <2>4. /\ process' = [o \in Processes |-> process'[o]]
        /\ \A o \in Processes : process'[o] = process[o] \/ process'[o] = q
    BY <2>1, <2>3
  <2>5. \A o \in Processes : Good(process'[o])
    BY <2>1, <2>2, <2>4
  <2> QED  BY <2>4, <2>5 DEF Good
<1>10. CASE process' = process
  BY <1>10, LanesRemember DEF LanesInv
<1>11. Moved \/ process' = process
  <2> HIDE DEF Moved
  <2> QED  BY <1>5, <1>6, <1>7, <1>8 DEF LanesNext, EditTree
<1> QED  BY <1>9, <1>10, <1>11

\* A lane ends well only with a completion of the present tree.
LEMMA AcceptedStays ==
    ASSUME LanesInv, LanesNext
    PROVE  CompletionIsCurrent'
<1>1. CASE accepted' = accepted
  BY <1>1 DEF LanesInv, CompletionIsCurrent
<1>2. ASSUME NEW p \in Processes, completes(p), accepted' # accepted
      PROVE  CompletionIsCurrent'
  <2> DEFINE r == completion[Of(p)]
             a == [saw |-> r.saw, now |-> laneTree, cases |-> r.results]
  <2>1. /\ AtStep(p, "complete") /\ r # NoFile /\ checkCompletion(r, context[Of(p)])
        /\ accepted' = accepted \cup {a}
    BY <1>2, Zenon DEF completes
  <2>2. Of(p) \in LanePorts
    <3>1. Planned(process[p]) /\ process[p].steps # <<>> /\ Head(process[p].steps) = "complete"
      BY <2>1 DEF LanesInv, AtStep
    <3>2. ASSUME Head(process[p].targets) = "generate" PROVE FALSE
      <4>1. process[p].steps \in Seq(Generation)
        BY <3>1, <3>2 DEF Planned
      <4>2. Head(process[p].steps) \in Generation
        BY <3>1, <4>1
      <4> QED  BY <3>1, <4>2 DEF Generation
    <3>3. process[p].targets \in Seq(LanePorts \cup {"generate"}) /\ process[p].targets # <<>>
      BY <3>1 DEF Planned
    <3> QED  BY <3>2, <3>3 DEF Of
  <2>3. ReadBy(r, laneTree, clock, context)
    BY <2>1, <2>2 DEF LanesInv
  <2>4. r.saw = {laneTree} /\ r.results = Cases
    BY <2>1, <2>2, <2>3, CheckedIsCurrent, Zenon
  <2>5. a.saw = {a.now} /\ a.cases = Cases
    BY <2>4, Zenon
  <2> QED  BY <2>1, <2>5, Zenon DEF LanesInv, CompletionIsCurrent
<1>3. accepted' = accepted \/ \E p \in Processes : completes(p)
  BY Zenon DEF LanesNext, runTarget, removeCompletions, generate, generated, prepare, replay,
         replayed, check, adapt, EditTree
<1> QED  BY <1>1, <1>2, <1>3

\* The lanes keep their invariant, whatever targets, edits and processes do.
THEOREM LanesInvariant == LanesSpec => []LanesInv
<1>1. LanesInit => LanesInv
  <2> SUFFICES ASSUME LanesInit PROVE LanesInv
    OBVIOUS
  <2>1. laneTree \in Trees /\ clock \in Nat
    BY DEF LanesInit, Trees
  <2>2. \A l \in LanePorts : /\ context[l] = NoFile /\ native[l] = NoFile
                             /\ completion[l] = NoFile
    BY DEF LanesInit
  <2>3. /\ context = [l \in LanePorts |-> context[l]]
        /\ native = [l \in LanePorts |-> native[l]]
        /\ completion = [l \in LanePorts |-> completion[l]]
        /\ process = [p \in Processes |-> process[p]]
    BY DEF LanesInit
  <2>4. \A p \in Processes : process[p] = Idle
    BY DEF LanesInit
  <2>5. CompletionIsCurrent
    BY DEF LanesInit, CompletionIsCurrent
  <2> QED  BY <2>1, <2>2, <2>3, <2>4, <2>5, IdleIsPlanned DEF LanesInv
<1>2. LanesInv /\ [LanesNext]_lanesVars => LanesInv'
  <2>1. ASSUME LanesInv, LanesNext PROVE LanesInv'
    <3>1. /\ laneTree' \in Trees /\ clock' \in Nat
          /\ context' = [l \in LanePorts |-> context'[l]]
      BY <2>1, LanesGrow
    <3> QED  BY <2>1, <3>1, LanesRemember, NativeStays, CompletionsStay, ProcessesStay,
                AcceptedStays, Zenon DEF LanesInv
  <2>2. ASSUME LanesInv, UNCHANGED lanesVars PROVE LanesInv'
    BY <2>2 DEF LanesInv, lanesVars, CompletionIsCurrent
  <2> QED  BY <2>1, <2>2
<1> QED  BY <1>1, <1>2, PTL DEF LanesSpec

\* CompletionIsCurrent for every number of ports, invocations, targets and edits
\* (checkCompletion): a lane that ends well vouches for the tree as it then is.
THEOREM CompletionsStayCurrent == LanesSpec => []CompletionIsCurrent
<1>1. LanesInv => CompletionIsCurrent
  BY DEF LanesInv
<1> QED  BY <1>1, LanesInvariant, PTL

-----------------------------------------------------------------------------
(* Exploration *)

PlannedPorts == {Ports[k] : k \in DOMAIN Ports}
Statuses == {"running", "infrastructure-failure", "native-failure",
             "witness-check-failure", "coverage-gate-failure", "passed"}
Results == [port : PlannedPorts,
            status : {"passed", "native-failure", "witness-check-failure",
                      "infrastructure-failure"}]
Report == [status : Statuses, sources : Nat \cup {Null}, native : Seq(Results),
           witnesses : Evaluations, linked : BOOLEAN, finished : BOOLEAN]

\* A port's entry is what its command showed.
Shown(e, c) ==
    /\ c \in Commands /\ c.complete
    /\ e.status = nativeExplorationResult(c) /\ e.status # "infrastructure-failure"
    /\ e.status = "passed" => c.exit = 0

\* The ports that have run are the first of the plan, each with its entry.
Recorded ==
    /\ Len(report.native) <= Len(Ports)
    /\ DOMAIN ran = {Ports[k] : k \in 1..Len(report.native)}
    /\ \A k \in 1..Len(report.native) : Shown(report.native[k], ran[Ports[k]])

\* A status other than running, of what the ports did.
Earned ==
    /\ report.status # "running"
    /\ report.status = "passed" =>
          /\ Sound
          /\ \A p \in DOMAIN ran : ran[p].complete /\ ran[p].failed = {} /\ ran[p].exit = 0
          /\ ~witnessReportProblem(report.witnesses) /\ ~report.witnesses.shortfall
    /\ report.status = "native-failure" =>
          Sound /\ \E p \in DOMAIN ran : "case" \in ran[p].failed
    /\ report.status \in {"witness-check-failure", "coverage-gate-failure"} =>
          Sound /\ \A p \in DOMAIN ran : "case" \notin ran[p].failed

Early == {"snapshot", "link", "generate", "witnesses"}

\* The inductive invariant of an exploration.
ExplorationInv ==
    /\ phase \in Early \cup {"native", "finally", "done"}
    /\ report \in Report /\ edits \in Nat /\ workspace \in Nat \cup {Null}
    /\ phase # "done" => ~report.finished
    /\ phase \in Early \cup {"native"} => report.status = "running"
    /\ phase \in {"link", "generate", "witnesses", "native"} =>
          report.sources \in Nat /\ (origin # Null => origin = report.sources)
    /\ phase \in Early => report.native = <<>> /\ ran = NoPorts
    /\ phase = "native" => Recorded
    /\ phase \in {"finally", "done"} => Earned

\* A run that throws is an infrastructure failure, which claims nothing.
LEMMA CaughtIsEarned ==
    ASSUME NEW r \in Report, r.status = "running", ~r.finished,
           report' = Catch(r)
    PROVE  report' \in Report /\ Earned' /\ ~report'.finished
<1>1. Catch(r) = [r EXCEPT !.status = "infrastructure-failure"]
  BY DEF Catch
<1>2. /\ report' \in Report /\ report'.status = "infrastructure-failure"
      /\ ~report'.finished
  BY <1>1 DEF Report, Statuses
<1> QED  BY <1>2 DEF Earned

\* A step that throws leaves a failure of the infrastructure, which claims nothing.
LEMMA ThrowIsEarned ==
    ASSUME ExplorationInv, phase \in Early \cup {"native"}, Throw
    PROVE  ExplorationInv'
<1>1. report' \in Report /\ Earned' /\ ~report'.finished
  BY CaughtIsEarned, Zenon DEF ExplorationInv, Early, Throw
<1> QED  BY <1>1, Zenon DEF ExplorationInv, Early, Throw

\* The phases before the ports run.
LEMMA EarlySteps ==
    ASSUME ExplorationInv,
           \/ snapshotSources \/ linkDependencies \/ explorationPlan
           \/ \E w \in Evaluations : tolerated(w)
    PROVE  ExplorationInv'
<1>1. ASSUME snapshotSources PROVE ExplorationInv'
  <2>1. CASE Throw
    BY <1>1, <2>1, ThrowIsEarned DEF snapshotSources, Early
  <2>2. CASE /\ phase = "snapshot" /\ phase' = "link" /\ workspace' = edits
             /\ report' = [report EXCEPT !.sources = edits]
             /\ origin # Null => origin = edits
             /\ UNCHANGED <<origin, seedContext, edits, replays, ran, judged>>
    <3>1. /\ report' \in Report /\ report'.sources = edits /\ ~report'.finished
          /\ report'.status = "running" /\ report'.native = <<>> /\ edits \in Nat
      BY <2>2 DEF ExplorationInv, Report, Early
    <3> QED  BY <2>2, <3>1 DEF ExplorationInv, Early
  <2> QED  BY <1>1, <2>1, <2>2 DEF snapshotSources
<1>2. ASSUME linkDependencies PROVE ExplorationInv'
  <2>1. CASE Throw
    BY <1>2, <2>1, ThrowIsEarned DEF linkDependencies, Early
  <2>2. CASE /\ phase = "link" /\ phase' = "generate"
             /\ report' = [report EXCEPT !.linked = TRUE]
             /\ UNCHANGED <<workspace, origin, seedContext, edits, replays, ran, judged>>
    <3>1. /\ report' \in Report /\ report'.sources = report.sources /\ ~report'.finished
          /\ report'.status = "running" /\ report'.native = <<>>
      BY <2>2, Zenon DEF ExplorationInv, Report, Early
    <3> QED  BY <2>2, <3>1 DEF ExplorationInv, Early
  <2> QED  BY <1>2, <2>1, <2>2 DEF linkDependencies
<1>3. ASSUME explorationPlan PROVE ExplorationInv'
  <2>1. CASE Throw
    BY <1>3, <2>1, ThrowIsEarned DEF explorationPlan, Early
  <2> QED  BY <1>3, <2>1, Zenon DEF explorationPlan, ExplorationInv, Early
<1>4. ASSUME NEW w \in Evaluations, tolerated(w) PROVE ExplorationInv'
  <2>1. /\ report' \in Report /\ report'.sources = report.sources /\ ~report'.finished
        /\ report'.status = "running" /\ report'.native = <<>>
    BY <1>4 DEF ExplorationInv, Report, Early, tolerated
  <2>2. Len(report'.native) = 0 /\ ran' = NoPorts
    BY <1>4, <2>1 DEF ExplorationInv, Early, tolerated
  <2>3. Recorded'
    <3>1. DOMAIN ran' = {}
      BY <2>2 DEF NoPorts
    <3>2. 1..Len(report'.native) = {} /\ Len(report'.native) <= Len(Ports)
      BY <2>2, ExplorationAssumption
    <3> QED  BY <3>1, <3>2 DEF Recorded
  <2> QED  BY <1>4, <2>1, <2>3 DEF ExplorationInv, Early, tolerated
<1> QED  BY <1>1, <1>2, <1>3, <1>4

\* A port's command: its record joins those of the ports before it.
LEMMA NativeStep ==
    ASSUME ExplorationInv, NEW c \in Commands, runExplorationSteps(c)
    PROVE  ExplorationInv'
<1> DEFINE status == nativeExplorationResult(c)
           n == Len(report.native)
           kept == [report EXCEPT !.native = Append(@, [port |-> Port, status |-> status])]
<1>1. /\ phase = "native" /\ n < Len(Ports)
      /\ ran' = [p \in DOMAIN ran \cup {Port} |-> IF p = Port THEN c ELSE ran[p]]
      /\ UNCHANGED <<workspace, origin, seedContext, edits, replays, judged>>
  BY DEF runExplorationSteps
<1>2. /\ report \in Report /\ report.status = "running" /\ ~report.finished
      /\ edits \in Nat /\ workspace \in Nat \cup {Null}
      /\ report.sources \in Nat /\ (origin # Null => origin = report.sources)
      /\ Recorded /\ report.native \in Seq(Results) /\ n \in Nat
  <2>1. /\ report \in Report /\ report.status = "running" /\ ~report.finished
        /\ edits \in Nat /\ workspace \in Nat \cup {Null}
        /\ report.sources \in Nat /\ (origin # Null => origin = report.sources)
        /\ Recorded
    BY <1>1, Zenon DEF ExplorationInv
  <2>2. report.native \in Seq(Results)
    BY <2>1, Zenon DEF Report
  <2> QED  BY <2>1, <2>2
<1>3. Port = Ports[n + 1] /\ Port \in PlannedPorts /\ n + 1 \in DOMAIN Ports
  <2>1. Port = Ports[n + 1]
    BY Zenon DEF Port
  <2> HIDE DEF n
  <2>2. n + 1 \in DOMAIN Ports
    BY <1>1, <1>2, ExplorationAssumption
  <2> QED  BY <2>1, <2>2, Zenon DEF PlannedPorts
<1>4. status \in {"passed", "native-failure", "witness-check-failure",
                  "infrastructure-failure"}
  BY DEF nativeExplorationResult
<1>5. [port |-> Port, status |-> status] \in Results
  BY <1>3, <1>4 DEF Results
<1> HIDE DEF status
<1>6. /\ kept \in Report /\ kept.status = "running" /\ ~kept.finished
      /\ kept.sources = report.sources
      /\ kept.native = Append(report.native, [port |-> Port, status |-> status])
  <2>1. Append(report.native, [port |-> Port, status |-> status]) \in Seq(Results)
    BY <1>2, <1>5
  <2> QED  BY <1>2, <2>1, Zenon DEF Report
<1>7. CASE phase' = "finally" /\ (report' = Catch(report) \/ report' = Catch(kept))
  <2>1. report' \in Report /\ Earned' /\ ~report'.finished
    BY <1>2, <1>6, <1>7, CaughtIsEarned, Zenon
  <2> QED  BY <1>1, <1>2, <1>7, <2>1 DEF ExplorationInv, Early
<1>8. CASE /\ report' = kept /\ phase' = phase /\ c.complete
           /\ (c.exit # 0) = (status # "passed") /\ status # "infrastructure-failure"
  <2> HIDE DEF n, kept
  <2>1. /\ Len(report'.native) = n + 1
        /\ report'.native[n + 1] = [port |-> Port, status |-> status]
        /\ \A k \in 1..n : report'.native[k] = report.native[k]
    <3> DEFINE e == [port |-> Port, status |-> status]
    <3>1. report'.native = Append(report.native, e) /\ e \in Results
      BY <1>5, <1>6, <1>8, Zenon
    <3> HIDE DEF e
    <3>2. /\ Len(report'.native) = n + 1 /\ report'.native[n + 1] = e
          /\ \A k \in 1..n : report'.native[k] = report.native[k]
      BY <1>2, <3>1 DEF n
    <3> QED  BY <3>2, Zenon DEF e
  <2>2. DOMAIN ran' = {Ports[k] : k \in 1..(n + 1)}
    <3>1. DOMAIN ran = {Ports[k] : k \in 1..n}
      BY <1>2 DEF Recorded, n
    <3>2. DOMAIN ran' = DOMAIN ran \cup {Ports[n + 1]}
      BY <1>1, <1>3, Zenon
    <3> QED  BY <1>2, <3>1, <3>2
  <2>3. ASSUME NEW k \in 1..n
        PROVE  Ports[k] \in DOMAIN ran /\ ran'[Ports[k]] = ran[Ports[k]]
    <3>1. k \in DOMAIN Ports /\ k # n + 1
      BY <1>1, <1>2, ExplorationAssumption
    <3>2. Ports[k] # Port
      BY <1>3, <3>1, ExplorationAssumption
    <3>3. Ports[k] \in DOMAIN ran
      BY <1>2 DEF Recorded, n
    <3> QED  BY <1>1, <3>2, <3>3, Zenon
  <2>4. ran'[Ports[n + 1]] = c
    BY <1>1, <1>3
  <2>5. Recorded'
    <3>1. ASSUME NEW k \in 1..(n + 1)
          PROVE  Shown(report'.native[k], ran'[Ports[k]])
      <4>1. CASE k = n + 1
        <5>1. report'.native[k].status = status
          BY <2>1, <4>1
        <5> QED  BY <1>8, <2>4, <4>1, <5>1, Zenon DEF status, Shown, Commands
      <4>2. CASE k # n + 1
        <5>1. k \in 1..n
          BY <1>2, <4>2
        <5> QED  BY <1>2, <2>1, <2>3, <5>1, Zenon DEF Recorded, n
      <4> QED  BY <4>1, <4>2
    <3>2. Len(report'.native) = n + 1 /\ n + 1 <= Len(Ports)
      <4>1. n + 1 \in Nat /\ Len(Ports) \in Nat /\ n < Len(Ports)
        BY <1>1, <1>2, ExplorationAssumption
      <4> QED  BY <1>2, <2>1, <4>1
    <3> QED  BY <2>2, <3>1, <3>2, Zenon DEF Recorded
  <2> QED  BY <1>1, <1>2, <1>6, <1>8, <2>5, Zenon DEF ExplorationInv, Early
<1> QED
  <2>1. \/ phase' = "finally" /\ (report' = Catch(report) \/ report' = Catch(kept))
        \/ /\ report' = kept /\ phase' = phase /\ c.complete
           /\ (c.exit # 0) = (status # "passed") /\ status # "infrastructure-failure"
    BY DEF runExplorationSteps, status
  <2> QED  BY <1>7, <1>8, <2>1

\* Once every port has run, the verdict is of what they recorded.
LEMMA VerdictStep ==
    ASSUME ExplorationInv, executeExploration
    PROVE  ExplorationInv'
<1> DEFINE w == report.witnesses
           Failed(s) == \E k \in DOMAIN report.native : report.native[k].status = s
           verdict == IF nativeStatus # Null THEN nativeStatus
                      ELSE IF witnessReportProblem(w) THEN "infrastructure-failure"
                      ELSE IF w.shortfall THEN "coverage-gate-failure" ELSE "passed"
<1>1. /\ phase = "native" /\ phase' = "finally" /\ Len(report.native) = Len(Ports)
      /\ judged' = workspace
      /\ UNCHANGED <<workspace, origin, seedContext, edits, replays, ran>>
  BY DEF executeExploration
<1>2. /\ report \in Report /\ report.status = "running" /\ ~report.finished
      /\ edits \in Nat /\ workspace \in Nat \cup {Null}
      /\ report.sources \in Nat /\ (origin # Null => origin = report.sources)
      /\ Recorded /\ report.native \in Seq(Results)
  BY <1>1, Zenon DEF ExplorationInv, Early, Report
<1>3. CASE report' = Catch(report)
  <2>1. report' \in Report /\ Earned' /\ ~report'.finished
    BY <1>2, <1>3, CaughtIsEarned
  <2> QED  BY <1>1, <1>2, <2>1, Zenon DEF ExplorationInv, Early
<1>4. CASE workspace = report.sources /\ report' = [report EXCEPT !.status = verdict]
  <2>1. nativeStatus = IF Failed("native-failure") THEN "native-failure"
                       ELSE IF Failed("witness-check-failure") THEN "witness-check-failure"
                       ELSE Null
    BY DEF nativeStatus
  <2>2. Null # "native-failure" /\ Null # "witness-check-failure"
    BY ExplorationAssumption
  <2> HIDE DEF Failed
  <2>3. /\ verdict \in Statuses \ {"running"}
        /\ verdict = "native-failure" => Failed("native-failure")
        /\ verdict # "infrastructure-failure" /\ verdict # "native-failure"
              => ~Failed("native-failure")
        /\ verdict = "passed" => /\ ~Failed("witness-check-failure")
                                 /\ ~witnessReportProblem(w) /\ ~w.shortfall
    BY <2>1, <2>2 DEF Statuses
  <2> HIDE DEF verdict
  <2>4. /\ report' \in Report /\ report'.status = verdict /\ ~report'.finished
        /\ report'.witnesses = w /\ report'.sources = report.sources
        /\ report'.native = report.native
    BY <1>2, <1>4, <2>3 DEF Report
  <2>5. DOMAIN report.native = 1..Len(Ports) /\ DOMAIN Ports = 1..Len(Ports)
    BY <1>1, <1>2, ExplorationAssumption
  <2>6. DOMAIN ran = {Ports[k] : k \in DOMAIN Ports}
    BY <1>1, <1>2, <2>5 DEF Recorded
  <2>7. Sound'
    BY <1>1, <1>2, <1>4, <2>4, <2>6, ExplorationAssumption DEF Sound
  <2>8. ASSUME NEW p \in DOMAIN ran
        PROVE  \E k \in DOMAIN report.native : Shown(report.native[k], ran[p])
    BY <1>1, <1>2, <2>5, <2>6 DEF Recorded
  <2>9. ASSUME NEW p \in DOMAIN ran, ~Failed("native-failure")
        PROVE  "case" \notin ran[p].failed
    <3>1. PICK k \in DOMAIN report.native : Shown(report.native[k], ran[p])
      BY <2>8
    <3>2. report.native[k].status # "native-failure"
      BY <2>9 DEF Failed
    <3> QED  BY <3>1, <3>2 DEF Shown, nativeExplorationResult
  <2>10. ASSUME NEW p \in DOMAIN ran, ~Failed("native-failure"),
                ~Failed("witness-check-failure")
         PROVE  ran[p].complete /\ ran[p].failed = {} /\ ran[p].exit = 0
    <3>1. PICK k \in DOMAIN report.native : Shown(report.native[k], ran[p])
      BY <2>8
    <3>2. /\ report.native[k].status # "native-failure"
          /\ report.native[k].status # "witness-check-failure"
      BY <2>10 DEF Failed
    <3>3. ran[p].failed \subseteq {"case", "witness", "other"}
      BY <3>1 DEF Shown, Commands
    <3>4. nativeExplorationResult(ran[p]) = "passed"
      BY <3>1, <3>2 DEF Shown, nativeExplorationResult
    <3>5. ran[p].failed = {}
      BY <3>3, <3>4 DEF nativeExplorationResult
    <3> QED  BY <3>1, <3>4, <3>5 DEF Shown
  <2>11. ASSUME Failed("native-failure")
         PROVE  \E p \in DOMAIN ran : "case" \in ran[p].failed
    <3>1. PICK k \in DOMAIN report.native : report.native[k].status = "native-failure"
      BY <2>11 DEF Failed
    <3>2. Ports[k] \in DOMAIN ran
      BY <2>5, <2>6
    <3>3. nativeExplorationResult(ran[Ports[k]]) = "native-failure"
      BY <1>1, <1>2, <2>5, <3>1, Zenon DEF Recorded, Shown
    <3>4. "case" \in ran[Ports[k]].failed
      BY <3>3 DEF nativeExplorationResult
    <3> QED  BY <3>2, <3>4
  <2>12. Earned'
    <3>1. ran' = ran /\ report'.status # "running"
      BY <1>1, <2>3, <2>4, Zenon
    <3>2. report'.status = "passed" =>
             /\ \A p \in DOMAIN ran' : /\ ran'[p].complete /\ ran'[p].failed = {}
                                       /\ ran'[p].exit = 0
             /\ ~witnessReportProblem(report'.witnesses) /\ ~report'.witnesses.shortfall
      BY <2>3, <2>4, <2>10, <3>1, Zenon
    <3>3. report'.status = "native-failure" => \E p \in DOMAIN ran' : "case" \in ran'[p].failed
      BY <2>3, <2>4, <2>11, <3>1
    <3>4. report'.status \in {"witness-check-failure", "coverage-gate-failure"} =>
             \A p \in DOMAIN ran' : "case" \notin ran'[p].failed
      BY <2>3, <2>4, <2>9, <3>1
    <3> QED  BY <2>7, <3>1, <3>2, <3>3, <3>4, Zenon DEF Earned, witnessReportProblem
  <2> QED  BY <1>1, <1>2, <2>4, <2>12, Zenon DEF ExplorationInv, Early
<1> QED
  <2>1. \/ report' = Catch(report)
        \/ workspace = report.sources /\ report' = [report EXCEPT !.status = verdict]
    BY DEF executeExploration, verifyHashes
  <2> QED  BY <1>3, <1>4, <2>1

\* Removing the links keeps the verdict or withdraws it.
LEMMA FinallyStep ==
    ASSUME ExplorationInv, finally
    PROVE  ExplorationInv'
<1>1. /\ phase = "finally" /\ phase' = "done"
      /\ UNCHANGED <<workspace, origin, seedContext, edits, replays, ran, judged>>
  BY DEF finally
<1>2. report \in Report /\ Earned /\ edits \in Nat /\ workspace \in Nat \cup {Null}
  BY <1>1 DEF ExplorationInv, Early
<1>3. PICK unlinked \in BOOLEAN :
         report' = [report EXCEPT !.finished = TRUE,
                       !.status = IF unlinked THEN @ ELSE "infrastructure-failure"]
  BY Zenon DEF finally
<1>4. /\ report' \in Report /\ report'.sources = report.sources
      /\ report'.witnesses = report.witnesses
      /\ report'.status \in {report.status, "infrastructure-failure"}
  BY <1>2, <1>3, Zenon DEF Report, Statuses
<1>5. Sound => Sound'
  BY <1>1, <1>4 DEF Sound
<1>6. Earned'
  BY <1>1, <1>2, <1>4, <1>5, Zenon DEF Earned, witnessReportProblem
<1> QED  BY <1>1, <1>2, <1>4, <1>6, Zenon DEF ExplorationInv, Early

\* An exploration keeps its invariant, whatever its commands, its evaluator, edits
\* and replays of its report do.
THEOREM ExplorationInvariant == ExplorationSpec => []ExplorationInv
<1>1. ExplorationInit => ExplorationInv
  <2> SUFFICES ASSUME ExplorationInit PROVE ExplorationInv
    OBVIOUS
  <2>1. NewReport \in Report
    <3>1. <<>> \in Seq(Results)
      OBVIOUS
    <3>2. Null \in Evaluations
      BY Zenon DEF Evaluations
    <3> QED  BY <3>1, <3>2, Zenon DEF NewReport, Report, Statuses
  <2> QED  BY <2>1 DEF ExplorationInit, ExplorationInv, NewReport, Early
<1>2. ExplorationInv /\ [ExplorationNext]_explorationVars => ExplorationInv'
  <2> SUFFICES ASSUME ExplorationInv, [ExplorationNext]_explorationVars
               PROVE  ExplorationInv'
    OBVIOUS
  <2>1. CASE \/ snapshotSources \/ linkDependencies \/ explorationPlan
             \/ \E w \in Evaluations : tolerated(w)
    BY <2>1, EarlySteps
  <2>2. CASE prepareExplorationContext
    BY <2>2, Zenon DEF prepareExplorationContext, ExplorationInv, Early, Recorded, Earned, Sound
  <2>3. CASE \E c \in Commands : runExplorationSteps(c)
    BY <2>3, NativeStep
  <2>4. CASE executeExploration
    BY <2>4, VerdictStep
  <2>5. CASE finally
    BY <2>5, FinallyStep
  <2>6. CASE savedExploration
    <3>1. NewReport \in Report
      BY DEF NewReport, Report, Statuses, Evaluations
    <3> QED  BY <2>6, <3>1, Zenon DEF savedExploration, ExplorationInv, NewReport, Early
  <2>7. CASE EditSource
    <3>1. /\ UNCHANGED <<phase, report, origin, ran, judged>>
          /\ edits' \in Nat /\ workspace' \in Nat \cup {Null}
      BY <2>7 DEF EditSource, ExplorationInv
    <3>2. (Recorded => Recorded') /\ (Earned => Earned')
      BY <3>1, Zenon DEF Recorded, Earned, Sound, witnessReportProblem
    <3> QED  BY <3>1, <3>2, Zenon DEF ExplorationInv
  <2>8. CASE UNCHANGED explorationVars
    <3>1. UNCHANGED <<phase, report, origin, ran, judged, edits, workspace>>
      BY <2>8 DEF explorationVars
    <3>2. (Recorded => Recorded') /\ (Earned => Earned')
      BY <3>1, Zenon DEF Recorded, Earned, Sound, witnessReportProblem
    <3> QED  BY <3>1, <3>2 DEF ExplorationInv
  <2> QED  BY <2>1, <2>2, <2>3, <2>4, <2>5, <2>6, <2>7, <2>8 DEF ExplorationNext
<1> QED  BY <1>1, <1>2, PTL DEF ExplorationSpec

\* VerdictIsEarned for every plan, seed and number of edits and replays
\* (executeExploration): a finished report says of the ports what they did.
THEOREM VerdictsStayEarned == ExplorationSpec => []VerdictIsEarned
<1>1. ExplorationInv => VerdictIsEarned
  BY Zenon DEF ExplorationInv, Early, Earned, VerdictIsEarned
<1> QED  BY <1>1, ExplorationInvariant, PTL
=============================================================================
