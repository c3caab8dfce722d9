---------------------------- MODULE ExchangeProofs ----------------------------
(***************************************************************************)
(* What the exchange of snapshots never claims, for every set of devices   *)
(* and every bound: that a change is shared which a device that has        *)
(* imported everything does not have (SyncedIsShared).                     *)
(*                                                                         *)
(* It rests on two facts.  What a device has recorded as imported, it has  *)
(* (Recorded): the list of names is read and written back in two steps,    *)
(* so a cycle may forget what another one recorded, but never adds what    *)
(* was not merged.  And what was written whole stays (HeldIn), although    *)
(* each device prunes by a list that may be old (AboveIn).                 *)
(***************************************************************************)
EXTENDS Exchange, FiniteSetTheorems, TLAPS

Files == [no : Nat \ {0}, by : Devices, whole : BOOLEAN, holds : [Devices -> Nat]]

\* The first v changes of d are in a whole snapshot of S, or as many snapshots
\* that should hold them as d keeps are cut short or under way.
CutIn(S, d, v) == {s.no : s \in {t \in S : t.by = d /\ ~t.whole /\ v <= t.holds[d]}}
HeldIn(S, d, v) ==
    \/ v = 0
    \/ \E s \in S : s.by = d /\ s.whole /\ v <= s.holds[d]
    \/ Cardinality(CutIn(S, d, v)) >= Keep

\* What a cycle of d relies on when it prunes the snapshot n.
CutAbove(S, d, n) == {s.no : s \in {t \in S : t.by = d /\ ~t.whole /\ n < t.no}}
AboveIn(S, d, n) ==
    \/ \E s \in S : s.by = d /\ s.whole /\ n < s.no
    \/ Cardinality(CutAbove(S, d, n)) >= Keep

\* Snapshots are numbered in the order in which they were begun.
Sorted(S, w) ==
    /\ S \subseteq Files /\ w \in Nat
    /\ \A s \in S : s.no <= w
    /\ \A s, t \in S : s.no = t.no => s = t
    /\ \A s, t \in S : s.by = t.by /\ s.no < t.no => s.holds[s.by] <= t.holds[s.by]

-----------------------------------------------------------------------------
(* Snapshots that are begun, finished and pruned *)

LEMMA Counted ==
    ASSUME NEW S, NEW w, Sorted(S, w), NEW d \in Devices, NEW v \in Nat, NEW A, A \subseteq CutIn(S, d, v),
           Cardinality(A) >= Keep
    PROVE  Cardinality(CutIn(S, d, v)) >= Keep
<1>1. CutIn(S, d, v) \subseteq 1..w
  BY DEF CutIn, Sorted, Files
<1>2. IsFiniteSet(1..w)
  BY FS_Interval DEF Sorted
<1>3. IsFiniteSet(CutIn(S, d, v))
  BY <1>1, <1>2, FS_Subset
<1>4. IsFiniteSet(A) /\ Cardinality(A) <= Cardinality(CutIn(S, d, v))
  BY <1>3, FS_Subset
<1>5. Cardinality(A) \in Nat /\ Cardinality(CutIn(S, d, v)) \in Nat
  BY <1>3, <1>4, FS_CardinalityType
<1> QED BY <1>4, <1>5, ExchangeAssumption

LEMMA CountedAbove ==
    ASSUME NEW S, NEW w, Sorted(S, w), NEW d \in Devices, NEW n \in Nat, NEW A,
           A \subseteq CutAbove(S, d, n), Cardinality(A) >= Keep
    PROVE  Cardinality(CutAbove(S, d, n)) >= Keep
<1>1. CutAbove(S, d, n) \subseteq 1..w
  BY DEF CutAbove, Sorted, Files
<1>2. IsFiniteSet(1..w)
  BY FS_Interval DEF Sorted
<1>3. IsFiniteSet(CutAbove(S, d, n))
  BY <1>1, <1>2, FS_Subset
<1>4. IsFiniteSet(A) /\ Cardinality(A) <= Cardinality(CutAbove(S, d, n))
  BY <1>3, FS_Subset
<1>5. Cardinality(A) \in Nat /\ Cardinality(CutAbove(S, d, n)) \in Nat
  BY <1>3, <1>4, FS_CardinalityType
<1> QED BY <1>4, <1>5, ExchangeAssumption

\* A snapshot that is begun takes nothing away.
LEMMA StartKeeps ==
    ASSUME NEW S, NEW w, NEW new, Sorted(S \cup {new}, w), ~new.whole,
           NEW d \in Devices, NEW v \in Nat
    PROVE  /\ HeldIn(S, d, v) => HeldIn(S \cup {new}, d, v)
           /\ AboveIn(S, d, v) => AboveIn(S \cup {new}, d, v)
<1>1. CutIn(S, d, v) \subseteq CutIn(S \cup {new}, d, v)
  BY DEF CutIn
<1>2. CutAbove(S, d, v) \subseteq CutAbove(S \cup {new}, d, v)
  BY DEF CutAbove
<1>3. HeldIn(S, d, v) => HeldIn(S \cup {new}, d, v)
  BY <1>1, Counted DEF HeldIn
<1>4. AboveIn(S, d, v) => AboveIn(S \cup {new}, d, v)
  BY <1>2, CountedAbove DEF AboveIn
<1> QED BY <1>3, <1>4

\* A snapshot that is finished either was not counted, or is there now.
Finished(S, m) == {IF s.no = m THEN [s EXCEPT !.whole = TRUE] ELSE s : s \in S}

LEMMA FinishedFiles ==
    ASSUME NEW S, NEW w, Sorted(S, w), NEW m
    PROVE  /\ Sorted(Finished(S, m), w)
           /\ \A s \in S : \E t \in Finished(S, m) :
                 /\ t.no = s.no /\ t.by = s.by /\ t.holds = s.holds
                 /\ (s.whole \/ s.no = m) => t.whole
                 /\ s.no # m => t = s
           /\ \A t \in Finished(S, m) : \E s \in S :
                 /\ t.no = s.no /\ t.by = s.by /\ t.holds = s.holds
                 /\ s.no = m => t.whole
                 /\ s.no # m => t = s
<1>1. \A s \in S : LET t == IF s.no = m THEN [s EXCEPT !.whole = TRUE] ELSE s IN
                   /\ t \in Files
                   /\ t.no = s.no /\ t.by = s.by /\ t.holds = s.holds
                   /\ (s.whole \/ s.no = m) => t.whole
                   /\ s.no # m => t = s
  BY DEF Sorted, Files
<1>2. \A s \in S : \E t \in Finished(S, m) :
         /\ t.no = s.no /\ t.by = s.by /\ t.holds = s.holds
         /\ (s.whole \/ s.no = m) => t.whole
         /\ s.no # m => t = s
  BY <1>1 DEF Finished
<1>3. \A t \in Finished(S, m) : \E s \in S :
         /\ t \in Files /\ t = IF s.no = m THEN [s EXCEPT !.whole = TRUE] ELSE s
         /\ t.no = s.no /\ t.by = s.by /\ t.holds = s.holds
         /\ s.no = m => t.whole
         /\ s.no # m => t = s
  BY <1>1 DEF Finished
<1>4. Sorted(Finished(S, m), w)
  <2>1. Finished(S, m) \subseteq Files /\ \A t \in Finished(S, m) : t.no <= w
    BY <1>3 DEF Sorted
  <2>2. ASSUME NEW t \in Finished(S, m), NEW u \in Finished(S, m), t.no = u.no PROVE t = u
    <3>1. PICK s \in S : s.no = t.no /\ t = IF s.no = m THEN [s EXCEPT !.whole = TRUE] ELSE s
      BY <1>3
    <3>2. PICK r \in S : r.no = u.no /\ u = IF r.no = m THEN [r EXCEPT !.whole = TRUE] ELSE r
      BY <1>3
    <3>3. s = r
      BY <2>2, <3>1, <3>2 DEF Sorted
    <3> QED BY <3>1, <3>2, <3>3
  <2>3. ASSUME NEW t \in Finished(S, m), NEW u \in Finished(S, m), t.by = u.by, t.no < u.no
        PROVE  t.holds[t.by] <= u.holds[t.by]
    BY <1>3, <2>3 DEF Sorted
  <2> QED BY <2>1, <2>2, <2>3 DEF Sorted
<1> QED BY <1>2, <1>3, <1>4

LEMMA FinishKeeps ==
    ASSUME NEW S, NEW w, Sorted(S, w), NEW m, NEW d \in Devices, NEW v \in Nat
    PROVE  /\ HeldIn(S, d, v) => HeldIn(Finished(S, m), d, v)
           /\ AboveIn(S, d, v) => AboveIn(Finished(S, m), d, v)
<1> DEFINE T == Finished(S, m)
<1>1. \A s \in S : \E t \in T : /\ t.no = s.no /\ t.by = s.by /\ t.holds = s.holds
                                /\ (s.whole \/ s.no = m) => t.whole
                                /\ s.no # m => t = s
  BY FinishedFiles
<1>2. Sorted(T, w)
  BY FinishedFiles
<1> HIDE DEF T
<1>3. ASSUME HeldIn(S, d, v) PROVE HeldIn(T, d, v)
  <2>1. CASE \E s \in S : s.by = d /\ v <= s.holds[d] /\ (s.whole \/ s.no = m)
    BY <1>1, <2>1 DEF HeldIn
  <2>2. CASE ~\E s \in S : s.by = d /\ v <= s.holds[d] /\ (s.whole \/ s.no = m)
    <3>1. CutIn(S, d, v) \subseteq CutIn(T, d, v)
      BY <1>1, <2>2 DEF CutIn
    <3> QED BY <1>2, <1>3, <2>2, <3>1, Counted DEF HeldIn
  <2> QED BY <2>1, <2>2
<1>4. ASSUME AboveIn(S, d, v) PROVE AboveIn(T, d, v)
  <2>1. CASE \E s \in S : s.by = d /\ v < s.no /\ (s.whole \/ s.no = m)
    BY <1>1, <2>1 DEF AboveIn
  <2>2. CASE ~\E s \in S : s.by = d /\ v < s.no /\ (s.whole \/ s.no = m)
    <3>1. CutAbove(S, d, v) \subseteq CutAbove(T, d, v)
      BY <1>1, <2>2 DEF CutAbove
    <3> QED BY <1>2, <1>4, <2>2, <3>1, CountedAbove DEF AboveIn
  <2> QED BY <2>1, <2>2
<1> QED BY <1>3, <1>4 DEF T

\* A snapshot that is pruned leaves what it held to those above it.
LEMMA PruneHolds ==
    ASSUME NEW S, NEW w, Sorted(S, w), NEW x \in Nat, NEW T, T = {t \in S : t.no # x},
           NEW d \in Devices, AboveIn(S, d, x), NEW s \in S, s.by = d, s.no = x,
           NEW v \in Nat, v <= s.holds[d]
    PROVE  HeldIn(T, d, v)
<1>1. Sorted(T, w)
  BY DEF Sorted
<1>2. \A t \in S : t.by = d /\ x < t.no => t \in T /\ v <= t.holds[d]
  BY DEF Sorted, Files
<1>3. CASE \E t \in S : t.by = d /\ t.whole /\ x < t.no
  BY <1>2, <1>3 DEF HeldIn
<1>4. CASE Cardinality(CutAbove(S, d, x)) >= Keep
  <2>1. CutAbove(S, d, x) \subseteq CutIn(T, d, v)
    BY <1>2 DEF CutAbove, CutIn
  <2> QED BY <1>1, <1>4, <2>1, Counted DEF HeldIn
<1> QED BY <1>3, <1>4 DEF AboveIn

LEMMA PruneKeeps ==
    ASSUME NEW S, NEW w, Sorted(S, w), NEW x \in Nat, NEW T, T = {t \in S : t.no # x},
           NEW d \in Devices, AboveIn(S, d, x), \A s \in S : s.no = x => s.by = d,
           NEW e \in Devices, NEW v \in Nat
    PROVE  /\ HeldIn(S, e, v) => HeldIn(T, e, v)
           /\ AboveIn(S, e, v) => AboveIn(T, e, v)
<1>1. Sorted(T, w)
  BY DEF Sorted
<1>2. ASSUME HeldIn(S, e, v) PROVE HeldIn(T, e, v)
  <2>1. CASE \E s \in S : s.by = e /\ v <= s.holds[e] /\ s.no = x
    BY <2>1, PruneHolds
  <2>2. CASE ~\E s \in S : s.by = e /\ v <= s.holds[e] /\ s.no = x
    <3>1. CutIn(S, e, v) \subseteq CutIn(T, e, v)
      BY <2>2 DEF CutIn
    <3> QED BY <1>1, <1>2, <2>2, <3>1, Counted DEF HeldIn
  <2> QED BY <2>1, <2>2
<1>3. ASSUME AboveIn(S, e, v) PROVE AboveIn(T, e, v)
  <2>1. CASE \E s \in S : s.by = e /\ v < s.no /\ s.no = x
    <3>1. e = d /\ v < x
      BY <2>1
    <3>2. CASE \E s \in S : s.by = d /\ s.whole /\ x < s.no
      BY <3>1, <3>2 DEF AboveIn, Sorted, Files
    <3>3. CASE Cardinality(CutAbove(S, d, x)) >= Keep
      <4>1. CutAbove(S, d, x) \subseteq CutAbove(T, d, v)
        BY <3>1 DEF CutAbove, Sorted, Files
      <4> QED BY <1>1, <3>1, <3>3, <4>1, CountedAbove DEF AboveIn
    <3> QED BY <3>2, <3>3 DEF AboveIn
  <2>2. CASE ~\E s \in S : s.by = e /\ v < s.no /\ s.no = x
    <3>1. CutAbove(S, e, v) \subseteq CutAbove(T, e, v)
      BY <2>2 DEF CutAbove
    <3> QED BY <1>1, <1>3, <2>2, <3>1, CountedAbove DEF AboveIn
  <2> QED BY <2>1, <2>2
<1> QED BY <1>2, <1>3

-----------------------------------------------------------------------------
(* What a cycle relies on *)

Vector == [Devices -> Nat]
CoveredBy(h, holds) == \A d \in Devices : holds[d] <= h[d]

\* What the names say was imported is in the database h.
RecordedIn(S, h, w, names) ==
    names \subseteq 1..w /\ \A s \in S : s.no \in names => CoveredBy(h, s.holds)

\* The cycle k of the device d, whose database is h.
CycleInv(S, h, w, d, k) ==
    /\ RecordedIn(S, h, w, k.names)
    /\ k.pc = "merged" => RecordedIn(S, h, w, {k.package.no})
    /\ k.pc \in {"writing", "manifest", "writeManifest", "mark", "own"} =>
          /\ k.package.no \in 1..w /\ k.package.holds \in Vector /\ CoveredBy(h, k.package.holds)
          /\ \A s \in S : s.no = k.package.no => s.by = d /\ s.holds = k.package.holds
    /\ k.pc = "writing" => \/ \E s \in S : s.no = k.package.no
                           \/ HeldIn(S, d, k.package.holds[d])
    /\ k.pc \in {"manifest", "writeManifest", "mark"} => HeldIn(S, d, k.package.holds[d])
    /\ k.pc = "prune" => \A n \in k.todo : /\ n \in 1..w /\ AboveIn(S, d, n)
                                           /\ \A s \in S : s.no = n => s.by = d

\* A step that takes nothing from what is recorded, held or still to be pruned.
Carries(S, h, w, T, g, x) ==
    /\ w \in Nat /\ x \in Nat /\ w <= x
    /\ h \in Vector /\ g \in Vector /\ CoveredBy(g, h)
    /\ S \subseteq Files /\ T \subseteq Files
    /\ \A t \in T : t.no <= w =>
          \E s \in S : t.no = s.no /\ t.by = s.by /\ t.holds = s.holds
    /\ \A d \in Devices, v \in Nat : /\ HeldIn(S, d, v) => HeldIn(T, d, v)
                                     /\ AboveIn(S, d, v) => AboveIn(T, d, v)
    /\ \A s \in S : (\E t \in T : t.no = s.no) \/ HeldIn(T, s.by, s.holds[s.by])

LEMMA RecordCarried ==
    ASSUME NEW S, NEW h, NEW w, NEW T, NEW g, NEW x, Carries(S, h, w, T, g, x), NEW names,
           RecordedIn(S, h, w, names)
    PROVE  RecordedIn(T, g, x, names)
<1>1. names \subseteq 1..x
  BY DEF Carries, RecordedIn
<1>2. ASSUME NEW t \in T, t.no \in names PROVE CoveredBy(g, t.holds)
  <2> w \in Nat /\ t.no \in 1..w
    BY <1>2 DEF Carries, RecordedIn
  <2>1. t.no <= w
    OBVIOUS
  <2>2. PICK s \in S : t.no = s.no /\ t.by = s.by /\ t.holds = s.holds
    BY <2>1 DEF Carries
  <2>3. CoveredBy(h, t.holds)
    BY <1>2, <2>2 DEF RecordedIn
  <2>4. t.holds \in Vector
    BY DEF Carries, Files, Vector
  <2> QED BY <2>3, <2>4 DEF CoveredBy, Carries, Vector
<1> QED BY <1>1, <1>2 DEF RecordedIn

LEMMA CycleCarried ==
    ASSUME NEW S, NEW h, NEW w, NEW T, NEW g, NEW x, Carries(S, h, w, T, g, x),
           NEW d \in Devices, NEW k, CycleInv(S, h, w, d, k)
    PROVE  CycleInv(T, g, x, d, k)
<1>1. RecordedIn(T, g, x, k.names) /\ (k.pc = "merged" => RecordedIn(T, g, x, {k.package.no}))
  BY RecordCarried DEF CycleInv
<1>2. ASSUME NEW n \in 1..w, NEW t \in T, t.no = n
      PROVE  \E s \in S : s.no = n /\ t.by = s.by /\ t.holds = s.holds
  BY <1>2 DEF Carries
<1>3. ASSUME k.pc \in {"writing", "manifest", "writeManifest", "mark", "own"}
      PROVE  /\ k.package.no \in 1..x /\ k.package.holds \in Vector
             /\ CoveredBy(g, k.package.holds)
             /\ \A t \in T : t.no = k.package.no => t.by = d /\ t.holds = k.package.holds
  <2>1. /\ k.package.no \in 1..w /\ k.package.holds \in Vector /\ CoveredBy(h, k.package.holds)
        /\ \A s \in S : s.no = k.package.no => s.by = d /\ s.holds = k.package.holds
    BY <1>3 DEF CycleInv
  <2>2. k.package.no \in 1..x
    BY <2>1 DEF Carries
  <2>3. CoveredBy(g, k.package.holds)
    BY <2>1 DEF CoveredBy, Carries, Vector
  <2>4. \A t \in T : t.no = k.package.no => t.by = d /\ t.holds = k.package.holds
    BY <1>2, <2>1
  <2> QED BY <2>1, <2>2, <2>3, <2>4
<1>4. ASSUME k.pc \in {"writing", "manifest", "writeManifest", "mark"}, HeldIn(S, d, k.package.holds[d])
      PROVE  HeldIn(T, d, k.package.holds[d])
  <2>1. k.package.holds[d] \in Nat
    BY <1>3, <1>4 DEF Vector
  <2> QED BY <1>4, <2>1 DEF Carries
<1>5. ASSUME k.pc = "writing"
      PROVE  (\E t \in T : t.no = k.package.no) \/ HeldIn(T, d, k.package.holds[d])
  <2>1. CASE \E s \in S : s.no = k.package.no
    <3>1. PICK s \in S : s.no = k.package.no
      BY <2>1
    <3>2. s.by = d /\ s.holds = k.package.holds
      BY <1>5, <3>1 DEF CycleInv
    <3> QED BY <3>1, <3>2 DEF Carries
  <2>2. CASE HeldIn(S, d, k.package.holds[d])
    BY <1>4, <1>5, <2>2
  <2> QED BY <1>5, <2>1, <2>2 DEF CycleInv
<1>6. k.pc \in {"manifest", "writeManifest", "mark"} => HeldIn(T, d, k.package.holds[d])
  BY <1>4 DEF CycleInv
<1>7. ASSUME k.pc = "prune", NEW n \in k.todo
      PROVE  n \in 1..x /\ AboveIn(T, d, n) /\ \A t \in T : t.no = n => t.by = d
  <2>1. n \in 1..w /\ AboveIn(S, d, n) /\ \A s \in S : s.no = n => s.by = d
    BY <1>7 DEF CycleInv
  <2>2. n \in 1..x /\ n \in Nat
    BY <2>1 DEF Carries
  <2>3. AboveIn(T, d, n)
    BY <2>1, <2>2 DEF Carries
  <2>4. \A t \in T : t.no = n => t.by = d
    BY <1>2, <2>1
  <2> QED BY <2>2, <2>3, <2>4
<1> QED BY <1>1, <1>3, <1>5, <1>6, <1>7 DEF CycleInv

-----------------------------------------------------------------------------
(* The inductive invariant *)

Fields == {"pc", "goal", "todo", "empty", "names", "package"}
Typed ==
    /\ has \in [Devices -> Vector] /\ synced \in Vector
    /\ DOMAIN imported = Devices
    /\ DOMAIN cycle = Cycles /\ \A c \in Cycles : DOMAIN cycle[c] = Fields

\* A snapshot holds what its device had made by then.
Made == \A s \in snapshots : s.holds[s.by] <= has[s.by][s.by]
Recorded == \A e \in Devices : RecordedIn(snapshots, has[e], written, imported[e])
CyclesInv == \A c \in Cycles : CycleInv(snapshots, has[Dev(c)], written, Dev(c), cycle[c])
Held == \A d \in Devices : HeldIn(snapshots, d, synced[d])

ShareInv == Typed /\ Sorted(snapshots, written) /\ Made /\ Recorded /\ CyclesInv /\ Held

\* What a step does not touch, it carries over.
Carry == \A e \in Devices : Carries(snapshots, has[e], written, snapshots', has'[e], written')

LEMMA Untouched ==
    ASSUME ShareInv, Carry
    PROVE  /\ imported' = imported => Recorded'
           /\ \A c \in Cycles : cycle'[c] = cycle[c] =>
                 CycleInv(snapshots', has'[Dev(c)], written', Dev(c), cycle'[c])
           /\ synced' = synced => Held'
<1>1. ASSUME NEW e \in Devices
      PROVE  RecordedIn(snapshots', has'[e], written', imported[e])
  BY RecordCarried DEF ShareInv, Recorded, Carry
<1>2. ASSUME NEW c \in Cycles
      PROVE  CycleInv(snapshots', has'[Dev(c)], written', Dev(c), cycle[c])
  <2>1. Dev(c) \in Devices
    BY ExchangeAssumption DEF Cycles, Dev
  <2> QED BY <2>1, CycleCarried DEF ShareInv, CyclesInv, Carry
<1>3. ASSUME NEW d \in Devices PROVE HeldIn(snapshots', d, synced[d])
  BY DEF ShareInv, Typed, Held, Carry, Carries, Vector
<1> QED BY <1>1, <1>2, <1>3 DEF Recorded, Held

\* The remote is as it was, and nothing is lost from the database.
LEMMA SameFiles ==
    ASSUME ShareInv, UNCHANGED <<snapshots, written>>, has' \in [Devices -> Vector],
           \A e \in Devices : CoveredBy(has'[e], has[e])
    PROVE  Carry /\ Sorted(snapshots, written)' /\ Made'
<1>1. Carry
  BY DEF Carry, Carries, ShareInv, Typed, Sorted
<1>2. Sorted(snapshots, written)'
  BY DEF ShareInv
<1>3. Made'
  BY DEF ShareInv, Made, Typed, Vector, CoveredBy, Sorted, Files
<1> QED BY <1>1, <1>2, <1>3

LEMMA Same ==
    ASSUME ShareInv, UNCHANGED <<has, snapshots, written>>
    PROVE  Carry /\ Sorted(snapshots, written)' /\ Made'
<1>1. has' \in [Devices -> Vector] /\ \A e \in Devices : CoveredBy(has'[e], has[e])
  BY DEF ShareInv, Typed, Vector, CoveredBy
<1> QED BY <1>1, SameFiles

\* A step of the cycle c.
LEMMA CycleStep ==
    ASSUME ShareInv, Carry, Sorted(snapshots, written)', Made', has' \in [Devices -> Vector],
           NEW c \in Cycles, NEW k, DOMAIN k = Fields, cycle' = [cycle EXCEPT ![c] = k],
           CycleInv(snapshots', has'[Dev(c)], written', Dev(c), k),
           imported' = imported \/ (DOMAIN imported' = Devices /\ Recorded'),
           synced' = synced \/ (synced' \in Vector /\ Held')
    PROVE  ShareInv'
<1>1. Typed'
  BY DEF ShareInv, Typed
<1>2. CyclesInv'
  <2>1. ASSUME NEW x \in Cycles
        PROVE  CycleInv(snapshots', has'[Dev(x)], written', Dev(x), cycle'[x])
    <3>1. CASE x = c
      BY <3>1 DEF ShareInv, Typed
    <3>2. CASE x # c
      <4>1. cycle'[x] = cycle[x]
        BY <3>2 DEF ShareInv, Typed
      <4> QED BY <4>1, Untouched
    <3> QED BY <3>1, <3>2
  <2> QED BY <2>1 DEF CyclesInv
<1>3. Recorded' /\ Held'
  BY Untouched
<1> QED BY <1>1, <1>2, <1>3 DEF ShareInv

\* A cycle that has ended, or only begins, relies on nothing.
LEMMA NothingToRely ==
    ASSUME NEW k, k.names = {}, k.pc \in {"idle", "layout"}, NEW S, NEW h, NEW w, NEW d
    PROVE  CycleInv(S, h, w, d, k)
BY DEF CycleInv, RecordedIn

\* A step at which nothing but the cycle c changes.
LEMMA CycleOnly ==
    ASSUME ShareInv, UNCHANGED <<Local, snapshots, written>>,
           NEW c \in Cycles, NEW k, DOMAIN k = Fields, cycle' = [cycle EXCEPT ![c] = k],
           CycleInv(snapshots, has[Dev(c)], written, Dev(c), k)
    PROVE  ShareInv'
<1>1. Carry /\ Sorted(snapshots, written)' /\ Made'
  BY Same DEF Local
<1>2. has' \in [Devices -> Vector] /\ imported' = imported /\ synced' = synced
  BY DEF Local, ShareInv, Typed
<1>3. CycleInv(snapshots', has'[Dev(c)], written', Dev(c), k)
  BY DEF Local
<1> QED BY <1>1, <1>2, <1>3, CycleStep

LEMMA Ends ==
    ASSUME ShareInv, UNCHANGED <<Local, snapshots, written>>, NEW c \in Cycles,
           NEW k, k \in {Idle, [Idle EXCEPT !.pc = "layout"],
                         [Idle EXCEPT !.pc = "layout", !.goal = "export"],
                         [Idle EXCEPT !.pc = "layout", !.goal = "syncAll"]},
           cycle' = [cycle EXCEPT ![c] = k]
    PROVE  ShareInv'
<1>1. DOMAIN k = Fields /\ k.names = {} /\ k.pc \in {"idle", "layout"}
  <2>1. CASE k = Idle
    BY <2>1 DEF Idle, Fields
  <2>2. CASE k = [Idle EXCEPT !.pc = "layout"]
    BY <2>2 DEF Idle, Fields
  <2>3. CASE k = [Idle EXCEPT !.pc = "layout", !.goal = "export"]
    BY <2>3 DEF Idle, Fields
  <2>4. CASE k = [Idle EXCEPT !.pc = "layout", !.goal = "syncAll"]
    BY <2>4 DEF Idle, Fields
  <2> QED BY <2>1, <2>2, <2>3, <2>4
<1>2. CycleInv(snapshots, has[Dev(c)], written, Dev(c), k)
  BY <1>1, NothingToRely
<1> QED BY <1>1, <1>2, CycleOnly

\* The record of the cycle c with another program counter.
LEMMA Moves ==
    ASSUME ShareInv, NEW c \in Cycles, NEW pc
    PROVE  LET k == [cycle[c] EXCEPT !.pc = pc] IN
           /\ DOMAIN k = Fields /\ k.pc = pc /\ k.names = cycle[c].names
           /\ k.package = cycle[c].package /\ k.todo = cycle[c].todo
BY DEF ShareInv, Typed, Fields

LEMMA DevTyped ==
    ASSUME NEW c \in Cycles
    PROVE  Dev(c) \in Devices
BY ExchangeAssumption DEF Cycles, Dev

-----------------------------------------------------------------------------
(* The actions *)

LEMMA ChangeKeeps ==
    ASSUME ShareInv, NEW d \in Devices, Change(d)
    PROVE  ShareInv'
<1>1. has' \in [Devices -> Vector] /\ \A e \in Devices : CoveredBy(has'[e], has[e])
  BY DEF ShareInv, Typed, Vector, CoveredBy, Change
<1>2. Carry /\ Sorted(snapshots, written)' /\ Made'
  BY <1>1, SameFiles DEF Change, remote
<1>3. Typed'
  BY <1>1 DEF ShareInv, Typed, Change
<1>4. CyclesInv' /\ Recorded' /\ Held'
  BY <1>2, Untouched DEF CyclesInv, Change
<1> QED BY <1>2, <1>3, <1>4 DEF ShareInv

LEMMA BeginKeeps ==
    ASSUME ShareInv, NEW d \in Devices, Begin(d)
    PROVE  ShareInv'
<1>1. <<d, "auto">> \in Cycles
  BY DEF Cycles
<1> QED BY <1>1, Ends DEF Begin, remote

LEMMA CommandKeeps ==
    ASSUME ShareInv, NEW d \in Editors, Command(d)
    PROVE  ShareInv'
<1>1. <<d, "user">> \in Cycles
  BY DEF Cycles
<1>2. PICK goal \in {"syncAll", "export"} :
        cycle' = [cycle EXCEPT ![<<d, "user">>] = [Idle EXCEPT !.pc = "layout", !.goal = goal]]
  BY DEF Command
<1> QED BY <1>1, <1>2, Ends DEF Command, remote

LEMMA FailKeeps ==
    ASSUME ShareInv, NEW c \in Cycles, Fail(c)
    PROVE  ShareInv'
BY Ends DEF Fail, End, remote

LEMMA LayoutKeeps ==
    ASSUME ShareInv, NEW c \in Cycles, Layout(c)
    PROVE  ShareInv'
<1> DEFINE k == [cycle[c] EXCEPT !.pc = "layoutManifest"]
<1>1. DOMAIN k = Fields /\ k.pc = "layoutManifest" /\ k.names = cycle[c].names
  BY Moves
<1>2. cycle' = [cycle EXCEPT ![c] = k] /\ UNCHANGED <<Local, snapshots, written>>
  BY DEF Layout, To
<1> HIDE DEF k
<1>3. CycleInv(snapshots, has[Dev(c)], written, Dev(c), k)
  BY <1>1 DEF ShareInv, CyclesInv, CycleInv
<1> QED BY <1>1, <1>2, <1>3, CycleOnly

LEMMA ListKeeps ==
    ASSUME ShareInv, NEW c \in Cycles, List(c)
    PROVE  ShareInv'
<1>1. PICK names \in {There, {}} :
        cycle' = [cycle EXCEPT ![c].pc = "import", ![c].empty = (names = {}),
                  ![c].todo = IF cycle[c].goal = "syncAll" THEN names
                              ELSE names \ imported[Dev(c)]]
  BY DEF List
<1>2. UNCHANGED <<Local, snapshots, written>>
  BY DEF List, remote
<1> DEFINE todo == IF cycle[c].goal = "syncAll" THEN names ELSE names \ imported[Dev(c)]
           k == [[[cycle[c] EXCEPT !.pc = "import"] EXCEPT !.empty = (names = {})] EXCEPT !.todo = todo]
<1>3. DOMAIN k = Fields /\ k.pc = "import" /\ k.names = cycle[c].names
  BY DEF ShareInv, Typed, Fields
<1>4. cycle' = [cycle EXCEPT ![c] = k]
  BY <1>1 DEF ShareInv, Typed
<1> HIDE DEF k
<1>5. CycleInv(snapshots, has[Dev(c)], written, Dev(c), k)
  BY <1>3 DEF ShareInv, CyclesInv, CycleInv
<1> QED BY <1>2, <1>3, <1>4, <1>5, CycleOnly

LEMMA ImportKeeps ==
    ASSUME ShareInv, NEW c \in Cycles, Import(c)
    PROVE  ShareInv'
<1>1. PICK n \in cycle[c].todo :
        \/ \E s \in snapshots :
              /\ s.no = n /\ s.whole
              /\ has' = [has EXCEPT ![Dev(c)] = Later(@, s.holds)]
              /\ cycle' = [cycle EXCEPT ![c].pc = "merged", ![c].package = s,
                                        ![c].todo = cycle[c].todo \ {n},
                                        ![c].names = imported[Dev(c)]]
        \/ End(c) /\ UNCHANGED has
  BY DEF Import
<1>2. UNCHANGED <<synced, imported, snapshots, written>>
  BY DEF Import, remote
<1>3. CASE End(c) /\ UNCHANGED has
  BY <1>2, <1>3, Ends DEF End, Local
<1>4. ASSUME NEW s \in snapshots, has' = [has EXCEPT ![Dev(c)] = Later(@, s.holds)],
             cycle' = [cycle EXCEPT ![c].pc = "merged", ![c].package = s,
                                    ![c].todo = cycle[c].todo \ {n},
                                    ![c].names = imported[Dev(c)]]
      PROVE  ShareInv'
  <2> DEFINE k == [[[[cycle[c] EXCEPT !.pc = "merged"] EXCEPT !.package = s]
                        EXCEPT !.todo = cycle[c].todo \ {n}] EXCEPT !.names = imported[Dev(c)]]
             h == Later(has[Dev(c)], s.holds)
  <2> Dev(c) \in Devices
    BY DevTyped
  <2>1. s \in Files /\ s.no \in 1..written /\ s.holds \in Vector
    BY DEF ShareInv, Sorted, Files, Vector
  <2>2. h \in Vector /\ CoveredBy(h, has[Dev(c)]) /\ CoveredBy(h, s.holds)
    BY <2>1 DEF ShareInv, Typed, Vector, CoveredBy, Later
  <2>3. has'[Dev(c)] = h /\ \A e \in Devices : e # Dev(c) => has'[e] = has[e]
    BY <1>4 DEF ShareInv, Typed
  <2>4. has' \in [Devices -> Vector]
    BY <1>4, <2>2 DEF ShareInv, Typed
  <2> HIDE DEF h
  <2>5. \A e \in Devices : CoveredBy(has'[e], has[e])
    <3>1. \A e \in Devices : CoveredBy(has[e], has[e])
      BY DEF ShareInv, Typed, Vector, CoveredBy
    <3> QED BY <3>1, <2>2, <2>3
  <2>6. Carry /\ Sorted(snapshots, written)' /\ Made'
    BY <1>2, <2>4, <2>5, SameFiles
  <2>7. DOMAIN k = Fields /\ k.pc = "merged" /\ k.package = s /\ k.names = imported[Dev(c)]
    BY DEF ShareInv, Typed, Fields
  <2>8. cycle' = [cycle EXCEPT ![c] = k]
    BY <1>4 DEF ShareInv, Typed
  <2> HIDE DEF k
  <2>9. CycleInv(snapshots', has'[Dev(c)], written', Dev(c), k)
    <3>1. RecordedIn(snapshots', has'[Dev(c)], written', imported[Dev(c)])
      BY <2>6, RecordCarried DEF Carry, ShareInv, Recorded
    <3>2. RecordedIn(snapshots', has'[Dev(c)], written', {s.no})
      BY <1>2, <2>1, <2>2, <2>3 DEF RecordedIn, ShareInv, Sorted
    <3> QED BY <2>7, <3>1, <3>2 DEF CycleInv
  <2> QED BY <1>2, <2>4, <2>6, <2>7, <2>8, <2>9, CycleStep
<1> QED BY <1>1, <1>3, <1>4

\* What is pruned has as many snapshots above it as the device keeps.
LEMMA ExcessAbove ==
    ASSUME ShareInv, NEW c \in Cycles, NEW names, NEW n \in Excess(c, names)
    PROVE  /\ n \in 1..written /\ AboveIn(snapshots, Dev(c), n)
           /\ \A s \in snapshots : s.no = n => s.by = Dev(c)
<1> DEFINE own == {s.no : s \in {t \in snapshots : t.by = Dev(c) /\ t.no \in names}}
           above == {m \in own : n < m}
<1>1. n \in own /\ Cardinality(above) >= Keep
  BY DEF Excess
<1>2. PICK s \in snapshots : s.no = n /\ s.by = Dev(c)
  BY <1>1
<1>3. n \in 1..written /\ \A t \in snapshots : t.no = n => t.by = Dev(c)
  BY <1>2 DEF ShareInv, Sorted, Files
<1>4. AboveIn(snapshots, Dev(c), n)
  <2>1. CASE \E t \in snapshots : t.by = Dev(c) /\ t.whole /\ n < t.no
    BY <2>1 DEF AboveIn
  <2>2. CASE ~\E t \in snapshots : t.by = Dev(c) /\ t.whole /\ n < t.no
    <3>1. above \subseteq CutAbove(snapshots, Dev(c), n)
      BY <2>2 DEF CutAbove
    <3> QED BY <1>1, <1>3, <3>1, DevTyped, CountedAbove DEF AboveIn, ShareInv
  <2> QED BY <2>1, <2>2
<1> QED BY <1>3, <1>4

LEMMA WriteNamesKeeps ==
    ASSUME ShareInv, NEW c \in Cycles, WriteNames(c)
    PROVE  ShareInv'
<1> Dev(c) \in Devices
  BY DevTyped
<1>1. CycleInv(snapshots, has[Dev(c)], written, Dev(c), cycle[c])
  BY DEF ShareInv, CyclesInv
<1>2. UNCHANGED <<has, synced, snapshots, written>>
  BY DEF WriteNames, remote
<1>3. Carry /\ Sorted(snapshots, written)' /\ Made' /\ has' \in [Devices -> Vector]
  BY <1>2, Same DEF ShareInv, Typed
<1>4. RecordedIn(snapshots, has[Dev(c)], written, cycle[c].names \cup {cycle[c].package.no})
  BY <1>1 DEF WriteNames, At, CycleInv, RecordedIn
<1>5. DOMAIN imported' = Devices /\ Recorded'
  <2>1. imported' = [imported EXCEPT ![Dev(c)] = cycle[c].names \cup {cycle[c].package.no}]
    BY DEF WriteNames
  <2>2. \A e \in Devices : RecordedIn(snapshots, has[e], written, imported'[e])
    BY <1>4, <2>1 DEF ShareInv, Typed, Recorded
  <2> QED BY <1>2, <2>1, <2>2 DEF ShareInv, Typed, Recorded
<1>6. ASSUME NEW k, DOMAIN k = Fields, cycle' = [cycle EXCEPT ![c] = k], k.names = {},
             \/ k.pc = "import"
             \/ k.pc = "prune" /\ \E names \in {There, {}} : k.todo = Excess(c, names)
      PROVE  ShareInv'
  <2>1. RecordedIn(snapshots, has[Dev(c)], written, {})
    BY DEF RecordedIn
  <2>2. CycleInv(snapshots, has[Dev(c)], written, Dev(c), k)
    BY <1>6, <2>1, ExcessAbove DEF CycleInv
  <2>3. CycleInv(snapshots', has'[Dev(c)], written', Dev(c), k)
    BY <1>2, <2>2
  <2> QED BY <1>2, <1>3, <1>5, <1>6, <2>3, CycleStep
<1>7. CASE cycle' = [cycle EXCEPT ![c].pc = "import", ![c].names = {}, ![c].package = NoPackage]
  <2> DEFINE k == [[[cycle[c] EXCEPT !.pc = "import"] EXCEPT !.names = {}] EXCEPT !.package = NoPackage]
  <2>1. DOMAIN k = Fields /\ k.pc = "import" /\ k.names = {}
    BY DEF ShareInv, Typed, Fields
  <2>2. cycle' = [cycle EXCEPT ![c] = k]
    BY <1>7 DEF ShareInv, Typed
  <2> HIDE DEF k
  <2> QED BY <1>6, <2>1, <2>2
<1>8. ASSUME NEW names \in {There, {}},
             cycle' = [cycle EXCEPT ![c].pc = "prune", ![c].names = {}, ![c].todo = Excess(c, names)]
      PROVE  ShareInv'
  <2> DEFINE k == [[[cycle[c] EXCEPT !.pc = "prune"] EXCEPT !.names = {}] EXCEPT !.todo = Excess(c, names)]
  <2>1. DOMAIN k = Fields /\ k.pc = "prune" /\ k.names = {} /\ k.todo = Excess(c, names)
    BY DEF ShareInv, Typed, Fields
  <2>2. cycle' = [cycle EXCEPT ![c] = k]
    BY <1>8 DEF ShareInv, Typed
  <2> HIDE DEF k
  <2> QED BY <1>6, <2>1, <2>2
<1> QED BY <1>7, <1>8 DEF WriteNames

LEMMA EndImportKeeps ==
    ASSUME ShareInv, NEW c \in Cycles, EndImport(c)
    PROVE  ShareInv'
BY Ends DEF EndImport, End, remote

\* A snapshot is numbered after all others and holds what its device has.
LEMMA StartSnapshotKeeps ==
    ASSUME ShareInv, NEW c \in Cycles, StartSnapshot(c)
    PROVE  ShareInv'
<1> DEFINE d == Dev(c)
           new == [no |-> written + 1, by |-> d, whole |-> FALSE, holds |-> has[d]]
<1>1. \/ /\ written' = written + 1
         /\ snapshots' = snapshots \cup {new}
         /\ cycle' = [cycle EXCEPT ![c].pc = "writing", ![c].package = new]
      \/ End(c) /\ UNCHANGED <<snapshots, written>>
  BY DEF StartSnapshot
<1>2. UNCHANGED Local
  BY DEF StartSnapshot
<1>3. CASE End(c) /\ UNCHANGED <<snapshots, written>>
  BY <1>2, <1>3, Ends DEF End
<1>4. CASE /\ written' = written + 1 /\ snapshots' = snapshots \cup {new}
           /\ cycle' = [cycle EXCEPT ![c].pc = "writing", ![c].package = new]
  <2> d \in Devices
    BY DevTyped
  <2>1. /\ new \in Files /\ new.no = written + 1 /\ new.by = d /\ ~new.whole /\ new.holds = has[d]
        /\ has[d] \in Vector /\ written \in Nat
    BY DEF ShareInv, Typed, Files, Vector, Sorted
  <2> DEFINE k == [[cycle[c] EXCEPT !.pc = "writing"] EXCEPT !.package = new]
  <2>2. DOMAIN k = Fields /\ k.pc = "writing" /\ k.package = new /\ k.names = cycle[c].names
    BY DEF ShareInv, Typed, Fields
  <2>3. cycle' = [cycle EXCEPT ![c] = k]
    BY <1>4 DEF ShareInv, Typed
  <2> HIDE DEF k, new
  <2>4. Sorted(snapshots', written')
    <3>1. snapshots' \subseteq Files /\ written' \in Nat /\ \A s \in snapshots' : s.no <= written'
      BY <1>4, <2>1 DEF ShareInv, Sorted, Files
    <3>2. \A s \in snapshots : s.no < new.no
      BY <2>1 DEF ShareInv, Sorted, Files
    <3>3. \A s, t \in snapshots' : s.no = t.no => s = t
      BY <1>4, <2>1, <3>2 DEF ShareInv, Sorted, Files
    <3>4. ASSUME NEW s \in snapshots', NEW t \in snapshots', s.by = t.by, s.no < t.no
          PROVE  s.holds[s.by] <= t.holds[s.by]
      <4>1. CASE t = new
        <5>1. s \in snapshots
          BY <1>4, <2>1, <3>4, <4>1
        <5> QED BY <2>1, <3>4, <4>1, <5>1 DEF ShareInv, Made
      <4>2. CASE t \in snapshots
        <5>1. s \in snapshots
          BY <1>4, <2>1, <3>2, <3>4, <4>2 DEF ShareInv, Sorted, Files
        <5> QED BY <3>4, <4>2, <5>1 DEF ShareInv, Sorted
      <4> QED BY <1>4, <4>1, <4>2
    <3> QED BY <3>1, <3>3, <3>4 DEF Sorted
  <2>5. Made'
    BY <1>2, <1>4, <2>1 DEF Local, ShareInv, Made, Vector
  <2>6. Carry
    <3>1. ASSUME NEW e \in Devices
          PROVE  Carries(snapshots, has[e], written, snapshots', has'[e], written')
      <4>1. written' \in Nat /\ written <= written'
        BY <1>4, <2>1
      <4>2. has[e] \in Vector /\ has'[e] \in Vector /\ CoveredBy(has'[e], has[e])
        BY <1>2 DEF Local, ShareInv, Typed, Vector, CoveredBy
      <4>3. snapshots \subseteq Files /\ snapshots' \subseteq Files
        BY <2>4 DEF ShareInv, Sorted
      <4>4. \A t \in snapshots' : t.no <= written => t \in snapshots
        BY <1>4, <2>1
      <4>5. \A x \in Devices, v \in Nat :
               /\ HeldIn(snapshots, x, v) => HeldIn(snapshots', x, v)
               /\ AboveIn(snapshots, x, v) => AboveIn(snapshots', x, v)
        BY <1>4, <2>1, <2>4, StartKeeps
      <4>6. \A s \in snapshots : s \in snapshots'
        BY <1>4
      <4> QED BY <2>1, <4>1, <4>2, <4>3, <4>4, <4>5, <4>6 DEF Carries
    <3> QED BY <3>1 DEF Carry
  <2>7. CycleInv(snapshots', has'[d], written', d, k)
    <3>1. RecordedIn(snapshots', has'[d], written', cycle[c].names)
      BY <2>6, RecordCarried DEF Carry, ShareInv, CyclesInv, CycleInv
    <3>2. new.no \in 1..written' /\ CoveredBy(has'[d], new.holds)
      BY <1>2, <1>4, <2>1 DEF Local, CoveredBy, Vector
    <3>3. \A s \in snapshots' : s.no = new.no => s = new
      BY <1>4, <2>1, <2>4 DEF Sorted
    <3>4. new \in snapshots'
      BY <1>4
    <3> QED BY <2>1, <2>2, <3>1, <3>2, <3>3, <3>4 DEF CycleInv
  <2>8. has' \in [Devices -> Vector] /\ imported' = imported /\ synced' = synced
    BY <1>2 DEF Local, ShareInv, Typed
  <2> QED BY <2>2, <2>3, <2>4, <2>5, <2>6, <2>7, <2>8, CycleStep
<1> QED BY <1>1, <1>3, <1>4

LEMMA EndSnapshotKeeps ==
    ASSUME ShareInv, NEW c \in Cycles, EndSnapshot(c)
    PROVE  ShareInv'
<1> DEFINE d == Dev(c)
           m == cycle[c].package.no
           k == [cycle[c] EXCEPT !.pc = "manifest"]
<1> d \in Devices
  BY DevTyped
<1>1. /\ UNCHANGED <<Local, written>> /\ cycle' = [cycle EXCEPT ![c] = k]
      /\ snapshots' = Finished(snapshots, m)
  BY DEF EndSnapshot, To, Finished
<1>2. Sorted(snapshots', written') /\ Sorted(snapshots, written)
  BY <1>1, FinishedFiles DEF ShareInv
<1>3. \A s \in snapshots : \E t \in snapshots' :
         /\ t.no = s.no /\ t.by = s.by /\ t.holds = s.holds
         /\ (s.whole \/ s.no = m) => t.whole
  BY <1>1, <1>2, FinishedFiles
<1>4. \A t \in snapshots' : \E s \in snapshots :
         t.no = s.no /\ t.by = s.by /\ t.holds = s.holds
  BY <1>1, <1>2, FinishedFiles
<1>5. Made'
  BY <1>1, <1>4 DEF Local, ShareInv, Made
<1>6. has' \in [Devices -> Vector] /\ imported' = imported /\ synced' = synced
  BY <1>1 DEF Local, ShareInv, Typed
<1>7. Carry
  <2>1. ASSUME NEW e \in Devices
        PROVE  Carries(snapshots, has[e], written, snapshots', has'[e], written')
    <3>1. has[e] \in Vector /\ has'[e] \in Vector /\ CoveredBy(has'[e], has[e])
      BY <1>1 DEF Local, ShareInv, Typed, Vector, CoveredBy
    <3>2. \A x \in Devices, v \in Nat :
             /\ HeldIn(snapshots, x, v) => HeldIn(snapshots', x, v)
             /\ AboveIn(snapshots, x, v) => AboveIn(snapshots', x, v)
      BY <1>1, <1>2, FinishKeeps
    <3>3. written \in Nat /\ written' \in Nat /\ written <= written'
      BY <1>1, <1>2 DEF Sorted
    <3>4. snapshots \subseteq Files /\ snapshots' \subseteq Files
      BY <1>2 DEF Sorted
    <3> QED BY <1>3, <1>4, <3>1, <3>2, <3>3, <3>4 DEF Carries
  <2> QED BY <2>1 DEF Carry
<1>8. DOMAIN k = Fields /\ k.pc = "manifest" /\ k.package = cycle[c].package
      /\ k.names = cycle[c].names
  BY Moves
<1> HIDE DEF k
<1>9. CycleInv(snapshots', has'[d], written', d, k)
  <2>1. CycleInv(snapshots, has[d], written, d, cycle[c])
    BY DEF ShareInv, CyclesInv
  <2>2. CycleInv(snapshots', has'[d], written', d, cycle[c])
    BY <1>7, <2>1, CycleCarried DEF Carry
  <2>3. HeldIn(snapshots', d, cycle[c].package.holds[d])
    <3>1. CASE \E s \in snapshots : s.no = m
      <4>1. PICK s \in snapshots : s.no = m
        BY <3>1
      <4>2. s.by = d /\ s.holds = cycle[c].package.holds
        BY <2>1, <4>1 DEF CycleInv, EndSnapshot, At
      <4>3. PICK t \in snapshots' : t.by = d /\ t.holds = s.holds /\ t.whole
        BY <1>3, <4>1, <4>2
      <4>4. s.holds[d] \in Nat
        BY <1>2 DEF Sorted, Files
      <4> QED BY <4>2, <4>3, <4>4 DEF HeldIn
    <3>2. CASE ~\E s \in snapshots : s.no = m
      <4>1. HeldIn(snapshots, d, cycle[c].package.holds[d])
        BY <2>1, <3>2 DEF CycleInv, EndSnapshot, At
      <4>2. cycle[c].package.holds[d] \in Nat
        BY <2>1 DEF CycleInv, EndSnapshot, At, Vector
      <4> QED BY <1>7, <4>1, <4>2 DEF Carry, Carries
    <3> QED BY <3>1, <3>2
  <2> QED BY <1>8, <2>2, <2>3 DEF CycleInv, EndSnapshot, At
<1> QED BY <1>1, <1>2, <1>5, <1>6, <1>7, <1>8, <1>9, CycleStep

\* Steps that only move a cycle on: it relies on no more than before.
LEMMA MovesOn ==
    ASSUME ShareInv, NEW c \in Cycles, NEW pc, UNCHANGED <<Local, snapshots, written>>,
           cycle' = [cycle EXCEPT ![c].pc = pc],
           \/ pc = "layout"
           \/ cycle[c].pc = "manifest" /\ pc = "writeManifest"
           \/ cycle[c].pc = "writeManifest" /\ pc = "mark"
    PROVE  ShareInv'
<1> DEFINE k == [cycle[c] EXCEPT !.pc = pc]
<1>1. DOMAIN k = Fields /\ k.pc = pc /\ k.names = cycle[c].names /\ k.package = cycle[c].package
  BY Moves
<1>2. cycle' = [cycle EXCEPT ![c] = k]
  OBVIOUS
<1> HIDE DEF k
<1>3. CycleInv(snapshots, has[Dev(c)], written, Dev(c), cycle[c])
  BY DEF ShareInv, CyclesInv
<1>4. CycleInv(snapshots, has[Dev(c)], written, Dev(c), k)
  <2>1. CASE pc = "layout"
    BY <1>1, <1>3, <2>1 DEF CycleInv
  <2>2. CASE cycle[c].pc = "manifest" /\ pc = "writeManifest"
    BY <1>1, <1>3, <2>2 DEF CycleInv
  <2>3. CASE cycle[c].pc = "writeManifest" /\ pc = "mark"
    BY <1>1, <1>3, <2>3 DEF CycleInv
  <2> QED BY <2>1, <2>2, <2>3
<1> QED BY <1>1, <1>2, <1>4, CycleOnly

LEMMA ManifestKeeps ==
    ASSUME ShareInv, NEW c \in Cycles, StartManifest(c) \/ EndManifest(c)
    PROVE  ShareInv'
<1>1. CASE StartManifest(c)
  <2>1. CASE manifest = "torn"
    BY <1>1, <2>1, Ends DEF StartManifest, End
  <2>2. CASE manifest # "torn"
    BY <1>1, <2>2, MovesOn DEF StartManifest, To, At
  <2> QED BY <2>1, <2>2
<1>2. CASE EndManifest(c)
  BY <1>2, MovesOn DEF EndManifest, To, At
<1> QED BY <1>1, <1>2

LEMMA MarkKeeps ==
    ASSUME ShareInv, NEW c \in Cycles, Mark(c)
    PROVE  ShareInv'
<1> DEFINE d == Dev(c)
           v == cycle[c].package.holds[d]
           k == [[cycle[c] EXCEPT !.pc = "own"] EXCEPT !.names = imported[d]]
<1> d \in Devices
  BY DevTyped
<1>1. CycleInv(snapshots, has[d], written, d, cycle[c]) /\ cycle[c].pc = "mark"
  BY DEF ShareInv, CyclesInv, Mark, At
<1>2. v \in Nat /\ HeldIn(snapshots, d, v)
  BY <1>1 DEF CycleInv, Vector
<1>3. /\ UNCHANGED <<has, imported, snapshots, written>>
      /\ synced' = [synced EXCEPT ![d] = IF @ < v THEN v ELSE @]
  BY DEF Mark, remote
<1>4. Carry /\ Sorted(snapshots, written)' /\ Made' /\ has' \in [Devices -> Vector]
  BY <1>3, Same DEF ShareInv, Typed
<1>5. synced' \in Vector /\ Held'
  BY <1>2, <1>3 DEF ShareInv, Typed, Vector, Held
<1>6. DOMAIN k = Fields /\ k.pc = "own" /\ k.package = cycle[c].package /\ k.names = imported[d]
  BY DEF ShareInv, Typed, Fields
<1>7. cycle' = [cycle EXCEPT ![c] = k]
  BY DEF Mark, ShareInv, Typed
<1> HIDE DEF k
<1>8. RecordedIn(snapshots, has[d], written, imported[d])
  BY DEF ShareInv, Recorded
<1>9. CycleInv(snapshots', has'[d], written', d, k)
  <2>1. CycleInv(snapshots, has[d], written, d, k)
    BY <1>1, <1>6, <1>8 DEF CycleInv
  <2> QED BY <1>3, <2>1
<1> QED BY <1>3, <1>4, <1>5, <1>6, <1>7, <1>9, CycleStep

LEMMA PruneAction ==
    ASSUME ShareInv, NEW c \in Cycles, Prune(c)
    PROVE  ShareInv'
<1> DEFINE d == Dev(c)
<1> d \in Devices
  BY DevTyped
<1>1. UNCHANGED <<Local, written>>
  BY DEF Prune
<1>2. CASE End(c) /\ UNCHANGED snapshots
  BY <1>1, <1>2, Ends DEF End
<1>3. ASSUME NEW n \in cycle[c].todo, cycle' = [cycle EXCEPT ![c].todo = @ \ {n}], Deletes(n)
      PROVE  ShareInv'
  <2> DEFINE k == [cycle[c] EXCEPT !.todo = @ \ {n}]
  <2>1. /\ DOMAIN k = Fields /\ k.pc = cycle[c].pc /\ k.package = cycle[c].package
        /\ k.names = cycle[c].names /\ k.todo = cycle[c].todo \ {n}
    BY DEF ShareInv, Typed, Fields
  <2>2. cycle' = [cycle EXCEPT ![c] = k]
    BY <1>3 DEF ShareInv, Typed
  <2> HIDE DEF k
  <2>3. CycleInv(snapshots, has[d], written, d, cycle[c]) /\ cycle[c].pc = "prune"
    BY DEF ShareInv, CyclesInv, Prune, At
  <2>4. CycleInv(snapshots, has[d], written, d, k)
    BY <2>1, <2>3 DEF CycleInv
  <2>5. CASE UNCHANGED snapshots
    BY <1>1, <2>1, <2>2, <2>4, <2>5, CycleOnly
  <2>6. CASE snapshots' = {s \in snapshots : s.no # n}
    <3>1. /\ n \in 1..written /\ AboveIn(snapshots, d, n)
          /\ \A s \in snapshots : s.no = n => s.by = d
      BY <2>3 DEF CycleInv
    <3>2. Sorted(snapshots, written) /\ n \in Nat
      BY <3>1 DEF ShareInv, Sorted
    <3>3. Sorted(snapshots, written)' /\ Made'
      BY <1>1, <2>6, <3>2 DEF Local, Sorted, ShareInv, Made
    <3>4. \A x \in Devices, v \in Nat :
             /\ HeldIn(snapshots, x, v) => HeldIn(snapshots', x, v)
             /\ AboveIn(snapshots, x, v) => AboveIn(snapshots', x, v)
      BY <2>6, <3>1, <3>2, PruneKeeps
    <3>5. \A s \in snapshots :
             (\E t \in snapshots' : t.no = s.no) \/ HeldIn(snapshots', s.by, s.holds[s.by])
      <4>1. ASSUME NEW s \in snapshots, s.no = n
            PROVE  HeldIn(snapshots', s.by, s.holds[s.by])
        <5>1. s.by = d /\ s.holds[d] \in Nat
          BY <3>1, <3>2, <4>1 DEF Sorted, Files
        <5>2. s.holds[d] <= s.holds[d]
          BY <5>1
        <5>3. Sorted(snapshots, written)
          BY <3>2
        <5>4. HeldIn(snapshots', d, s.holds[d])
          BY <2>6, <3>1, <3>2, <4>1, <5>1, <5>2, <5>3, PruneHolds
        <5> QED BY <5>1, <5>4
      <4> QED BY <2>6, <4>1
    <3>6. Carry
      <4>1. ASSUME NEW e \in Devices
            PROVE  Carries(snapshots, has[e], written, snapshots', has'[e], written')
        <5>1. has[e] \in Vector /\ has'[e] \in Vector /\ CoveredBy(has'[e], has[e])
          BY <1>1 DEF Local, ShareInv, Typed, Vector, CoveredBy
        <5>2. written \in Nat /\ written' \in Nat /\ written <= written'
          BY <1>1, <3>2 DEF Sorted
        <5>3. snapshots \subseteq Files /\ snapshots' \subseteq Files
          BY <3>2, <3>3 DEF Sorted
        <5> QED BY <2>6, <3>4, <3>5, <5>1, <5>2, <5>3 DEF Carries
      <4> QED BY <4>1 DEF Carry
    <3>7. CycleInv(snapshots', has'[d], written', d, k)
      BY <2>4, <3>6, CycleCarried DEF Carry
    <3>8. has' \in [Devices -> Vector] /\ imported' = imported /\ synced' = synced
      BY <1>1 DEF Local, ShareInv, Typed
    <3> QED BY <2>1, <2>2, <3>3, <3>6, <3>7, <3>8, CycleStep
  <2> QED BY <1>3, <2>5, <2>6 DEF Deletes
<1> QED BY <1>2, <1>3 DEF Prune

-----------------------------------------------------------------------------
(* The theorem *)

\* Every device has written one of the first snapshots, and no one else did.
LEMMA FirstTyped == First \in [1..Cardinality(Devices) -> Devices]
<1>1. Cardinality(Devices) \in Nat /\ ExistsBijection(1..Cardinality(Devices), Devices)
  BY ExchangeAssumption, FS_CardinalityType
<1>2. \E by \in [1..Cardinality(Devices) -> Devices] :
        \A d \in Devices : \E n \in DOMAIN by : by[n] = d
  BY <1>1 DEF ExistsBijection, Bijection, Surjection, Injection
<1> QED BY <1>2 DEF First

LEMMA ShareInit == Init => ShareInv
<1> SUFFICES ASSUME Init PROVE ShareInv
  OBVIOUS
<1>1. Typed
  <2>1. has \in [Devices -> Vector] /\ synced \in Vector
    BY DEF Init, Vector
  <2>2. DOMAIN imported = Devices
    BY DEF Init, SetUp, Fresh
  <2>3. DOMAIN cycle = Cycles /\ \A c \in Cycles : DOMAIN cycle[c] = Fields
    BY DEF Init, Idle, Fields
  <2> QED BY <2>1, <2>2, <2>3 DEF Typed
<1>2. ASSUME NEW s \in snapshots
      PROVE  /\ s \in Files /\ s.no <= written /\ s.holds = [d \in Devices |-> 0]
             /\ SetUp /\ s.no \in DOMAIN First /\ s.by = First[s.no] /\ s.whole
  <2>1. SetUp
    BY <1>2 DEF Init, Fresh
  <2>2. PICK n \in 1..Cardinality(Devices) :
          s = [no |-> n, by |-> First[n], whole |-> TRUE, holds |-> [d \in Devices |-> 0]]
    BY <1>2, <2>1, FirstTyped DEF SetUp, FirstSnapshots
  <2>3. Cardinality(Devices) \in Nat
    BY ExchangeAssumption, FS_CardinalityType
  <2>4. First[n] \in Devices
    BY FirstTyped
  <2>5. n \in Nat \ {0} /\ n <= written
    BY <2>1, <2>3 DEF SetUp
  <2>6. s \in Files
    BY <2>2, <2>4, <2>5 DEF Files
  <2> QED BY <2>1, <2>2, <2>5, <2>6, FirstTyped
<1>3. written \in Nat
  BY ExchangeAssumption, FS_CardinalityType DEF Init, SetUp, Fresh
<1>4. Sorted(snapshots, written)
  <2>1. ASSUME NEW s \in snapshots, NEW t \in snapshots, s.no = t.no PROVE s = t
    <3>1. s.by = t.by /\ s.holds = t.holds /\ s.whole = TRUE /\ t.whole = TRUE
      BY <1>2, <2>1 DEF Files
    <3> QED BY <1>2, <2>1, <3>1 DEF Files
  <2>2. ASSUME NEW s \in snapshots, NEW t \in snapshots
        PROVE  s.holds[s.by] <= t.holds[s.by]
    <3>1. s.by \in Devices
      BY <1>2 DEF Files
    <3> QED BY <1>2, <3>1
  <2> QED BY <1>2, <1>3, <2>1, <2>2 DEF Sorted
<1>5. Made
  BY <1>2 DEF Made, Init, Files
<1>6. \A e \in Devices, s \in snapshots : CoveredBy(has[e], s.holds)
  BY <1>2 DEF Init, CoveredBy
<1>7. Recorded
  <2>1. \A e \in Devices : imported[e] \subseteq 1..written
    BY DEF Init, SetUp, Fresh
  <2> QED BY <1>6, <2>1 DEF Recorded, RecordedIn
<1>8. CyclesInv
  BY NothingToRely DEF CyclesInv, Init, Idle
<1>9. Held
  BY DEF Held, HeldIn, Init
<1> QED BY <1>1, <1>4, <1>5, <1>7, <1>8, <1>9 DEF ShareInv

LEMMA ShareNext == ShareInv /\ [Next]_vars => ShareInv'
<1> SUFFICES ASSUME ShareInv, [Next]_vars PROVE ShareInv'
  OBVIOUS
<1>1. ASSUME NEW d \in Devices, Begin(d) PROVE ShareInv'
  BY <1>1, BeginKeeps
<1>2. ASSUME NEW d \in Editors, Change(d) PROVE ShareInv'
  BY <1>2, ChangeKeeps, ExchangeAssumption
<1>3. ASSUME NEW d \in Editors, Command(d) PROVE ShareInv'
  BY <1>3, CommandKeeps
<1>4. ASSUME NEW c \in Cycles, Step(c) PROVE ShareInv'
  BY <1>4, LayoutKeeps, ListKeeps, ImportKeeps, WriteNamesKeeps, EndImportKeeps,
     StartSnapshotKeeps, EndSnapshotKeeps, ManifestKeeps, MarkKeeps, PruneAction DEF Step
<1>5. ASSUME NEW c \in Cycles, Fail(c) PROVE ShareInv'
  BY <1>5, FailKeeps
<1>6. CASE UNCHANGED vars
  BY <1>6 DEF vars, remote, ShareInv, Typed, Sorted, Made, Recorded, CyclesInv, Held
<1> QED BY <1>1, <1>2, <1>3, <1>4, <1>5, <1>6 DEF Next

\* A device that has imported everything has every change that its device has
\* marked as synced, until as many newer snapshots as a device keeps are cut
\* short or under way (mark_sync_exported, record_imported_snapshot and
\* prune_device_snapshots, remote_sync_service.rs:319-436, 720-733, 1057-1099).
THEOREM SharedIsThere == Spec => []SyncedIsShared
<1>1. ShareInv => SyncedIsShared
  <2> SUFFICES ASSUME ShareInv, NEW d \in Devices, NEW e \in Devices,
                      {s.no : s \in {t \in snapshots : t.whole}} \subseteq imported[e]
               PROVE  has[e][d] >= synced[d] \/ Cardinality(Cut(d, synced[d])) >= Keep
    BY DEF SyncedIsShared
  <2>1. HeldIn(snapshots, d, synced[d]) /\ synced[d] \in Nat /\ has[e][d] \in Nat
    BY DEF ShareInv, Held, Typed, Vector
  <2>2. CASE synced[d] = 0
    BY <2>1, <2>2
  <2>3. CASE \E s \in snapshots : s.by = d /\ s.whole /\ synced[d] <= s.holds[d]
    <3>1. PICK s \in snapshots : s.whole /\ synced[d] <= s.holds[d]
      BY <2>3
    <3>2. s.no \in imported[e]
      BY <3>1
    <3>3. s.holds[d] <= has[e][d] /\ s.holds[d] \in Nat
      BY <3>2 DEF ShareInv, Recorded, RecordedIn, CoveredBy, Sorted, Files
    <3> QED BY <2>1, <3>1, <3>3
  <2>4. CASE Cardinality(CutIn(snapshots, d, synced[d])) >= Keep
    BY <2>4 DEF Cut, CutIn
  <2> QED BY <2>1, <2>2, <2>3, <2>4 DEF HeldIn
<1> QED BY <1>1, ShareInit, ShareNext, PTL DEF Spec
=============================================================================
