----------------------- MODULE AdditiveHistoryProofs -----------------------
(***************************************************************************)
(* Proofs about check_module of the additive-only checker, for histories   *)
(* of any length, any symbols, types, versions and catalogs.               *)
(***************************************************************************)
EXTENDS AdditiveHistory, TLAPS

Data == INSTANCE DataProofs

(* Versions that succeed one another are sorted, so that the last one is   *)
(* the highest: what the choice of the adjacent prior rests on.            *)
Sorted ==
  \A i, j \in DOMAIN shipped :
    i < j => VersionLess(shipped[i].version, shipped[j].version)

NoRetyping ==
  \A i, j \in DOMAIN shipped :
    i < j => \A x \in Exported(shipped[i]) \cap Exported(shipped[j]) :
               \/ shipped[i].exports[x] = shipped[j].exports[x]
               \/ \E k \in (i + 1) .. (j - 1) : x \notin Exported(shipped[k])

(* A file that is not there has no entries.                                *)
NoFile == sidecar.text = "none" => sidecar.entries = << >>

IInv ==
  /\ TypeOK
  /\ NoFile
  /\ InOrder => Sorted
  /\ kept /\ InOrder => NothingVanishes /\ NoRetyping

-----------------------------------------------------------------------------
(* The versions of drafts are pairs of numbers, which VersionLess orders.  *)
LEMMA VersionOrder ==
  ASSUME NEW u \in Versions, NEW v \in Versions, NEW w \in Versions
  PROVE  /\ Succeeds(u, v) => VersionLess(u, v)
         /\ VersionLess(u, v) /\ VersionLess(v, w) => VersionLess(u, w)
         /\ VersionLess(u, v) => ~VersionLess(v, u)
         /\ ~VersionLess(u, u)
BY VersionsAssumption DEF Succeeds, VersionLess

(* Wherever it stands, the newest entry is the adjacent prior of a version *)
(* that succeeds it: max() of the code picks it (the first time it occurs) *)
(* and nothing else.                                                       *)
LEMMA NewestIsPrior ==
  ASSUME NEW d \in Drafts, NEW entries \in Seq(Drafts), NEW last \in ToSet(entries),
         \A e \in ToSet(entries) : e = last \/ VersionLess(e.version, last.version),
         Succeeds(last.version, d.version)
  PROVE  Against(d, entries) = Compare(d, last)
<1> DEFINE Places == {i \in DOMAIN entries : entries[i] = last}
<1>1. /\ Places # {} /\ Places \subseteq Nat
      /\ \A i \in DOMAIN entries : entries[i] \in ToSet(entries) /\ entries[i] \in Drafts
  BY DEF ToSet
<1>2. PICK n \in Places : \A i \in Places : n <= i
  BY <1>1, Data!LeastNumber
<1>3. /\ \A i \in DOMAIN entries : entries[i].version \in Versions
      /\ last.version \in Versions /\ d.version \in Versions
      /\ n \in DOMAIN entries /\ entries[n] = last
  BY <1>1, <1>2 DEF Drafts
<1>4. n \in AdjacentPriors(d, entries)
  BY <1>3, VersionsAssumption DEF AdjacentPriors, Succeeds
<1>5. \A j \in DOMAIN entries :
        j \in Places \/ VersionLess(entries[j].version, entries[n].version)
  BY <1>1, <1>3
<1>6. \A j \in DOMAIN entries : ~VersionLess(entries[n].version, entries[j].version)
  BY <1>3, <1>5, VersionOrder
<1>7. AdjacentPriors(d, entries) \subseteq DOMAIN entries /\ DOMAIN entries \subseteq Nat
  BY DEF AdjacentPriors
<1>8. \A j \in DOMAIN entries : j < n => VersionLess(entries[j].version, entries[n].version)
  BY <1>1, <1>2, <1>5, <1>7
<1>9. IsAdjacentPrior(d, entries, n)
  BY <1>4, <1>6, <1>7, <1>8 DEF IsAdjacentPrior
<1>10. ASSUME NEW i \in DOMAIN entries, IsAdjacentPrior(d, entries, i) PROVE i = n
  <2>1. /\ ~VersionLess(entries[i].version, entries[n].version)
        /\ n < i => VersionLess(entries[n].version, entries[i].version)
    BY <1>4, <1>10 DEF IsAdjacentPrior
  <2>2. i \in Places
    BY <1>5, <2>1
  <2>3. n <= i /\ ~(n < i)
    BY <1>2, <1>6, <2>1, <2>2
  <2>4. QED
    BY <1>1, <1>2, <1>7, <2>3
<1>11. (CHOOSE k \in DOMAIN entries : IsAdjacentPrior(d, entries, k)) = n
  BY <1>3, <1>9, <1>10
<1>12. QED
  BY <1>3, <1>4, <1>11 DEF Against

(* What an empty list of marads says of a draft and its prior version.     *)
LEMMA PassedCompare ==
  ASSUME NEW d \in Drafts, NEW p \in Drafts, Passed(Compare(d, p))
  PROVE  /\ \A x \in Exported(p) \ Exported(d) : Announces(d, x)
         /\ \A x \in Exported(p) \cap Exported(d) : d.exports[x] = p.exports[x]
<1>1. /\ Removed(d, p) = {} /\ FalseRenames(d) = {} /\ Retyped(d, p) = {}
  BY DEF Passed, Compare
<1>2. Undeclared(d, p) = {}
  BY <1>1 DEF Removed
<1>3. \A r \in d.catalog.renames : r[2] \in Exported(d)
  BY <1>1 DEF FalseRenames
<1>4. \A x \in Exported(p) \cap Exported(d) : d.exports[x] = p.exports[x]
  BY <1>1 DEF Retyped
<1>5. QED
  BY <1>2, <1>3, <1>4 DEF Undeclared, Declared, RenamedAway, Announces

(* A draft that passes in order, against a complete sidecar, was compared  *)
(* with the version shipped last.                                          *)
LEMMA ShippedAgainstLast ==
  ASSUME TypeOK, NoFile, Sorted, Complete, shipped # << >>,
         NEW d \in Drafts, Succeeds(shipped[Len(shipped)].version, d.version),
         sidecar.text = "parsed" \/ Passed(CheckModule(d))
  PROVE  CheckModule(d) = Compare(d, shipped[Len(shipped)])
<1> DEFINE n == Len(shipped)
           last == shipped[n]
<1>1. /\ shipped \in Seq(Drafts) /\ sidecar.entries \in Seq(Drafts)
      /\ n \in DOMAIN shipped /\ \A i \in DOMAIN shipped : i < n \/ i = n
  BY DEF TypeOK
<1>2. last \in ToSet(sidecar.entries)
  BY <1>1 DEF Complete, ToSet
<1>3. sidecar.entries # << >>
  BY <1>2 DEF ToSet
<1>4. sidecar.text = "parsed"
  <2>1. ASSUME sidecar.text \in {"unparsable", "unlexable"} PROVE ~Passed(CheckModule(d))
    <3>1. CheckModule(d).marads = {<<sidecar.text>>}
      BY <2>1 DEF CheckModule, Refused
    <3>2. QED
      BY <3>1 DEF Passed
  <2>2. QED
    BY <1>3, <2>1 DEF TypeOK, NoFile
<1>5. CheckModule(d) = Against(d, sidecar.entries)
  BY <1>3, <1>4 DEF CheckModule
<1>6. \A e \in ToSet(sidecar.entries) : e = last \/ VersionLess(e.version, last.version)
  <2>1. \A e \in ToSet(shipped) : e = last \/ VersionLess(e.version, last.version)
    BY <1>1 DEF Sorted, ToSet
  <2>2. QED
    BY <2>1 DEF Complete
<1>7. Against(d, sidecar.entries) = Compare(d, last)
  BY <1>1, <1>2, <1>6, NewestIsPrior
<1>8. QED
  BY <1>5, <1>7

-----------------------------------------------------------------------------
LEMMA InitHolds == Init => IInv
BY DEF Init, IInv, NoFile, TypeOK, InOrder, Sorted, NothingVanishes, NoRetyping

(* The author's handling of the sidecar touches no release.                *)
LEMMA SidecarKeepsInv ==
  ASSUME IInv, UNCHANGED <<shipped, kept>>, TypeOK', NoFile'
  PROVE  IInv'
BY DEF IInv, InOrder, Sorted, NothingVanishes, NoRetyping

LEMMA SidecarKeepsType ==
  ASSUME TypeOK, NoFile,
         \/ \E i \in DOMAIN shipped, place \in 1 .. (Len(sidecar.entries) + 1) : Record(i, place)
         \/ Repair \/ Lose
         \/ \E text \in {"unparsable", "unlexable"} : Damage(text)
  PROVE  TypeOK' /\ NoFile' /\ UNCHANGED <<shipped, kept>>
<1>1. ASSUME NEW i \in DOMAIN shipped, NEW place \in 1 .. (Len(sidecar.entries) + 1),
             Record(i, place)
      PROVE  TypeOK' /\ NoFile' /\ UNCHANGED <<shipped, kept>>
  <2>1. shipped[i] \in Drafts /\ sidecar.entries \in Seq(Drafts)
    BY DEF TypeOK
  <2>2. InsertAt(sidecar.entries, place, shipped[i]) \in Seq(Drafts)
    <3> DEFINE e == sidecar.entries
    <3>1. place \in Int /\ SubSeq(e, 1, place - 1) \in Seq(Drafts)
          /\ SubSeq(e, place, Len(e)) \in Seq(Drafts)
      BY <2>1
    <3>2. QED
      BY <2>1, <3>1 DEF InsertAt
  <2>3. /\ sidecar'.text = "parsed" /\ sidecar'.entries \in Seq(Drafts)
        /\ UNCHANGED <<shipped, kept>>
    BY <1>1, <2>2 DEF Record
  <2>4. QED
    BY <2>3 DEF TypeOK, NoFile
<1>2. CASE Repair
  <2>1. sidecar'.text = "parsed" /\ sidecar'.entries = sidecar.entries
    BY <1>2 DEF Repair, TypeOK
  <2>2. QED
    BY <1>2, <2>1 DEF Repair, TypeOK, NoFile
<1>3. CASE Lose
  BY <1>3 DEF Lose, TypeOK, NoFile
<1>4. ASSUME NEW text \in {"unparsable", "unlexable"}, Damage(text)
      PROVE  TypeOK' /\ NoFile' /\ UNCHANGED <<shipped, kept>>
  <2>1. sidecar'.text = text /\ sidecar'.entries = sidecar.entries
    BY <1>4 DEF Damage, TypeOK
  <2>2. QED
    BY <1>4, <2>1 DEF Damage, TypeOK, NoFile
<1>5. QED
  BY <1>1, <1>2, <1>3, <1>4

(* A release that is not the first: what is known of it and its            *)
(* predecessor when the author has followed the rules.                     *)
LEMMA ShipStep ==
  ASSUME IInv, NEW d \in Drafts, Ship(d)
  PROVE  /\ shipped \in Seq(Drafts) /\ shipped' \in Seq(Drafts)
         /\ Len(shipped') = Len(shipped) + 1
         /\ \A i \in DOMAIN shipped : shipped'[i] = shipped[i]
         /\ shipped'[Len(shipped) + 1] = d
         /\ InOrder' => InOrder
         /\ InOrder' /\ shipped # << >> =>
              Succeeds(shipped[Len(shipped)].version, d.version)
         /\ kept' /\ InOrder' /\ shipped # << >> =>
              Passed(Compare(d, shipped[Len(shipped)]))
<1> DEFINE n == Len(shipped)
<1>1. shipped \in Seq(Drafts) /\ shipped' = Append(shipped, d) /\ n \in Nat
  BY DEF IInv, TypeOK, Ship
<1>2. /\ shipped' \in Seq(Drafts) /\ Len(shipped') = n + 1
      /\ \A i \in DOMAIN shipped : shipped'[i] = shipped[i]
      /\ shipped'[n + 1] = d
  BY <1>1
<1>3. InOrder' => InOrder
  BY <1>1, <1>2 DEF InOrder
<1>4. InOrder' /\ shipped # << >> => Succeeds(shipped[n].version, d.version)
  <2> SUFFICES ASSUME InOrder', shipped # << >>
               PROVE  Succeeds(shipped[n].version, d.version)
    OBVIOUS
  <2>1. n \in 1 .. (Len(shipped') - 1) /\ n \in DOMAIN shipped
    BY <1>1, <1>2
  <2>2. Succeeds(shipped'[n].version, shipped'[n + 1].version)
    BY <2>1 DEF InOrder
  <2>3. QED
    BY <1>2, <2>1, <2>2
<1>5. kept' /\ InOrder' /\ shipped # << >> => Passed(Compare(d, shipped[n]))
  BY <1>3, <1>4, ShippedAgainstLast DEF IInv, Ship
<1>6. QED
  BY <1>1, <1>2, <1>3, <1>4, <1>5

LEMMA ShipKeepsSorted ==
  ASSUME IInv, NEW d \in Drafts, Ship(d), InOrder'
  PROVE  Sorted'
<1> DEFINE n == Len(shipped)
<1>1. InOrder /\ Sorted
  BY ShipStep DEF IInv
<1>2. \A i \in DOMAIN shipped : shipped[i].version \in Versions
  <2>1. \A i \in DOMAIN shipped : shipped[i] \in Drafts
    BY ShipStep
  <2>2. QED
    BY <2>1 DEF Drafts
<1>3. ASSUME NEW i \in DOMAIN shipped
      PROVE  VersionLess(shipped[i].version, d.version)
  <2>1. n \in DOMAIN shipped /\ shipped # << >> /\ (i < n \/ i = n)
    BY ShipStep
  <2>2. VersionLess(shipped[n].version, d.version)
    BY <1>2, <2>1, ShipStep, VersionOrder DEF Drafts
  <2>3. i < n => VersionLess(shipped[i].version, shipped[n].version)
    BY <1>1, <2>1 DEF Sorted
  <2>4. QED
    BY <1>2, <2>1, <2>2, <2>3, VersionOrder DEF Drafts
<1>4. SUFFICES ASSUME NEW i \in DOMAIN shipped', NEW j \in DOMAIN shipped', i < j
               PROVE  VersionLess(shipped'[i].version, shipped'[j].version)
  BY DEF Sorted
<1>5. i \in DOMAIN shipped /\ (j \in DOMAIN shipped \/ j = n + 1)
  <2>1. DOMAIN shipped = 1 .. n /\ DOMAIN shipped' = 1 .. (n + 1) /\ n \in Nat
    BY ShipStep
  <2>2. QED
    BY <1>4, <2>1
<1>6. CASE j = n + 1
  BY <1>3, <1>5, <1>6, ShipStep
<1>7. CASE j \in DOMAIN shipped
  BY <1>1, <1>4, <1>5, <1>7, ShipStep DEF Sorted
<1>8. QED
  BY <1>5, <1>6, <1>7

LEMMA ShipKeepsSurface ==
  ASSUME IInv, NEW d \in Drafts, Ship(d), kept', InOrder'
  PROVE  NothingVanishes'
<1> DEFINE n == Len(shipped)
<1>1. NothingVanishes
  BY ShipStep DEF IInv, Ship
<1>2. DOMAIN shipped = 1 .. n /\ DOMAIN shipped' = 1 .. (n + 1) /\ n \in Nat
  BY ShipStep
<1>3. SUFFICES ASSUME NEW i \in DOMAIN shipped', NEW j \in DOMAIN shipped', i < j,
                      NEW x \in Exported(shipped'[i]) \ Exported(shipped'[j])
               PROVE  \E k \in (i + 1) .. j : Announces(shipped'[k], x)
  BY DEF NothingVanishes
<1>4. i \in 1 .. n /\ shipped # << >> /\ shipped'[i] = shipped[i]
  BY <1>2, <1>3, ShipStep
<1>5. \A y \in Exported(shipped[n]) \ Exported(d) : Announces(d, y)
  <2>1. shipped[n] \in Drafts
    BY <1>2, <1>4, ShipStep
  <2>2. QED
    BY <1>4, <2>1, ShipStep, PassedCompare
<1>6. ASSUME NEW m \in 1 .. n, i < m, x \notin Exported(shipped[m])
      PROVE  \E k \in (i + 1) .. m : Announces(shipped'[k], x)
  <2>1. PICK k \in (i + 1) .. m : Announces(shipped[k], x)
    BY <1>1, <1>2, <1>3, <1>4, <1>6 DEF NothingVanishes
  <2>2. shipped'[k] = shipped[k]
    BY <1>2, <1>4, <2>1, ShipStep
  <2>3. QED
    BY <2>1, <2>2
<1>7. CASE j \in 1 .. n
  BY <1>2, <1>3, <1>6, <1>7, ShipStep
<1>8. CASE j = n + 1 /\ x \in Exported(shipped[n])
  <2>1. Announces(shipped'[n + 1], x)
    BY <1>3, <1>5, <1>8, ShipStep
  <2>2. QED
    BY <1>2, <1>3, <1>4, <1>8, <2>1
<1>9. CASE j = n + 1 /\ x \notin Exported(shipped[n])
  <2>1. i < n
    BY <1>2, <1>3, <1>4, <1>9
  <2>2. PICK k \in (i + 1) .. n : Announces(shipped'[k], x)
    BY <1>2, <1>6, <1>9, <2>1
  <2>3. QED
    BY <1>2, <1>4, <1>9, <2>2
<1>10. QED
  BY <1>2, <1>3, <1>7, <1>8, <1>9

LEMMA ShipKeepsTypes ==
  ASSUME IInv, NEW d \in Drafts, Ship(d), kept', InOrder'
  PROVE  NoRetyping'
<1> DEFINE n == Len(shipped)
<1>1. NoRetyping
  BY ShipStep DEF IInv, Ship
<1>2. DOMAIN shipped = 1 .. n /\ DOMAIN shipped' = 1 .. (n + 1) /\ n \in Nat
  BY ShipStep
<1>3. SUFFICES ASSUME NEW i \in DOMAIN shipped', NEW j \in DOMAIN shipped', i < j,
                      NEW x \in Exported(shipped'[i]) \cap Exported(shipped'[j]),
                      \A k \in (i + 1) .. (j - 1) : x \in Exported(shipped'[k])
               PROVE  shipped'[i].exports[x] = shipped'[j].exports[x]
  BY DEF NoRetyping
<1>4. i \in 1 .. n /\ shipped # << >> /\ shipped'[i] = shipped[i]
  BY <1>2, <1>3, ShipStep
<1>5. \A y \in Exported(shipped[n]) \cap Exported(d) : d.exports[y] = shipped[n].exports[y]
  <2>1. shipped[n] \in Drafts
    BY <1>2, <1>4, ShipStep
  <2>2. QED
    BY <1>4, <2>1, ShipStep, PassedCompare
<1>6. ASSUME NEW m \in 1 .. n, i < m, m <= j, x \in Exported(shipped[m])
      PROVE  shipped[i].exports[x] = shipped[m].exports[x]
  <2>1. \A k \in (i + 1) .. (m - 1) : x \in Exported(shipped[k])
    <3>1. \A k \in (i + 1) .. (m - 1) : k \in (i + 1) .. (j - 1) /\ shipped'[k] = shipped[k]
      BY <1>2, <1>3, <1>4, <1>6, ShipStep
    <3>2. QED
      BY <1>3, <3>1
  <2>2. QED
    BY <1>1, <1>2, <1>3, <1>4, <1>6, <2>1 DEF NoRetyping
<1>7. CASE j \in 1 .. n
  <2>1. shipped'[j] = shipped[j]
    BY <1>2, <1>7, ShipStep
  <2>2. QED
    BY <1>3, <1>4, <1>6, <1>7, <2>1
<1>8. CASE j = n + 1
  <2>1. shipped'[j] = d /\ shipped'[n] = shipped[n]
    BY <1>2, <1>4, <1>8, ShipStep
  <2>2. x \in Exported(shipped[n])
    <3>1. i = n \/ n \in (i + 1) .. (j - 1)
      BY <1>2, <1>4, <1>8
    <3>2. QED
      BY <1>3, <1>4, <2>1, <3>1
  <2>3. shipped[n].exports[x] = d.exports[x]
    BY <1>3, <1>5, <2>1, <2>2
  <2>4. i = n \/ shipped[i].exports[x] = shipped[n].exports[x]
    <3>1. i < n => shipped[i].exports[x] = shipped[n].exports[x]
      BY <1>2, <1>4, <1>6, <1>8, <2>2
    <3>2. QED
      BY <1>2, <1>4, <3>1
  <2>5. QED
    BY <1>4, <2>1, <2>3, <2>4
<1>9. QED
  BY <1>2, <1>3, <1>7, <1>8

(* The inductive invariant of a history.                                   *)
THEOREM Invariance == Spec => []IInv
<1>1. ASSUME IInv, NEW d \in Drafts, Ship(d) PROVE IInv'
  <2>1. TypeOK' /\ NoFile'
    BY <1>1, ShipStep DEF IInv, TypeOK, NoFile, Ship
  <2>2. QED
    BY <1>1, <2>1, ShipKeepsSorted, ShipKeepsSurface, ShipKeepsTypes DEF IInv
<1>2. ASSUME IInv, UNCHANGED vars PROVE IInv'
  <2>1. TypeOK' /\ NoFile'
    BY <1>2 DEF IInv, TypeOK, NoFile, vars
  <2>2. QED
    BY <1>2, <2>1, SidecarKeepsInv DEF vars
<1>3. IInv /\ [Next]_vars => IInv'
  BY <1>1, <1>2, SidecarKeepsType, SidecarKeepsInv DEF Next, IInv
<1>4. QED
  BY <1>3, InitHolds, PTL DEF Spec

-----------------------------------------------------------------------------
(* The sidecar and the releases keep their shape.                          *)
THEOREM TypeCorrect == Spec => []TypeOK
<1>1. IInv => TypeOK
  BY DEF IInv
<1>2. QED
  BY <1>1, Invariance, PTL

(* However long the history: when each release succeeds the one before and *)
(* was checked against a sidecar that held them all, whatever their order  *)
(* there, no exported symbol ever vanishes without a release that          *)
(* announced it.                                                           *)
THEOREM NoSilentLossHolds == Spec => []NoSilentLoss
<1>1. IInv => NoSilentLoss
  BY DEF IInv, NoSilentLoss
<1>2. QED
  BY <1>1, Invariance, PTL

(* Under the same conditions a symbol changes its type only by being       *)
(* absent from some release in between.                                    *)
THEOREM RetypedOnlyAfterAbsenceHolds == Spec => []RetypedOnlyAfterAbsence
<1>1. IInv => RetypedOnlyAfterAbsence
  BY DEF IInv, NoRetyping, RetypedOnlyAfterAbsence
<1>2. QED
  BY <1>1, Invariance, PTL

(* check_module passes a next version that only grows, whatever the older  *)
(* versions in the sidecar and wherever they stand: the newest of them is  *)
(* what it is compared with.                                               *)
THEOREM GrowthAcceptedHolds == Spec => []GrowthAccepted
<1>1. IInv => GrowthAccepted
  <2> SUFFICES ASSUME IInv, shipped # << >>, Complete, sidecar.text = "parsed", InOrder,
                      NEW d \in Drafts,
                      Succeeds(shipped[Len(shipped)].version, d.version),
                      Declared(d) = {},
                      Exported(shipped[Len(shipped)]) \subseteq Exported(d),
                      \A x \in Exported(shipped[Len(shipped)]) :
                        d.exports[x] = shipped[Len(shipped)].exports[x]
               PROVE  CheckModule(d) = Clean
    BY DEF GrowthAccepted
  <2> DEFINE last == shipped[Len(shipped)]
  <2>1. CheckModule(d) = Compare(d, last)
    BY ShippedAgainstLast DEF IInv
  <2>2. d.catalog.removes = {} /\ d.catalog.renames = {}
    BY DEF Declared, RenamedAway
  <2>3. Undeclared(d, last) = {}
    BY DEF Undeclared
  <2>4. /\ Removed(d, last) = {} /\ FalseRenames(d) = {}
        /\ Retyped(d, last) = {} /\ FalseRemovals(d) = {}
    BY <2>2, <2>3 DEF Removed, FalseRenames, Retyped, FalseRemovals
  <2>5. Hints(d, last) = {}
    BY <2>3 DEF Hints
  <2>6. QED
    BY <2>1, <2>4, <2>5 DEF Compare, Clean
<1>2. QED
  BY <1>1, Invariance, PTL
=============================================================================
