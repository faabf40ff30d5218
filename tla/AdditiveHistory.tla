-------------------------- MODULE AdditiveHistory --------------------------
(***************************************************************************)
(* checker/additive.py: the successive versions of one additive_only       *)
(* module.  A version is checked against the sidecar, the file that holds  *)
(* the declarations of the earlier versions; a version the check lets pass *)
(* is shipped.  The code never writes the sidecar: its author records the  *)
(* shipped versions there, in any order, may forget one, may damage or     *)
(* lose the file.                                                          *)
(*                                                                         *)
(* The checker keeps the exports, removes and entries of a declaration in  *)
(* dicts and sets keyed by name, so a declaration is a function from its   *)
(* exported symbols to their types, a set of removed symbols and a set of  *)
(* <<old, new>> renames.                                                   *)
(***************************************************************************)
EXTENDS Naturals, Sequences, FiniteSets, SequencesExt

CONSTANTS Symbol, Type,
          Versions,      \* versions a draft may bear, each [major, minor]
          Catalogs,      \* major_version_bump catalogs, each [removes, renames]
          MaxReleases    \* bound: versions shipped in a history

ASSUME VersionsAssumption == Versions \subseteq [major : Nat, minor : Nat]

Surfaces == UNION {[S -> Type] : S \in SUBSET Symbol}

Drafts == [version : Versions, exports : Surfaces, catalog : Catalogs]

VARIABLES shipped,   \* sequence of the shipped versions, oldest first
          sidecar,   \* [text, entries]: what parse() makes of the file
          kept       \* every check so far saw all the shipped versions

vars == <<shipped, sidecar, kept>>

Passed(r) == r.marads = {}

-----------------------------------------------------------------------------
(* Resolution of the adjacent prior version.                               *)

VersionLess(v, w) ==
  v.major < w.major \/ (v.major = w.major /\ v.minor < w.minor)

(* Faulty variant of AdjacentPriors: a new major must start from minor 0.  *)
StrictlyAdjacent(d, entries) ==
  {i \in DOMAIN entries :
     LET p == entries[i].version
         c == d.version
     IN  \/ p.major = c.major /\ p.minor + 1 = c.minor
         \/ p.major + 1 = c.major /\ c.minor = 0}

AdjacentPriors(d, entries) ==
  {i \in DOMAIN entries :
     LET p == entries[i].version
         c == d.version
     IN  \/ p.major = c.major /\ p.minor + 1 = c.minor
         \/ p.major + 1 = c.major}

(* Faulty variant of IsAdjacentPrior: the file is taken to be in order.    *)
LastAdjacentPrior(d, entries, i) ==
  /\ i \in AdjacentPriors(d, entries)
  /\ \A j \in AdjacentPriors(d, entries) : j <= i

(* max() keeps the first of the entries that share the highest version.    *)
IsAdjacentPrior(d, entries, i) ==
  /\ i \in AdjacentPriors(d, entries)
  /\ \A j \in AdjacentPriors(d, entries) :
       /\ ~VersionLess(entries[i].version, entries[j].version)
       /\ j < i => VersionLess(entries[j].version, entries[i].version)

-----------------------------------------------------------------------------
(* The four cases, of a draft d against its prior version p.  A marad is a *)
(* pair of its case and the symbol it is about.                            *)

Exported(d) == DOMAIN d.exports
RenamedAway(d) == {r[1] : r \in d.catalog.renames}
RenamedTo(d) == {r[2] : r \in d.catalog.renames}

(* The names whose disappearance the catalog announces.                    *)
Declared(d) == d.catalog.removes \cup RenamedAway(d)

Undeclared(d, p) == (Exported(p) \ Exported(d)) \ Declared(d)

Removed(d, p) == {<<"removed", x>> : x \in Undeclared(d, p)}

FalseRenames(d) ==
  {<<"renamed", r[1]>> :
     r \in {e \in d.catalog.renames :
              e[1] \in Exported(d) \/ e[2] \notin Exported(d)}}

(* Faulty variant of Retyped: the target of a rename may change its type.  *)
RetypedUnlessRenamed(d, p) ==
  {<<"retyped", x>> :
     x \in {y \in Exported(d) \cap Exported(p) :
              y \notin RenamedTo(d) /\ d.exports[y] # p.exports[y]}}

Retyped(d, p) ==
  {<<"retyped", x>> :
     x \in {y \in Exported(d) \cap Exported(p) : d.exports[y] # p.exports[y]}}

FalseRemovals(d) ==
  {<<"dishonest", x>> : x \in d.catalog.removes \cap Exported(d)}

Added(d, p) == (Exported(d) \ Exported(p)) \ RenamedTo(d)

(* The rename hint: exactly one name went and one of the same type came.   *)
Hints(d, p) ==
  {h \in Undeclared(d, p) \X Added(d, p) :
     /\ Undeclared(d, p) = {h[1]}
     /\ Added(d, p) = {h[2]}
     /\ p.exports[h[1]] = d.exports[h[2]]}

Compare(d, p) ==
  [marads |-> Removed(d, p) \cup FalseRenames(d) \cup Retyped(d, p) \cup FalseRemovals(d),
   advisories |-> Hints(d, p)]

-----------------------------------------------------------------------------
(* check_module.                                                           *)

Clean == [marads |-> {}, advisories |-> {}]
Refused(kind) == [marads |-> {<<kind>>}, advisories |-> {}]

Against(d, entries) ==
  IF AdjacentPriors(d, entries) = {}
    THEN Refused("gap")
    ELSE LET i == CHOOSE k \in DOMAIN entries : IsAdjacentPrior(d, entries, k)
         IN  Compare(d, entries[i])

(* Faulty variant of CheckModule: what cannot be read is no history.       *)
CheckReadable(d) ==
  IF sidecar.text = "parsed" /\ sidecar.entries # << >>
    THEN Against(d, sidecar.entries)
    ELSE Clean

CheckModule(d) ==
  CASE sidecar.text = "none"        -> Clean
    [] sidecar.text = "unparsable"  -> Refused("unparsable")
    [] sidecar.text = "unlexable"   -> Refused("unlexable")
    [] sidecar.text = "parsed" /\ sidecar.entries = << >> -> Clean
    [] OTHER                        -> Against(d, sidecar.entries)

(* The sidecar holds every shipped version, in whatever order; it may be   *)
(* damaged.                                                                *)
Complete == ToSet(sidecar.entries) = ToSet(shipped)

-----------------------------------------------------------------------------
Init ==
  /\ shipped = << >>
  /\ sidecar = [text |-> "none", entries |-> << >>]
  /\ kept = TRUE

(* check_module_strict returns: the draft is shipped.  Where it raises,    *)
(* nothing changes.                                                        *)
Ship(d) ==
  /\ Len(shipped) < MaxReleases
  /\ Passed(CheckModule(d))
  /\ shipped' = Append(shipped, d)
  /\ kept' = (kept /\ Complete)
  /\ UNCHANGED sidecar

(* What the author does to the sidecar.                                    *)
(* Faulty variant of Record: only version and exports are recorded.        *)
RecordSurface(i, place) ==
  /\ sidecar.text \in {"none", "parsed"}
  /\ sidecar' = [text |-> "parsed",
                 entries |-> InsertAt(sidecar.entries, place,
                   [version |-> shipped[i].version, exports |-> shipped[i].exports])]
  /\ UNCHANGED <<shipped, kept>>

(* A shipped version is written down at any place of the file.             *)
Record(i, place) ==
  /\ sidecar.text \in {"none", "parsed"}
  /\ shipped[i] \notin ToSet(sidecar.entries)
  /\ sidecar' = [text |-> "parsed",
                 entries |-> InsertAt(sidecar.entries, place, shipped[i])]
  /\ UNCHANGED <<shipped, kept>>

Damage(text) ==
  /\ sidecar.text = "parsed"
  /\ text \in {"unparsable", "unlexable"}
  /\ sidecar' = [sidecar EXCEPT !.text = text]
  /\ UNCHANGED <<shipped, kept>>

Repair ==
  /\ sidecar.text \in {"unparsable", "unlexable"}
  /\ sidecar' = [sidecar EXCEPT !.text = "parsed"]
  /\ UNCHANGED <<shipped, kept>>

Lose ==
  /\ sidecar.text # "none"
  /\ sidecar' = [text |-> "none", entries |-> << >>]
  /\ UNCHANGED <<shipped, kept>>

Next ==
  \/ \E d \in Drafts : Ship(d)
  \/ \E i \in DOMAIN shipped, place \in 1 .. (Len(sidecar.entries) + 1) : Record(i, place)
  \/ \E text \in {"unparsable", "unlexable"} : Damage(text)
  \/ Repair
  \/ Lose

Spec == Init /\ [][Next]_vars

-----------------------------------------------------------------------------
TypeOK ==
  /\ shipped \in Seq(Drafts)
  /\ sidecar.text \in {"none", "parsed", "unparsable", "unlexable"}
  /\ sidecar.entries \in Seq(Drafts)
  /\ kept \in BOOLEAN

(* w may be the first release after v: the next minor or any of the next   *)
(* major.                                                                  *)
Succeeds(v, w) ==
  (w.major = v.major /\ w.minor = v.minor + 1) \/ w.major = v.major + 1

InOrder ==
  \A k \in 1 .. (Len(shipped) - 1) : Succeeds(shipped[k].version, shipped[k+1].version)

Ascending ==
  \A k \in 1 .. (Len(shipped) - 1) : VersionLess(shipped[k].version, shipped[k+1].version)

(* Release d announces that x goes: removed, or renamed to a live symbol.  *)
Announces(d, x) ==
  \/ x \in d.catalog.removes
  \/ \E r \in d.catalog.renames : r[1] = x /\ r[2] \in Exported(d)

NothingVanishes ==
  \A i, j \in DOMAIN shipped :
    i < j => \A x \in Exported(shipped[i]) \ Exported(shipped[j]) :
               \E k \in (i + 1) .. j : Announces(shipped[k], x)

(* "public surface must not silently shrink": when the versions were       *)
(* shipped one after the other and each was checked against a sidecar that *)
(* held all of its predecessors, in any order, a symbol once exported is   *)
(* there for good or some later version announced that it goes.  A damaged *)
(* sidecar in between lets no loss through either.                         *)
NoSilentLoss == kept /\ InOrder => NothingVanishes

(* Case 3 over a whole history: a symbol can change its type only by being *)
(* absent from a version in between.                                       *)
RetypedOnlyAfterAbsence ==
  kept /\ InOrder =>
    \A i, j \in DOMAIN shipped :
      i < j => \A x \in Exported(shipped[i]) \cap Exported(shipped[j]) :
                 \/ shipped[i].exports[x] = shipped[j].exports[x]
                 \/ \E k \in (i + 1) .. (j - 1) : x \notin Exported(shipped[k])

(* No false alarm: a next version that keeps the last one's symbols and    *)
(* types and whose catalog is empty passes, however the older versions     *)
(* differ from it and in whatever order the sidecar lists them.            *)
GrowthAccepted ==
  shipped # << >> /\ Complete /\ sidecar.text = "parsed" /\ InOrder =>
    \A d \in Drafts :
      LET last == shipped[Len(shipped)]
      IN  /\ Succeeds(last.version, d.version)
          /\ Declared(d) = {}
          /\ Exported(last) \subseteq Exported(d)
          /\ \A x \in Exported(last) : d.exports[x] = last.exports[x]
          => CheckModule(d) = Clean

(* docs/internals/CHECKER.md, section 5: the adjacency rule "exists to     *)
(* prevent skipping intermediate-version evidence".                        *)
GapsAreRefused == kept /\ Ascending => NothingVanishes

=============================================================================
