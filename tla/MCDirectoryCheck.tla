-------------------------- MODULE MCDirectoryCheck --------------------------
(***************************************************************************)
(* TLC instances of DirectoryCheck.  Module n declares the one type n; the *)
(* name 9 stands for a module that is not in the directory, 0 for          *)
(* "__graph__".                                                            *)
(***************************************************************************)
EXTENDS DirectoryCheck

CONSTANTS Present,    \* the names of the modules files may hold
          MaxDeps     \* entries of a dependency list

Missing == 9
MCName == Present \cup {Missing}

Module(n, blocks, refs, other) ==
  [fault |-> "none", name |-> n, blocks |-> blocks, types |-> {n},
   functions |-> refs # {}, refs |-> refs, other |-> other]

Faults == {[fault |-> "parse"], [fault |-> "decode"]}

(* A module's functions name the type of module 1 or none.                 *)
SmallRefs == {{}, {1}}

(* No block, or one that repeats nothing.                                  *)
SimpleBlocks ==
  {<< >>} \cup
  {<<s>> : s \in {s \in BoundedSeq(MCName, MaxDeps) \ {<< >>} :
                    \A i, j \in DOMAIN s : i < j => s[i] < s[j]}}

SimpleContents ==
  {Module(n, blocks, refs, "none") : n \in Present, blocks \in SimpleBlocks, refs \in SmallRefs}

(* A module without types, and without functions or with one whose         *)
(* signature names no type.                                                *)
EmptyModule ==
  [fault |-> "none", name |-> 1, blocks |-> << >>, types |-> {},
   functions |-> FALSE, refs |-> {}, other |-> "none"]

(* Files at fault, modules with findings of their own, and a module 1 that *)
(* names a dependency twice, in one block or in two, has an empty block or *)
(* declares nothing.                                                       *)
OddBlocks == { << <<2, 2>> >>, << <<2>>, <<2>> >>, << << >> >>}

OddContents ==
  Faults
  \cup {Module(1, blocks, {1}, "none") : blocks \in OddBlocks}
  \cup {Module(2, << >>, {2}, other) : other \in {"advisory", "marad"}}
  \cup {EmptyModule, [EmptyModule EXCEPT !.functions = TRUE]}

MCContents == SimpleContents \cup OddContents
=============================================================================
