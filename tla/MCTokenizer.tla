---------------------------- MODULE MCTokenizer ----------------------------
(***************************************************************************)
(* TLC instances of Tokenizer.                                             *)
(***************************************************************************)
EXTENDS Tokenizer, SequencesExt

CONSTANT MaxLength   \* bound: characters of a source

(* Every source over the classes; "a" differs from "n" only after a        *)
(* backslash, where "?" stands for it.                                     *)
MCSources == BoundedSeq(Class \ {"a"}, MaxLength)
=============================================================================
