----------------------------- MODULE DataProofs -----------------------------
(***************************************************************************)
(* What the proofs about the machines need of data, without a state:       *)
(* induction over the natural numbers, stated of a set, and recursion over *)
(* a set whose elements have a rank, stated of a function on functions;    *)
(* sequences of anything and their concatenation; the members of a set of  *)
(* numbers in order; and what the checkers of DeclarationChecks find, for  *)
(* every declaration.                                                      *)
(***************************************************************************)
EXTENDS DeclarationChecks, WellFoundedInduction, FiniteSetTheorems,
        SequenceTheorems, TLAPS

LEMMA LeastNumber ==
  ASSUME NEW S \in SUBSET Nat, S # {}
  PROVE  \E n \in S : \A m \in S : n <= m
<1>1. IsWellFoundedOn(OpToRel(<, Nat), Nat)
  BY NatLessThanWellFounded
<1>2. PICK n \in S : \A m \in S : ~(<<m, n>> \in OpToRel(<, Nat))
  BY <1>1, WFMin
<1>3. \A m \in S : ~(m < n)
  BY <1>2 DEF OpToRel
<1>4. QED
  BY <1>3

LEMMA SetInduction ==
  ASSUME NEW S, 0 \in S, \A n \in Nat : n \in S => n + 1 \in S
  PROVE  Nat \subseteq S
<1>1. SUFFICES ASSUME Nat \ S # {} PROVE FALSE
  OBVIOUS
<1>2. PICK n \in Nat \ S : \A m \in Nat \ S : n <= m
  BY <1>1, LeastNumber
<1>3. n # 0 /\ n - 1 \in Nat /\ (n - 1) + 1 = n
  BY <1>2
<1>4. n - 1 \in S
  BY <1>2, <1>3
<1>5. QED
  BY <1>2, <1>3, <1>4

(* Step makes of a function f one whose value at b depends on what f is at *)
(* elements of lower rank only.                                            *)
LooksDown(Step, B, V, rank) ==
  /\ rank \in [B -> Nat]
  /\ [B -> V] # {}
  /\ Step \in [[B -> V] -> [B -> V]]
  /\ \A f, g \in [B -> V] : \A b \in B :
       (\A c \in B : rank[c] < rank[b] => f[c] = g[c]) => Step[f][b] = Step[g][b]

(* Such a step has a fixed point: a recursive function exists.             *)
LEMMA RankRecursion ==
  ASSUME NEW Step, NEW B, NEW V, NEW rank, LooksDown(Step, B, V, rank)
  PROVE  \E f \in [B -> V] : Step[f] = f
<1> USE DEF LooksDown
<1> DEFINE Good(n) == {f \in [B -> V] : \A b \in B : rank[b] < n => Step[f][b] = f[b]}
<1>1. \A n \in Nat : Good(n) # {}
  <2> DEFINE S == {n \in Nat : Good(n) # {}}
  <2>1. 0 \in S
    <3>1. \A b \in B : ~(rank[b] < 0)
      OBVIOUS
    <3>2. QED
      BY <3>1
  <2>2. ASSUME NEW n \in Nat, n \in S PROVE n + 1 \in S
    <3>1. PICK f \in [B -> V] : \A b \in B : rank[b] < n => Step[f][b] = f[b]
      BY <2>2
    <3> DEFINE g == Step[f]
    <3>2. g \in [B -> V]
      OBVIOUS
    <3>3. ASSUME NEW b \in B, rank[b] < n + 1 PROVE Step[g][b] = g[b]
      <4>1. \A c \in B : rank[c] < rank[b] => rank[c] < n
        BY <3>3
      <4>2. \A c \in B : rank[c] < rank[b] => g[c] = f[c]
        BY <3>1, <4>1
      <4>3. QED
        BY <3>2, <4>2
    <3>4. g \in Good(n + 1)
      BY <3>2, <3>3
    <3>5. QED
      BY <3>4
  <2> HIDE DEF S
  <2>3. Nat \subseteq S
    BY <2>1, <2>2, SetInduction
  <2>4. QED
    BY <2>3 DEF S
<1>2. \A n \in Nat : \A f, g \in Good(n) : \A b \in B : rank[b] < n => f[b] = g[b]
  <2> DEFINE S == {n \in Nat : \A f, g \in Good(n) : \A b \in B : rank[b] < n => f[b] = g[b]}
  <2>1. 0 \in S
    <3>1. \A b \in B : ~(rank[b] < 0)
      OBVIOUS
    <3>2. QED
      BY <3>1
  <2>2. ASSUME NEW n \in Nat, n \in S PROVE n + 1 \in S
    <3>1. ASSUME NEW f \in Good(n + 1), NEW g \in Good(n + 1), NEW b \in B, rank[b] < n + 1
          PROVE  f[b] = g[b]
      <4>1. f \in Good(n) /\ g \in Good(n)
        <5>1. \A c \in B : rank[c] < n => rank[c] < n + 1
          OBVIOUS
        <5>2. QED
          BY <5>1
      <4>2. \A c \in B : rank[c] < rank[b] => rank[c] < n
        BY <3>1
      <4>3. \A c \in B : rank[c] < rank[b] => f[c] = g[c]
        BY <2>2, <4>1, <4>2
      <4>4. Step[f][b] = Step[g][b]
        BY <4>3
      <4>5. QED
        BY <3>1, <4>4
    <3> HIDE DEF Good
    <3>2. QED
      BY <3>1
  <2> HIDE DEF S
  <2>3. Nat \subseteq S
    BY <2>1, <2>2, SetInduction
  <2>4. QED
    BY <2>3 DEF S
<1> DEFINE Pick(b) == CHOOSE f \in [B -> V] : f \in Good(rank[b] + 1)
           h == [b \in B |-> Pick(b)[b]]
<1>3. ASSUME NEW b \in B
      PROVE  /\ Pick(b) \in Good(rank[b] + 1) /\ Pick(b) \in [B -> V]
             /\ h[b] = Pick(b)[b] /\ rank[b] < rank[b] + 1
  <2>1. \E f \in [B -> V] : f \in Good(rank[b] + 1)
    BY <1>1
  <2> HIDE DEF Good
  <2>2. QED
    BY <2>1
<1>4. h \in [B -> V]
  <2> HIDE DEF Pick, Good
  <2>1. QED
    BY <1>3
<1>5. ASSUME NEW b \in B PROVE Step[h][b] = h[b]
  <2>1. ASSUME NEW c \in B, rank[c] < rank[b] PROVE h[c] = Pick(b)[c]
    <3>1. Pick(b) \in Good(rank[c] + 1)
      <4>1. \A d \in B : rank[d] < rank[c] + 1 => rank[d] < rank[b] + 1
        BY <2>1
      <4>2. QED
        BY <1>3, <4>1
    <3>2. h[c] = Pick(c)[c] /\ Pick(c) \in Good(rank[c] + 1) /\ rank[c] < rank[c] + 1
      BY <1>3
    <3> HIDE DEF Pick, Good, h
    <3>3. QED
      BY <1>2, <3>1, <3>2
  <2>2. Step[Pick(b)][b] = Pick(b)[b]
    BY <1>3
  <2> HIDE DEF Pick, Good, h
  <2>3. Step[h][b] = Step[Pick(b)][b]
    BY <1>3, <1>4, <2>1
  <2>4. QED
    BY <1>3, <2>2, <2>3
<1>6. Step[h] = h
  <2> HIDE DEF h
  <2>1. Step[h] \in [B -> V]
    BY <1>4
  <2>2. QED
    BY <1>4, <1>5, <2>1
<1>7. QED
  BY <1>4, <1>6
-----------------------------------------------------------------------------
(* Sequences of anything.                                                  *)
IsSeq(s) == \E S : s \in Seq(S)
Held(s) == {s[i] : i \in DOMAIN s}

LEMMA SeqShape ==
  ASSUME NEW s, IsSeq(s)
  PROVE  /\ Len(s) \in Nat /\ DOMAIN s = 1 .. Len(s)
         /\ s = << >> <=> Len(s) = 0
BY EmptySeq DEF IsSeq

LEMMA SeqMade ==
  ASSUME NEW n \in Nat, NEW s, DOMAIN s = 1 .. n, s = [i \in DOMAIN s |-> s[i]]
  PROVE  IsSeq(s) /\ Len(s) = n
<1> DEFINE S == {s[i] : i \in 1 .. n}
<1>1. \A i \in 1 .. n : s[i] \in S
  OBVIOUS
<1> HIDE DEF S
<1>2. s \in [1 .. n -> S]
  BY <1>1
<1>3. s \in Seq(S) /\ Len(s) = n
  BY <1>2
<1>4. QED
  BY <1>3 DEF IsSeq

LEMMA TwoSeqs ==
  ASSUME NEW s, NEW t, IsSeq(s), IsSeq(t)
  PROVE  \E S : s \in Seq(S) /\ t \in Seq(S)
<1>1. PICK S : s \in Seq(S)
  BY DEF IsSeq
<1>2. PICK T : t \in Seq(T)
  BY DEF IsSeq
<1>3. s \in Seq(S \cup T) /\ t \in Seq(S \cup T)
  BY <1>1, <1>2, SeqMonotonic
<1>4. QED
  BY <1>3

LEMMA SameSeq ==
  ASSUME NEW s, NEW t, IsSeq(s), IsSeq(t), Len(s) = Len(t), \A i \in 1 .. Len(s) : s[i] = t[i]
  PROVE  s = t
BY TwoSeqs, SeqEqual

LEMMA ConcatSeq ==
  ASSUME NEW s, NEW t, IsSeq(s), IsSeq(t)
  PROVE  /\ IsSeq(s \o t) /\ Len(s \o t) = Len(s) + Len(t)
         /\ \A i \in 1 .. Len(s \o t) : (s \o t)[i] = IF i <= Len(s) THEN s[i] ELSE t[i - Len(s)]
         /\ s \o << >> = s /\ << >> \o s = s
<1>1. PICK S : s \in Seq(S) /\ t \in Seq(S)
  BY TwoSeqs
<1>2. s \o t \in Seq(S)
  BY <1>1, ConcatProperties
<1>3. QED
  BY <1>1, <1>2, ConcatProperties, ConcatEmptySeq DEF IsSeq

LEMMA ConcatThree ==
  ASSUME NEW s, NEW t, NEW u, IsSeq(s), IsSeq(t), IsSeq(u)
  PROVE  (s \o t) \o u = s \o (t \o u)
<1>1. PICK S : s \in Seq(S) /\ t \in Seq(S)
  BY TwoSeqs
<1>2. PICK T : u \in Seq(T)
  BY DEF IsSeq
<1>3. s \in Seq(S \cup T) /\ t \in Seq(S \cup T) /\ u \in Seq(S \cup T)
  BY <1>1, <1>2, SeqMonotonic
<1>4. QED
  BY <1>3, ConcatAssociative

LEMMA AppendSeq ==
  ASSUME NEW s, NEW x, IsSeq(s)
  PROVE  /\ IsSeq(Append(s, x)) /\ Len(Append(s, x)) = Len(s) + 1
         /\ DOMAIN Append(s, x) = 1 .. (Len(s) + 1)
         /\ \A i \in 1 .. Len(s) : Append(s, x)[i] = s[i]
         /\ Append(s, x)[Len(s) + 1] = x
<1>1. PICK S : s \in Seq(S)
  BY DEF IsSeq
<1>2. s \in Seq(S \cup {x}) /\ x \in S \cup {x}
  BY <1>1, SeqMonotonic
<1>3. Append(s, x) \in Seq(S \cup {x})
  BY <1>2, AppendProperties
<1>4. QED
  BY <1>2, <1>3, AppendProperties DEF IsSeq

LEMMA AppendJoins ==
  ASSUME NEW s, NEW x, IsSeq(s)
  PROVE  Append(s, x) = s \o <<x>> /\ IsSeq(<<x>>)
<1>1. PICK S : s \in Seq(S)
  BY DEF IsSeq
<1>2. s \in Seq(S \cup {x}) /\ x \in S \cup {x}
  BY <1>1, SeqMonotonic
<1>3. <<x>> \in Seq({x})
  OBVIOUS
<1>4. QED
  BY <1>2, <1>3, AppendIsConcat DEF IsSeq

LEMMA EmptyIsSeq == IsSeq(<< >>) /\ Len(<< >>) = 0
BY EmptySeq DEF IsSeq

(* A sequence that is not empty is its last element behind the others.     *)
LEMMA FrontLast ==
  ASSUME NEW s, IsSeq(s), s # << >>
  PROVE  /\ s = Append(Front(s), s[Len(s)]) /\ IsSeq(Front(s)) /\ Len(Front(s)) = Len(s) - 1
         /\ \A i \in 1 .. (Len(s) - 1) : Front(s)[i] = s[i]
<1>1. PICK S : s \in Seq(S)
  BY DEF IsSeq
<1> DEFINE n == Len(s)
<1>2. n \in Nat \ {0} /\ DOMAIN s = 1 .. n
  BY <1>1, EmptySeq
<1>3. /\ Front(s) \in Seq(S) /\ Len(Front(s)) = n - 1
      /\ \A i \in 1 .. (n - 1) : Front(s)[i] = s[i]
  <2>1. 1 \in Int /\ n - 1 \in Int /\ \A i \in 1 .. (n - 1) : s[i] \in S /\ 1 + i - 1 = i
    BY <1>1, <1>2
  <2>2. (IF 1 <= n - 1 THEN n - 1 - 1 + 1 ELSE 0) = n - 1 /\ n - 1 - 1 + 1 = n - 1
    BY <1>2
  <2> HIDE DEF n
  <2>3. /\ SubSeq(s, 1, n - 1) \in Seq(S)
        /\ Len(SubSeq(s, 1, n - 1)) = n - 1
        /\ \A i \in 1 .. (n - 1) : SubSeq(s, 1, n - 1)[i] = s[1 + i - 1]
    BY <2>1, <2>2, SubSeqProperties
  <2>4. QED
    BY <2>1, <2>3 DEF Front, n
<1> DEFINE t == Append(Front(s), s[n])
<1>4. IsSeq(Front(s)) /\ IsSeq(s)
  BY <1>3 DEF IsSeq
<1>5. /\ IsSeq(t) /\ Len(t) = n /\ t[n] = s[n]
      /\ \A i \in 1 .. (n - 1) : t[i] = s[i]
  <2>1. n - 1 + 1 = n
    BY <1>2
  <2>2. /\ IsSeq(t) /\ Len(t) = Len(Front(s)) + 1 /\ t[Len(Front(s)) + 1] = s[n]
        /\ \A i \in 1 .. Len(Front(s)) : t[i] = Front(s)[i]
    BY <1>4, AppendSeq
  <2> HIDE DEF n, t
  <2>3. QED
    BY <1>3, <2>1, <2>2
<1>6. t = s
  <2>1. \A i \in 1 .. n : i = n \/ i \in 1 .. (n - 1)
    <3> HIDE DEF n
    <3>1. QED
      BY <1>2
  <2> HIDE DEF t
  <2>2. \A i \in 1 .. Len(t) : t[i] = s[i]
    BY <1>5, <2>1
  <2>3. QED
    BY <1>4, <1>5, <2>2, SameSeq
<1>7. QED
  BY <1>3, <1>4, <1>6

-----------------------------------------------------------------------------
(* FlattenSeq, one more sequence at a time.                                *)
AllSeqs(seqs) == IsSeq(seqs) /\ \A i \in 1 .. Len(seqs) : IsSeq(seqs[i])

Joined(seqs, i, f) == IF i = 1 THEN seqs[i] ELSE f[i - 1] \o seqs[i]

LEMMA JoiningExists ==
  ASSUME NEW seqs
  PROVE  \A k \in Nat : \E f : f = [i \in 1 .. k |-> Joined(seqs, i, f)]
<1> DEFINE Numbers == {k \in Nat : \E f : f = [i \in 1 .. k |-> Joined(seqs, i, f)]}
<1>1. 0 \in Numbers
  <2>1. << >> = [i \in 1 .. 0 |-> Joined(seqs, i, << >>)]
    OBVIOUS
  <2>2. QED
    BY <2>1
<1>2. ASSUME NEW k \in Nat, k \in Numbers PROVE k + 1 \in Numbers
  <2>1. PICK f : f = [i \in 1 .. k |-> Joined(seqs, i, f)]
    BY <1>2
  <2> DEFINE g == [i \in 1 .. (k + 1) |-> Joined(seqs, i, f)]
  <2>2. g = [i \in 1 .. (k + 1) |-> Joined(seqs, i, g)]
    <3>1. \A i \in 1 .. k : g[i] = f[i]
      BY <2>1
    <3>2. \A i \in 1 .. (k + 1) : i # 1 => i - 1 \in 1 .. k
      OBVIOUS
    <3>3. \A i \in 1 .. (k + 1) : Joined(seqs, i, f) = Joined(seqs, i, g)
      <4> HIDE DEF g
      <4>1. QED
        BY <3>1, <3>2 DEF Joined
    <3>4. QED
      BY <3>3
  <2> HIDE DEF g
  <2>3. QED
    BY <2>2
<1> HIDE DEF Numbers
<1>3. Nat \subseteq Numbers
  BY <1>1, <1>2, SetInduction
<1>4. QED
  BY <1>3 DEF Numbers

(* FlattenSeq is the last of a sequence of prefixes.                       *)
LEMMA FlattenIs ==
  ASSUME NEW seqs, AllSeqs(seqs), Len(seqs) # 0
  PROVE  \E f : /\ DOMAIN f = 1 .. Len(seqs)
                /\ \A i \in 1 .. Len(seqs) : f[i] = Joined(seqs, i, f)
                /\ FlattenSeq(seqs) = f[Len(seqs)]
<1> DEFINE f == CHOOSE f : f = [i \in 1 .. Len(seqs) |->
                                  IF i = 1 THEN seqs[i] ELSE f[i - 1] \o seqs[i]]
<1>1. Len(seqs) \in Nat
  BY SeqShape DEF AllSeqs
<1>2. \E g : g = [i \in 1 .. Len(seqs) |-> Joined(seqs, i, g)]
  BY <1>1, JoiningExists
<1>3. f = [i \in 1 .. Len(seqs) |-> Joined(seqs, i, f)]
  BY <1>2 DEF Joined
<1>4. FlattenSeq(seqs) = f[Len(seqs)]
  BY DEF FlattenSeq
<1> HIDE DEF f
<1>5. QED
  BY <1>3, <1>4

(* Two such functions agree as far as both go.                             *)
LEMMA JoiningUnique ==
  ASSUME NEW s, NEW t, NEW m \in Nat, NEW f, NEW g,
         \A i \in 1 .. m : s[i] = t[i],
         \A i \in 1 .. m : f[i] = Joined(s, i, f),
         \A i \in 1 .. m : g[i] = Joined(t, i, g)
  PROVE  \A i \in 1 .. m : f[i] = g[i]
<1> DEFINE Numbers == {k \in Nat : k \in 1 .. m => f[k] = g[k]}
<1>1. 0 \in Numbers
  OBVIOUS
<1>2. ASSUME NEW k \in Nat, k \in Numbers PROVE k + 1 \in Numbers
  <2>1. SUFFICES ASSUME k + 1 \in 1 .. m PROVE f[k + 1] = g[k + 1]
    OBVIOUS
  <2>2. k = 0 \/ k \in 1 .. m
    BY <2>1
  <2>3. k + 1 - 1 = k /\ (k = 0 <=> k + 1 = 1)
    OBVIOUS
  <2>4. f[k + 1] = Joined(s, k + 1, f) /\ g[k + 1] = Joined(t, k + 1, g) /\ s[k + 1] = t[k + 1]
    BY <2>1
  <2>5. QED
    BY <1>2, <2>2, <2>3, <2>4 DEF Joined
<1> HIDE DEF Numbers
<1>3. Nat \subseteq Numbers
  BY <1>1, <1>2, SetInduction
<1>4. QED
  BY <1>3 DEF Numbers

LEMMA JoiningSeqs ==
  ASSUME NEW s, AllSeqs(s), NEW f, \A i \in 1 .. Len(s) : f[i] = Joined(s, i, f)
  PROVE  \A i \in 1 .. Len(s) : IsSeq(f[i])
<1> DEFINE Numbers == {k \in Nat : k \in 1 .. Len(s) => IsSeq(f[k])}
<1>0. Len(s) \in Nat
  BY SeqShape DEF AllSeqs
<1>1. 0 \in Numbers
  OBVIOUS
<1>2. ASSUME NEW k \in Nat, k \in Numbers PROVE k + 1 \in Numbers
  <2>1. SUFFICES ASSUME k + 1 \in 1 .. Len(s) PROVE IsSeq(f[k + 1])
    OBVIOUS
  <2>2. k = 0 \/ k \in 1 .. Len(s)
    BY <1>0, <2>1
  <2>3. k + 1 - 1 = k /\ (k = 0 <=> k + 1 = 1)
    OBVIOUS
  <2>4. f[k + 1] = Joined(s, k + 1, f) /\ IsSeq(s[k + 1])
    BY <2>1 DEF AllSeqs
  <2>5. QED
    BY <1>2, <2>2, <2>3, <2>4, ConcatSeq DEF Joined
<1> HIDE DEF Numbers
<1>3. Nat \subseteq Numbers
  BY <1>1, <1>2, SetInduction
<1>4. QED
  BY <1>0, <1>3 DEF Numbers

LEMMA FlattenEmpty == FlattenSeq(<< >>) = << >>
BY EmptyIsSeq DEF FlattenSeq

LEMMA FlattenIsSeq ==
  ASSUME NEW seqs, AllSeqs(seqs)
  PROVE  IsSeq(FlattenSeq(seqs))
<1>1. CASE Len(seqs) = 0
  <2>1. seqs = << >>
    BY <1>1, SeqShape DEF AllSeqs
  <2>2. QED
    BY <2>1, FlattenEmpty, EmptyIsSeq
<1>2. CASE Len(seqs) # 0
  <2>1. Len(seqs) \in 1 .. Len(seqs)
    BY <1>2, SeqShape DEF AllSeqs
  <2>2. QED
    BY <1>2, <2>1, FlattenIs, JoiningSeqs
<1>3. QED
  BY <1>1, <1>2

LEMMA FlattenAppend ==
  ASSUME NEW seqs, NEW x, AllSeqs(seqs), IsSeq(x)
  PROVE  /\ AllSeqs(Append(seqs, x))
         /\ FlattenSeq(Append(seqs, x)) = FlattenSeq(seqs) \o x
<1> DEFINE t == Append(seqs, x)
           n == Len(seqs)
<1>1. /\ n \in Nat /\ IsSeq(t) /\ Len(t) = n + 1 /\ t[n + 1] = x
      /\ \A i \in 1 .. n : t[i] = seqs[i]
  <2>1. IsSeq(seqs)
    BY DEF AllSeqs
  <2>2. Len(seqs) \in Nat
    BY <2>1, SeqShape
  <2>3. /\ IsSeq(Append(seqs, x)) /\ Len(Append(seqs, x)) = Len(seqs) + 1
        /\ Append(seqs, x)[Len(seqs) + 1] = x
        /\ \A i \in 1 .. Len(seqs) : Append(seqs, x)[i] = seqs[i]
    BY <2>1, AppendSeq
  <2>4. QED
    BY <2>2, <2>3
<1>2. AllSeqs(t)
  <2>1. \A i \in 1 .. (n + 1) : i = n + 1 \/ i \in 1 .. n
    BY <1>1
  <2> HIDE DEF t, n
  <2>2. QED
    BY <1>1, <2>1 DEF AllSeqs, n
<1> HIDE DEF t
<1>3. n + 1 # 0
  BY <1>1
<1>4. PICK g : /\ \A i \in 1 .. (n + 1) : g[i] = Joined(t, i, g)
               /\ FlattenSeq(t) = g[n + 1]
  <2> HIDE DEF n
  <2>1. QED
    BY <1>1, <1>2, <1>3, FlattenIs
<1>5. CASE n = 0
  <2>1. seqs = << >>
    BY <1>5, SeqShape DEF AllSeqs
  <2>2. g[n + 1] = x
    <3>1. n + 1 = 1 /\ 1 \in 1 .. (n + 1)
      BY <1>5
    <3> HIDE DEF n
    <3>2. QED
      BY <1>1, <1>4, <3>1 DEF Joined
  <2>3. << >> \o x = x
    BY ConcatSeq
  <2>4. QED
    BY <1>2, <1>4, <2>1, <2>2, <2>3, FlattenEmpty DEF t
<1>6. CASE n # 0
  <2>1. PICK f : /\ \A i \in 1 .. n : f[i] = Joined(seqs, i, f)
                 /\ FlattenSeq(seqs) = f[n]
    BY <1>6, FlattenIs
  <2>2. n \in 1 .. n /\ n + 1 \in 1 .. (n + 1) /\ n + 1 # 1 /\ n + 1 - 1 = n
        /\ \A i \in 1 .. n : i \in 1 .. (n + 1)
    BY <1>1, <1>6
  <2> HIDE DEF n
  <2>3. f[n] = g[n]
    <3>1. \A i \in 1 .. n : g[i] = Joined(t, i, g)
      BY <1>4, <2>2
    <3>2. n \in Nat /\ \A i \in 1 .. n : seqs[i] = t[i]
      BY <1>1
    <3>3. \A i \in 1 .. n : f[i] = g[i]
      BY <2>1, <3>1, <3>2, JoiningUnique
    <3>4. QED
      BY <2>2, <3>3
  <2>4. g[n + 1] = g[n] \o x
    <3>1. g[n + 1] = Joined(t, n + 1, g)
      BY <1>4, <2>2
    <3>2. t[n + 1] = x
      BY <1>1
    <3> DEFINE m == n + 1
    <3>3. g[m] = Joined(t, m, g) /\ t[m] = x /\ m # 1 /\ m - 1 = n
      BY <2>2, <3>1, <3>2
    <3> HIDE DEF m
    <3>4. g[m] = g[n] \o x
      BY <3>3 DEF Joined
    <3>5. QED
      BY <3>4 DEF m
  <2>5. QED
    BY <1>2, <1>4, <2>1, <2>3, <2>4 DEF t
<1>7. QED
  BY <1>5, <1>6

-----------------------------------------------------------------------------
(* The members of a finite set of numbers in order.                        *)
Places(S) == IsFiniteSet(S) /\ S \subseteq Nat

Ranked(S, k) == {i \in S : Cardinality({j \in S : j <= i}) = k}

LEMMA InOrderIs ==
  ASSUME NEW S, Places(S)
  PROVE  /\ Cardinality(S) \in Nat /\ Len(InOrder(S)) = Cardinality(S) /\ IsSeq(InOrder(S))
         /\ DOMAIN InOrder(S) = 1 .. Cardinality(S)
         /\ \A k \in 1 .. Cardinality(S) : InOrder(S)[k] = The(Ranked(S, k))
<1>1. Cardinality(S) \in Nat
  BY FS_CardinalityType DEF Places
<1> DEFINE o == InOrder(S)
<1>2. /\ DOMAIN o = 1 .. Cardinality(S) /\ o = [i \in DOMAIN o |-> o[i]]
      /\ \A k \in 1 .. Cardinality(S) : o[k] = The(Ranked(S, k))
  BY DEF InOrder, Ranked
<1> HIDE DEF o
<1>3. QED
  BY <1>1, <1>2, SeqMade DEF o

LEMMA TheOnly == \A x : The({x}) = x
BY DEF The

LEMMA InOrderAppend ==
  ASSUME NEW S, Places(S), NEW m \in Nat, \A i \in S : i < m
  PROVE  /\ Places(S \cup {m}) /\ Cardinality(S \cup {m}) = Cardinality(S) + 1
         /\ InOrder(S \cup {m}) = Append(InOrder(S), m)
<1> DEFINE T == S \cup {m}
           n == Cardinality(S)
<1>1. m \notin S
  <2>1. ~(m < m)
    OBVIOUS
  <2>2. QED
    BY <2>1
<1>2. n \in Nat /\ Places(T) /\ Cardinality(T) = n + 1
  BY <1>1, FS_CardinalityType, FS_AddElement DEF Places
<1>3. ASSUME NEW i \in S
      PROVE  /\ {j \in T : j <= i} = {j \in S : j <= i}
             /\ Cardinality({j \in S : j <= i}) \in Nat /\ Cardinality({j \in S : j <= i}) <= n
  <2>1. i \in Nat /\ i < m /\ ~(m <= i)
    BY DEF Places
  <2>2. {j \in S : j <= i} \in SUBSET S
    OBVIOUS
  <2>3. QED
    BY <2>1, <2>2, FS_Subset, FS_CardinalityType DEF Places
<1>4. {j \in T : j <= m} = T
  <2>1. m <= m /\ \A i \in S : i \in Nat /\ i <= m
    BY DEF Places
  <2>2. QED
    BY <2>1
<1>5. \A k \in 1 .. n : Ranked(T, k) = Ranked(S, k)
  <2> SUFFICES ASSUME NEW k \in 1 .. n PROVE Ranked(T, k) = Ranked(S, k)
    OBVIOUS
  <2>1. n + 1 # k
    BY <1>2
  <2> HIDE DEF n
  <2>2. m \notin Ranked(T, k)
    BY <1>2, <1>4, <2>1 DEF Ranked
  <2>3. \A i \in S : i \in Ranked(T, k) <=> i \in Ranked(S, k)
    BY <1>3 DEF Ranked
  <2>4. Ranked(T, k) \subseteq T /\ Ranked(S, k) \subseteq S
    BY DEF Ranked
  <2>5. QED
    BY <2>2, <2>3, <2>4
<1>6. Ranked(T, n + 1) = {m}
  <2>1. \A i \in S : i \notin Ranked(T, n + 1)
    <3> SUFFICES ASSUME NEW i \in S, i \in Ranked(T, n + 1) PROVE FALSE
      OBVIOUS
    <3>1. Cardinality({j \in S : j <= i}) = n + 1
      BY <1>3 DEF Ranked
    <3> HIDE DEF n
    <3>2. QED
      BY <1>2, <1>3, <3>1
  <2>2. m \in Ranked(T, n + 1)
    BY <1>2, <1>4 DEF Ranked
  <2>3. Ranked(T, n + 1) \subseteq T
    BY DEF Ranked
  <2>4. QED
    BY <2>1, <2>2, <2>3
<1> DEFINE a == InOrder(T)
           b == Append(InOrder(S), m)
<1>7. IsSeq(a) /\ Len(a) = n + 1 /\ \A k \in 1 .. (n + 1) : a[k] = The(Ranked(T, k))
  BY <1>2, InOrderIs
<1>8. IsSeq(b) /\ Len(b) = n + 1 /\ b[n + 1] = m /\ \A k \in 1 .. n : b[k] = The(Ranked(S, k))
  <2> DEFINE o == InOrder(S)
  <2>1. IsSeq(o) /\ Len(o) = n /\ \A k \in 1 .. n : o[k] = The(Ranked(S, k))
    BY InOrderIs
  <2> HIDE DEF o, n
  <2>2. /\ IsSeq(Append(o, m)) /\ Len(Append(o, m)) = n + 1 /\ Append(o, m)[n + 1] = m
        /\ \A k \in 1 .. n : Append(o, m)[k] = o[k]
    BY <2>1, AppendSeq
  <2>3. QED
    BY <2>1, <2>2 DEF o
<1>9. \A k \in 1 .. (n + 1) : a[k] = b[k]
  <2> SUFFICES ASSUME NEW k \in 1 .. (n + 1) PROVE a[k] = b[k]
    OBVIOUS
  <2> HIDE DEF a, b, n, T
  <2>1. CASE k \in 1 .. n
    BY <1>5, <1>7, <1>8, <2>1
  <2>2. CASE k = n + 1
    BY <1>6, <1>7, <1>8, <2>2, TheOnly
  <2>3. QED
    BY <1>2, <2>1, <2>2
<1> HIDE DEF a, b, n
<1>10. a = b
  BY <1>7, <1>8, <1>9, SameSeq
<1>11. QED
  BY <1>2, <1>10 DEF a, b, n

LEMMA InOrderNone == Places({}) /\ InOrder({}) = << >> /\ Cardinality({}) = 0
<1>1. Places({}) /\ Cardinality({}) = 0
  BY FS_EmptySet DEF Places
<1>2. IsSeq(InOrder({})) /\ Len(InOrder({})) = 0
  BY <1>1, InOrderIs
<1>3. QED
  BY <1>1, <1>2, SeqShape

InRanks(S) ==
  LET o == InOrder(S)
  IN /\ \A k \in DOMAIN o : o[k] \in S
     /\ \A i \in S : \E k \in DOMAIN o : o[k] = i
     /\ \A j, k \in DOMAIN o : j < k => o[j] < o[k]

LEMMA OrderedAppend ==
  ASSUME NEW S, Places(S), InRanks(S), NEW m \in Nat, \A i \in S : i < m
  PROVE  InRanks(S \cup {m})
<1> DEFINE o == InOrder(S)
           t == InOrder(S \cup {m})
           n == Len(o)
<1>1. /\ n \in Nat /\ DOMAIN o = 1 .. n /\ DOMAIN t = 1 .. (n + 1) /\ t[n + 1] = m
      /\ \A k \in 1 .. n : t[k] = o[k]
  <2>1. IsSeq(o) /\ n \in Nat /\ DOMAIN o = 1 .. n
    BY InOrderIs, SeqShape
  <2>2. t = Append(o, m)
    BY InOrderAppend
  <2> HIDE DEF o, t
  <2>3. QED
    BY <2>1, <2>2, AppendSeq
<1>2. /\ \A k \in DOMAIN o : o[k] \in S
      /\ \A i \in S : \E k \in DOMAIN o : o[k] = i
      /\ \A j, k \in DOMAIN o : j < k => o[j] < o[k]
  BY DEF InRanks
<1> HIDE DEF o, t, n
<1>3. \A k \in DOMAIN t : k \in 1 .. n \/ k = n + 1
  BY <1>1
<1>4. \A k \in 1 .. n : k \in DOMAIN t /\ k < n + 1 /\ ~(n + 1 < k)
  BY <1>1
<1>5. \A k \in DOMAIN t : t[k] \in S \cup {m}
  BY <1>1, <1>2, <1>3
<1>6. \A i \in S \cup {m} : \E k \in DOMAIN t : t[k] = i
  <2>1. n + 1 \in DOMAIN t
    BY <1>1
  <2>2. \A i \in S : \E k \in 1 .. n : o[k] = i
    BY <1>1, <1>2
  <2>3. QED
    BY <1>1, <1>4, <2>1, <2>2
<1>7. \A j, k \in DOMAIN t : j < k => t[j] < t[k]
  <2> SUFFICES ASSUME NEW j \in DOMAIN t, NEW k \in DOMAIN t, j < k PROVE t[j] < t[k]
    OBVIOUS
  <2>1. j \in 1 .. n
    BY <1>1
  <2>2. CASE k \in 1 .. n
    BY <1>1, <1>2, <2>1, <2>2
  <2>3. CASE k = n + 1
    BY <1>1, <1>2, <2>1, <2>3
  <2>4. QED
    BY <1>3, <2>2, <2>3
<1>8. QED
  BY <1>5, <1>6, <1>7 DEF InRanks, t

LEMMA InOrderFacts ==
  ASSUME NEW S, Places(S)
  PROVE  InRanks(S)
<1> DEFINE Numbers == {n \in Nat : \A T : T \subseteq {i \in Nat : i < n} => Places(T) /\ InRanks(T)}
<1>1. 0 \in Numbers
  <2>1. \A T : T \subseteq {i \in Nat : i < 0} => T = {}
    OBVIOUS
  <2>2. Places({}) /\ InOrder({}) = << >>
    BY InOrderNone
  <2>3. InRanks({})
    BY <2>2 DEF InRanks
  <2>4. QED
    BY <2>1, <2>2, <2>3
<1>2. ASSUME NEW n \in Nat, n \in Numbers PROVE n + 1 \in Numbers
  <2>1. SUFFICES ASSUME NEW T, T \subseteq {i \in Nat : i < n + 1} PROVE Places(T) /\ InRanks(T)
    OBVIOUS
  <2>2. \A i \in T \ {n} : i \in Nat /\ i < n
    BY <2>1
  <2>3. Places(T \ {n}) /\ InRanks(T \ {n})
    BY <1>2, <2>2
  <2>4. CASE n \notin T
    <3>1. T \ {n} = T
      BY <2>4
    <3>2. QED
      BY <2>3, <3>1
  <2>5. CASE n \in T
    <3>1. T = (T \ {n}) \cup {n}
      BY <2>5
    <3> DEFINE U == T \ {n}
    <3>2. Places(U) /\ InRanks(U) /\ \A i \in U : i < n
      BY <2>2, <2>3
    <3> HIDE DEF U
    <3>3. Places(U \cup {n}) /\ InRanks(U \cup {n})
      BY <3>2, InOrderAppend, OrderedAppend
    <3>4. QED
      BY <3>1, <3>3 DEF U
  <2>6. QED
    BY <2>4, <2>5
<1> HIDE DEF Numbers
<1>3. Nat \subseteq Numbers
  BY <1>1, <1>2, SetInduction
<1>4. \E n \in Nat : S \subseteq {i \in Nat : i < n}
  <2>1. \A k \in Nat : \A T : IsFiniteSet(T) /\ T \subseteq Nat /\ Cardinality(T) = k
                                => \E n \in Nat : T \subseteq {i \in Nat : i < n}
    <3> DEFINE Sizes == {k \in Nat : \A T : IsFiniteSet(T) /\ T \subseteq Nat /\ Cardinality(T) = k
                                              => \E n \in Nat : T \subseteq {i \in Nat : i < n}}
    <3>1. 0 \in Sizes
      <4>1. \A T : IsFiniteSet(T) /\ Cardinality(T) = 0 => T = {}
        BY FS_EmptySet
      <4>2. QED
        BY <4>1
    <3>2. ASSUME NEW k \in Nat, k \in Sizes PROVE k + 1 \in Sizes
      <4> SUFFICES ASSUME NEW T, IsFiniteSet(T), T \subseteq Nat, Cardinality(T) = k + 1
                   PROVE  \E n \in Nat : T \subseteq {i \in Nat : i < n}
        OBVIOUS
      <4>1. T # {}
        BY FS_EmptySet
      <4>2. PICK x \in T : TRUE
        BY <4>1
      <4>3. IsFiniteSet(T \ {x}) /\ Cardinality(T \ {x}) = k
        BY <4>2, FS_RemoveElement
      <4>4. PICK n \in Nat : T \ {x} \subseteq {i \in Nat : i < n}
        BY <3>2, <4>3
      <4>5. PICK m \in Nat : n <= m /\ x < m
        <5>1. n + x + 1 \in Nat /\ n <= n + x + 1 /\ x < n + x + 1
          BY <4>2
        <5>2. QED
          BY <5>1
      <4>6. \A i \in T : i \in Nat /\ i < m
        BY <4>4, <4>5
      <4>7. QED
        BY <4>6
    <3> HIDE DEF Sizes
    <3>3. Nat \subseteq Sizes
      BY <3>1, <3>2, SetInduction
    <3>4. QED
      BY <3>3 DEF Sizes
  <2>2. QED
    BY <2>1, FS_CardinalityType DEF Places
<1>5. QED
  BY <1>3, <1>4 DEF Numbers

LEMMA PlacesWithin ==
  ASSUME NEW S, NEW n \in Nat, S \subseteq 1 .. n
  PROVE  Places(S)
<1>1. IsFiniteSet(1 .. n) /\ 1 .. n \subseteq Nat
  BY FS_Interval
<1>2. QED
  BY <1>1, FS_Subset DEF Places

LEMMA InOrderAll ==
  ASSUME NEW n \in Nat
  PROVE  InOrder(1 .. n) = [k \in 1 .. n |-> k]
<1> DEFINE Numbers == {k \in Nat : InOrder(1 .. k) = [i \in 1 .. k |-> i]}
<1>1. 0 \in Numbers
  <2>1. 1 .. 0 = {} /\ [i \in 1 .. 0 |-> i] = << >>
    OBVIOUS
  <2>2. QED
    BY <2>1, InOrderNone
<1>2. ASSUME NEW k \in Nat, k \in Numbers PROVE k + 1 \in Numbers
  <2> DEFINE m == k + 1
             s == [i \in 1 .. k |-> i]
             t == [i \in 1 .. m |-> i]
  <2>1. 1 .. m = (1 .. k) \cup {m} /\ m \in Nat /\ \A i \in 1 .. k : i < m
    OBVIOUS
  <2>2. Places(1 .. k)
    BY PlacesWithin
  <2>3. InOrder(1 .. m) = Append(s, m)
    <3> HIDE DEF m, s
    <3>1. InOrder((1 .. k) \cup {m}) = Append(InOrder(1 .. k), m)
      BY <2>1, <2>2, InOrderAppend
    <3>2. QED
      BY <1>2, <2>1, <3>1 DEF s
  <2>4. IsSeq(s) /\ Len(s) = k
    BY SeqMade
  <2>5. IsSeq(t) /\ Len(t) = m
    BY <2>1, SeqMade
  <2>6. Append(s, m) = t
    <3>1. /\ IsSeq(Append(s, m)) /\ Len(Append(s, m)) = m /\ Append(s, m)[m] = m
          /\ \A i \in 1 .. k : Append(s, m)[i] = s[i]
      BY <2>4, AppendSeq
    <3>2. \A i \in 1 .. m : Append(s, m)[i] = t[i]
      BY <3>1
    <3> HIDE DEF s, t, m
    <3>3. QED
      BY <2>5, <3>1, <3>2, SameSeq
  <2>7. QED
    BY <2>3, <2>6
<1> HIDE DEF Numbers
<1>3. Nat \subseteq Numbers
  BY <1>1, <1>2, SetInduction
<1>4. QED
  BY <1>3 DEF Numbers

LEMMA ChosenIs ==
  ASSUME NEW s, NEW S, Places(S)
  PROVE  /\ IsSeq(Chosen(s, S)) /\ Len(Chosen(s, S)) = Cardinality(S)
         /\ DOMAIN Chosen(s, S) = 1 .. Cardinality(S)
         /\ \A k \in 1 .. Cardinality(S) : /\ Chosen(s, S)[k] = s[InOrder(S)[k]]
                                           /\ InOrder(S)[k] \in S
         /\ \A i \in S : \E k \in 1 .. Cardinality(S) : Chosen(s, S)[k] = s[i]
         /\ Chosen(s, S) = << >> <=> S = {}
<1> DEFINE c == Chosen(s, S)
           n == Cardinality(S)
<1>1. n \in Nat /\ DOMAIN InOrder(S) = 1 .. n
  BY InOrderIs
<1>2. /\ DOMAIN c = 1 .. n /\ c = [k \in DOMAIN c |-> c[k]]
      /\ \A k \in 1 .. n : c[k] = s[InOrder(S)[k]]
  BY DEF Chosen
<1>3. (\A k \in 1 .. n : InOrder(S)[k] \in S) /\ \A i \in S : \E k \in 1 .. n : InOrder(S)[k] = i
  BY <1>1, InOrderFacts DEF InRanks
<1>4. n = 0 <=> S = {}
  BY FS_EmptySet DEF Places
<1> HIDE DEF c, n
<1>5. IsSeq(c) /\ Len(c) = n
  BY <1>1, <1>2, SeqMade
<1>6. c = << >> <=> n = 0
  BY <1>5, SeqShape
<1>7. QED
  BY <1>2, <1>3, <1>4, <1>5, <1>6 DEF c, n

LEMMA ChosenAppend ==
  ASSUME NEW s, NEW S, Places(S), NEW m \in Nat, \A i \in S : i < m
  PROVE  Chosen(s, S \cup {m}) = Append(Chosen(s, S), s[m])
<1> DEFINE T == S \cup {m}
           a == Chosen(s, T)
           c == Chosen(s, S)
           n == Cardinality(S)
           o == InOrder(S)
<1>1. Places(T) /\ Cardinality(T) = n + 1 /\ InOrder(T) = Append(o, m)
  BY InOrderAppend
<1>2. n \in Nat /\ IsSeq(o) /\ Len(o) = n
  BY InOrderIs
<1>3. IsSeq(c) /\ Len(c) = n /\ \A k \in 1 .. n : c[k] = s[o[k]]
  BY ChosenIs
<1> HIDE DEF n, T
<1>4. IsSeq(a) /\ Len(a) = n + 1 /\ \A k \in 1 .. (n + 1) : a[k] = s[InOrder(T)[k]]
  <2>1. /\ IsSeq(a) /\ Len(a) = Cardinality(T)
        /\ \A k \in 1 .. Cardinality(T) : a[k] = s[InOrder(T)[k]]
    <3>1. Places(T)
      BY <1>1
    <3>2. QED
      BY <3>1, ChosenIs
  <2>2. QED
    BY <1>1, <2>1
<1> HIDE DEF a, c, o
<1>5. Append(o, m)[n + 1] = m /\ \A k \in 1 .. n : Append(o, m)[k] = o[k]
  BY <1>2, AppendSeq
<1> DEFINE x == s[m]
           d == Append(c, x)
<1>6. IsSeq(d) /\ Len(d) = n + 1 /\ d[n + 1] = x /\ \A k \in 1 .. n : d[k] = c[k]
  <2> HIDE DEF x
  <2>1. IsSeq(c) /\ Len(c) = n
    BY <1>3
  <2>2. QED
    BY <2>1, AppendSeq
<1> HIDE DEF d
<1>7. \A k \in 1 .. (n + 1) : a[k] = d[k]
  <2> SUFFICES ASSUME NEW k \in 1 .. (n + 1) PROVE a[k] = d[k]
    OBVIOUS
  <2>1. CASE k \in 1 .. n
    <3>1. a[k] = s[Append(o, m)[k]] /\ Append(o, m)[k] = o[k]
      BY <1>1, <1>4, <1>5, <2>1
    <3>2. d[k] = s[o[k]]
      BY <1>3, <1>6, <2>1
    <3>3. QED
      BY <3>1, <3>2
  <2>2. CASE k = n + 1
    BY <1>1, <1>4, <1>5, <1>6, <2>2
  <2>3. QED
    BY <1>2, <2>1, <2>2
<1>8. a = d
  BY <1>4, <1>6, <1>7, SameSeq
<1>9. QED
  BY <1>8 DEF a, c, d, T

(* How many of the places in order belong to a part of them.               *)
LEMMA InOrderCount ==
  ASSUME NEW S, Places(S), NEW B \in SUBSET S
  PROVE  Cardinality({k \in 1 .. Cardinality(S) : InOrder(S)[k] \in B}) = Cardinality(B)
<1> DEFINE n == Cardinality(S)
           o == InOrder(S)
           A == {k \in 1 .. n : o[k] \in B}
           f == [k \in A |-> o[k]]
<1>1. /\ n \in Nat /\ DOMAIN o = 1 .. n
      /\ \A k \in DOMAIN o : o[k] \in S
      /\ \A i \in S : \E k \in DOMAIN o : o[k] = i
      /\ \A j, k \in DOMAIN o : j < k => o[j] < o[k]
  BY InOrderIs, InOrderFacts DEF InRanks
<1>2. S \subseteq Nat
  BY DEF Places
<1> HIDE DEF n, o
<1>3. f \in [A -> B]
  OBVIOUS
<1>4. \A j, k \in A : f[j] = f[k] => j = k
  <2> SUFFICES ASSUME NEW j \in A, NEW k \in A, o[j] = o[k], j # k PROVE FALSE
    OBVIOUS
  <2>1. j < k \/ k < j
    BY <1>1
  <2>2. o[j] \in Nat /\ ~(o[j] < o[j])
    <3>1. o[j] \in Nat
      BY <1>1, <1>2
    <3>2. QED
      BY <3>1
  <2>3. QED
    BY <1>1, <2>1, <2>2
<1>5. \A i \in B : \E k \in A : f[k] = i
  BY <1>1
<1>6. ExistsBijection(A, B)
  BY <1>3, <1>4, <1>5 DEF ExistsBijection, Bijection, Injection, Surjection, IsInjective
<1>7. IsFiniteSet(A)
  <2>1. IsFiniteSet(1 .. n) /\ A \in SUBSET (1 .. n)
    BY <1>1, FS_Interval
  <2>2. QED
    BY <2>1, FS_Subset
<1>8. Cardinality(A) = Cardinality(B)
  BY <1>6, <1>7, FS_Bijection
<1>9. QED
  BY <1>8 DEF n, o

LEMMA TupleAppend ==
  ASSUME NEW a, NEW b, NEW c
  PROVE  Append(<<a>>, b) = <<a, b>> /\ Append(<<a, b>>, c) = <<a, b, c>>
<1> DEFINE T == {a, b, c}
           r == <<a>>
           s == <<a, b>>
           t == <<a, b, c>>
<1>1. r \in Seq(T) /\ s \in Seq(T) /\ t \in Seq(T)
  OBVIOUS
<1>2. /\ Len(r) = 1 /\ r[1] = a /\ Len(s) = 2 /\ s[1] = a /\ s[2] = b
      /\ Len(t) = 3 /\ t[1] = a /\ t[2] = b /\ t[3] = c
  OBVIOUS
<1>3. IsSeq(r) /\ IsSeq(s) /\ IsSeq(t)
  BY <1>1 DEF IsSeq
<1> HIDE DEF r, s, t, T
<1>4. /\ IsSeq(Append(r, b)) /\ Len(Append(r, b)) = 2
      /\ Append(r, b)[1] = a /\ Append(r, b)[2] = b
  <2>1. /\ IsSeq(Append(r, b)) /\ Len(Append(r, b)) = Len(r) + 1
        /\ Append(r, b)[Len(r) + 1] = b /\ \A i \in 1 .. Len(r) : Append(r, b)[i] = r[i]
    BY <1>3, AppendSeq
  <2>2. 1 + 1 = 2 /\ 1 \in 1 .. 1
    OBVIOUS
  <2>3. QED
    BY <1>2, <2>1, <2>2
<1>5. /\ IsSeq(Append(s, c)) /\ Len(Append(s, c)) = 3
      /\ Append(s, c)[1] = a /\ Append(s, c)[2] = b /\ Append(s, c)[3] = c
  <2>1. /\ IsSeq(Append(s, c)) /\ Len(Append(s, c)) = Len(s) + 1
        /\ Append(s, c)[Len(s) + 1] = c /\ \A i \in 1 .. Len(s) : Append(s, c)[i] = s[i]
    BY <1>3, AppendSeq
  <2>2. 2 + 1 = 3 /\ 1 \in 1 .. 2 /\ 2 \in 1 .. 2
    OBVIOUS
  <2>3. QED
    BY <1>2, <2>1, <2>2
<1>6. Append(r, b) = s
  <2>1. \A i \in 1 .. 2 : i = 1 \/ i = 2
    OBVIOUS
  <2>2. \A i \in 1 .. Len(s) : Append(r, b)[i] = s[i]
    BY <1>2, <1>4, <2>1
  <2>3. QED
    BY <1>2, <1>3, <1>4, <2>2, SameSeq
<1>7. Append(s, c) = t
  <2>1. \A i \in 1 .. 3 : i = 1 \/ i = 2 \/ i = 3
    OBVIOUS
  <2>2. \A i \in 1 .. Len(t) : Append(s, c)[i] = t[i]
    BY <1>2, <1>5, <2>1
  <2>3. QED
    BY <1>2, <1>3, <1>5, <2>2, SameSeq
<1>8. QED
  BY <1>6, <1>7 DEF r, s, t

LEMMA ThreeInOrder ==
  ASSUME NEW a \in Nat, NEW b \in Nat, NEW c \in Nat, a < b, b < c
  PROVE  /\ InOrder({a, b, c}) = <<a, b, c>> /\ Places({a, b, c})
<1>1. InOrder({a}) = <<a>> /\ Places({a})
  <2>1. InOrder({} \cup {a}) = Append(<< >>, a) /\ Places({} \cup {a})
    BY InOrderNone, InOrderAppend
  <2>2. {} \cup {a} = {a} /\ Append(<< >>, a) = <<a>>
    OBVIOUS
  <2>3. QED
    BY <2>1, <2>2
<1>2. InOrder({a, b}) = <<a, b>> /\ Places({a, b})
  <2>1. InOrder({a} \cup {b}) = Append(<<a>>, b) /\ Places({a} \cup {b})
    BY <1>1, InOrderAppend
  <2>2. {a} \cup {b} = {a, b}
    OBVIOUS
  <2>3. Append(<<a>>, b) = <<a, b>>
    BY TupleAppend
  <2>4. QED
    BY <2>1, <2>2, <2>3
<1>3. \A i \in {a, b} : i < c
  OBVIOUS
<1>4. InOrder({a, b} \cup {c}) = Append(<<a, b>>, c) /\ Places({a, b} \cup {c})
  BY <1>2, <1>3, InOrderAppend
<1>5. {a, b} \cup {c} = {a, b, c}
  OBVIOUS
<1>6. Append(<<a, b>>, c) = <<a, b, c>>
  BY TupleAppend
<1>7. QED
  BY <1>4, <1>5, <1>6

-----------------------------------------------------------------------------
(* The verdict on a mizan block, from the names of its fields.             *)
FieldNames(fields) == [i \in DOMAIN fields |-> fields[i].name]

IsFields(s) == IsSeq(s) /\ \A i \in DOMAIN s : s[i].name \in MizanFields

Repeated(s) == {i \in DOMAIN s : ~IsFirst(s, i)}
FirstPlaces(s) == {i \in DOMAIN s : IsFirst(s, i)}
Absent(s) == MizanFields \ Present(s)
AbsentPlaces(s) == {i \in 1 .. 3 : RequiredMizanFields[i] \notin Present(s)}
M2s(s) == [i \in DOMAIN Duplicates(s) |-> MizanMarad("M2", s[Duplicates(s)[i]].name)]
M1s(s) == [i \in DOMAIN Missing(s) |-> MizanMarad("M1", Missing(s)[i])]

LEMMA RequiredAre ==
  /\ RequiredMizanFields[1] = "la_tatghaw" /\ RequiredMizanFields[2] = "la_tukhsiru"
  /\ RequiredMizanFields[3] = "bil_qist"
  /\ MizanFields = {"la_tatghaw", "la_tukhsiru", "bil_qist"} /\ 1 .. 3 = {1, 2, 3}
BY DEF RequiredMizanFields, MizanFields

LEMMA AbsentCount ==
  ASSUME NEW s
  PROVE  /\ Cardinality(AbsentPlaces(s)) = Cardinality(Absent(s)) /\ Places(AbsentPlaces(s))
         /\ {RequiredMizanFields[i] : i \in AbsentPlaces(s)} = Absent(s)
<1> DEFINE A == AbsentPlaces(s)
           f == [i \in A |-> RequiredMizanFields[i]]
<1>1. A \subseteq 1 .. 3 /\ Places(A)
  <2>1. A \subseteq 1 .. 3
    BY DEF AbsentPlaces
  <2> HIDE DEF A
  <2>2. QED
    BY <2>1, PlacesWithin
<1>2. {RequiredMizanFields[i] : i \in A} = Absent(s)
  BY RequiredAre DEF AbsentPlaces, Absent
<1>3. \A i, j \in 1 .. 3 : RequiredMizanFields[i] = RequiredMizanFields[j] => i = j
  BY RequiredAre
<1> HIDE DEF A
<1>4. f \in [A -> Absent(s)] /\ \A x \in Absent(s) : \E i \in A : f[i] = x
  BY <1>2
<1>5. \A i, j \in A : f[i] = f[j] => i = j
  BY <1>1, <1>3
<1>6. ExistsBijection(A, Absent(s))
  BY <1>4, <1>5 DEF ExistsBijection, Bijection, Injection, Surjection, IsInjective
<1>7. QED
  BY <1>1, <1>2, <1>6, FS_Bijection DEF Places, A

(* What is found, part by part.                                            *)
LEMMA FindingsAre ==
  ASSUME NEW decl, IsFields(decl.fields)
  PROVE  LET s == decl.fields
             a == Cardinality(Repeated(s))
             b == Cardinality(AbsentPlaces(s))
             found == MizanMarads(decl)
         IN /\ a \in Nat /\ b \in Nat /\ Places(Repeated(s)) /\ Places(FirstPlaces(s))
            /\ IsSeq(found) /\ Len(found) = a + b + Len(OrderMarads(s))
            /\ \A i \in 1 .. a : found[i] = MizanMarad("M2", s[InOrder(Repeated(s))[i]].name)
            /\ \A i \in 1 .. b :
                 /\ InOrder(AbsentPlaces(s))[i] \in AbsentPlaces(s)
                 /\ found[a + i] = MizanMarad("M1", RequiredMizanFields[InOrder(AbsentPlaces(s))[i]])
            /\ Len(OrderMarads(s)) \in {0, 1}
            /\ Len(OrderMarads(s)) = 1 => found[a + b + 1] = MizanMarad("M4", "")
            /\ OrderMarads(s) = << >> <=> Len(OrderMarads(s)) = 0
<1> DEFINE s == decl.fields
           a == Cardinality(Repeated(s))
           b == Cardinality(AbsentPlaces(s))
           A == M2s(s)
           B == M1s(s)
           C == OrderMarads(s)
           found == MizanMarads(decl)
<1>1. Places(Repeated(s)) /\ Places(FirstPlaces(s))
  <2>1. Len(s) \in Nat /\ Repeated(s) \subseteq 1 .. Len(s) /\ FirstPlaces(s) \subseteq 1 .. Len(s)
    BY SeqShape DEF IsFields, Repeated, FirstPlaces
  <2> HIDE DEF s
  <2>2. QED
    BY <2>1, PlacesWithin
<1>2. Places(AbsentPlaces(s))
  BY AbsentCount
<1>3. a \in Nat /\ b \in Nat
  BY <1>1, <1>2, FS_CardinalityType DEF Places
<1>4. found = (A \o B) \o C
  BY DEF MizanMarads, M2s, M1s
<1> HIDE DEF found, s
<1>5. DOMAIN Duplicates(s) = 1 .. a /\ Duplicates(s) = InOrder(Repeated(s))
  BY <1>1, InOrderIs DEF Duplicates, Repeated
<1>6. /\ DOMAIN Missing(s) = 1 .. b
      /\ \A i \in 1 .. b : /\ Missing(s)[i] = RequiredMizanFields[InOrder(AbsentPlaces(s))[i]]
                           /\ InOrder(AbsentPlaces(s))[i] \in AbsentPlaces(s)
  <2>1. Missing(s) = Chosen(RequiredMizanFields, AbsentPlaces(s))
    BY DEF Missing, AbsentPlaces
  <2>2. QED
    BY <1>2, <2>1, ChosenIs
<1>7. IsSeq(A) /\ Len(A) = a /\ \A i \in 1 .. a : A[i] = MizanMarad("M2", s[InOrder(Repeated(s))[i]].name)
  <2>1. /\ DOMAIN A = 1 .. a /\ A = [i \in DOMAIN A |-> A[i]]
        /\ \A i \in 1 .. a : A[i] = MizanMarad("M2", s[InOrder(Repeated(s))[i]].name)
    BY <1>5 DEF M2s
  <2> HIDE DEF A, a
  <2>2. QED
    BY <1>3, <2>1, SeqMade
<1>8. /\ IsSeq(B) /\ Len(B) = b
      /\ \A i \in 1 .. b : B[i] = MizanMarad("M1", RequiredMizanFields[InOrder(AbsentPlaces(s))[i]])
  <2>1. /\ DOMAIN B = 1 .. b /\ B = [i \in DOMAIN B |-> B[i]]
        /\ \A i \in 1 .. b : B[i] = MizanMarad("M1", RequiredMizanFields[InOrder(AbsentPlaces(s))[i]])
    BY <1>6 DEF M1s
  <2> HIDE DEF B, b
  <2>2. QED
    BY <1>3, <2>1, SeqMade
<1>9. /\ IsSeq(C) /\ Len(C) \in {0, 1}
      /\ Len(C) = 1 => C[1] = MizanMarad("M4", "")
      /\ C = << >> <=> Len(C) = 0
  <2>1. C = << >> \/ C = <<MizanMarad("M4", "")>>
    BY DEF OrderMarads
  <2>2. /\ IsSeq(<<MizanMarad("M4", "")>>) /\ Len(<<MizanMarad("M4", "")>>) = 1
        /\ <<MizanMarad("M4", "")>>[1] = MizanMarad("M4", "")
    <3> DEFINE m == MizanMarad("M4", "")
    <3>1. <<m>> \in Seq({m})
      OBVIOUS
    <3> HIDE DEF m
    <3>2. QED
      BY <3>1 DEF IsSeq, m
  <2>3. IsSeq(<< >>) /\ Len(<< >>) = 0
    BY EmptyIsSeq
  <2>4. 0 # 1 /\ 0 \in {0, 1} /\ 1 \in {0, 1}
    OBVIOUS
  <2> HIDE DEF C
  <2>5. CASE C = << >>
    BY <2>3, <2>4, <2>5
  <2>6. CASE C = <<MizanMarad("M4", "")>>
    <3>1. C # << >>
      BY <2>2, <2>3, <2>4, <2>6
    <3>2. QED
      BY <2>2, <2>4, <2>6, <3>1
  <2>7. QED
    BY <2>1, <2>5, <2>6
<1> HIDE DEF A, B, C, a, b
<1>10. PICK c \in Nat : c = Len(C) /\ c \in {0, 1}
  <2>1. Len(C) \in Nat
    BY <1>9, SeqShape
  <2>2. QED
    BY <1>9, <2>1
<1> DEFINE D == A \o B
<1>11. /\ IsSeq(D) /\ Len(D) = a + b
       /\ \A i \in 1 .. (a + b) : D[i] = IF i <= a THEN A[i] ELSE B[i - a]
  <2>1. IsSeq(A) /\ IsSeq(B) /\ Len(A) = a /\ Len(B) = b
    BY <1>7, <1>8
  <2>2. /\ IsSeq(D) /\ Len(D) = Len(A) + Len(B)
        /\ \A i \in 1 .. (Len(A) + Len(B)) :
             D[i] = IF i <= Len(A) THEN A[i] ELSE B[i - Len(A)]
    BY <2>1, ConcatSeq
  <2> HIDE DEF D
  <2>3. QED
    BY <2>1, <2>2
<1> HIDE DEF D
<1>12. /\ IsSeq(found) /\ Len(found) = a + b + c
       /\ \A i \in 1 .. (a + b + c) : found[i] = IF i <= a + b THEN D[i] ELSE C[i - (a + b)]
  <2>1. IsSeq(D) /\ IsSeq(C) /\ found = D \o C
    BY <1>4, <1>9, <1>11 DEF D
  <2>2. /\ IsSeq(D \o C) /\ Len(D \o C) = Len(D) + Len(C)
        /\ \A i \in 1 .. (Len(D) + Len(C)) :
             (D \o C)[i] = IF i <= Len(D) THEN D[i] ELSE C[i - Len(D)]
    BY <2>1, ConcatSeq
  <2>3. QED
    BY <1>10, <1>11, <2>1, <2>2
<1>13. \A i \in 1 .. a : found[i] = A[i]
  <2>1. \A i \in 1 .. a : i <= a /\ i <= a + b /\ i \in 1 .. (a + b) /\ i \in 1 .. (a + b + c)
    BY <1>3
  <2>2. QED
    BY <1>11, <1>12, <2>1
<1>14. ASSUME NEW i \in 1 .. b PROVE found[a + i] = B[i]
  <2> DEFINE k == a + i
  <2>1. ~(k <= a) /\ k <= a + b /\ k \in 1 .. (a + b) /\ k - a = i /\ k \in 1 .. (a + b + c)
    BY <1>3
  <2> HIDE DEF k
  <2>2. found[k] = D[k] /\ D[k] = B[k - a]
    BY <1>11, <1>12, <2>1
  <2>3. QED
    BY <2>1, <2>2 DEF k
<1>15. c = 1 => found[a + b + 1] = C[1]
  <2> DEFINE k == a + b + 1
             l == a + b
  <2>1. ~(k <= l) /\ k \in 1 .. (l + 1) /\ k - l = 1
    BY <1>3
  <2>2. \A i \in 1 .. (l + c) : found[i] = IF i <= l THEN D[i] ELSE C[i - l]
    BY <1>12
  <2> HIDE DEF k, l
  <2>3. QED
    BY <2>1, <2>2 DEF k
<1>16. QED
  BY <1>1, <1>3, <1>6, <1>7, <1>8, <1>9, <1>10, <1>12, <1>13, <1>14, <1>15 DEF A, B, C, a, b, found, s

LEMMA EmptyNotTuple == \A x : <<x>> # << >>
<1> SUFFICES ASSUME NEW x PROVE <<x>> # << >>
  OBVIOUS
<1>1. Len(<<x>>) = 1 /\ Len(<< >>) = 0
  OBVIOUS
<1>2. QED
  BY <1>1

OrderOf(s) == [i \in DOMAIN Firsts(s) |-> s[Firsts(s)[i]].name]

LEMMA OrderIs ==
  ASSUME NEW s, IsFields(s)
  PROVE  /\ OrderMarads(s) = << >> <=> ~(Absent(s) = {} /\ OrderOf(s) # RequiredMizanFields)
         /\ Places(FirstPlaces(s)) /\ DOMAIN OrderOf(s) = 1 .. Cardinality(FirstPlaces(s))
         /\ \A k \in DOMAIN OrderOf(s) : OrderOf(s)[k] = s[InOrder(FirstPlaces(s))[k]].name
         /\ IsSeq(OrderOf(s)) /\ Len(OrderOf(s)) = Cardinality(FirstPlaces(s))
<1>1. Places(FirstPlaces(s))
  <2>1. Len(s) \in Nat /\ FirstPlaces(s) \subseteq 1 .. Len(s)
    BY SeqShape DEF IsFields, FirstPlaces
  <2>2. QED
    BY <2>1, PlacesWithin
<1> DEFINE n == Cardinality(FirstPlaces(s))
<1>2. n \in Nat /\ DOMAIN InOrder(FirstPlaces(s)) = 1 .. n
  BY <1>1, InOrderIs
<1>3. Firsts(s) = InOrder(FirstPlaces(s))
  BY DEF Firsts, FirstPlaces
<1>4. /\ DOMAIN OrderOf(s) = 1 .. n /\ OrderOf(s) = [i \in DOMAIN OrderOf(s) |-> OrderOf(s)[i]]
      /\ \A k \in DOMAIN OrderOf(s) : OrderOf(s)[k] = s[InOrder(FirstPlaces(s))[k]].name
  BY <1>2, <1>3 DEF OrderOf
<1>5. IsSeq(OrderOf(s)) /\ Len(OrderOf(s)) = n
  <2> HIDE DEF n
  <2>1. QED
    BY <1>2, <1>4, SeqMade
<1>6. Missing(s) = << >> <=> Absent(s) = {}
  <2>1. Missing(s) = << >> <=> AbsentPlaces(s) = {}
    BY AbsentCount, ChosenIs DEF Missing, AbsentPlaces
  <2>2. AbsentPlaces(s) = {} <=> Absent(s) = {}
    <3>1. {RequiredMizanFields[i] : i \in AbsentPlaces(s)} = Absent(s)
      BY AbsentCount
    <3>2. QED
      BY <3>1
  <2>3. QED
    BY <2>1, <2>2
<1>7. <<MizanMarad("M4", "")>> # << >>
  BY EmptyNotTuple
<1>8. OrderMarads(s) = IF Missing(s) = << >> /\ OrderOf(s) # RequiredMizanFields
                       THEN <<MizanMarad("M4", "")>> ELSE << >>
  BY DEF OrderMarads, OrderOf
<1>9. QED
  BY <1>1, <1>4, <1>5, <1>6, <1>7, <1>8

(* The first field of a name.                                              *)
FirstOf(s, f, p) ==
  p \in DOMAIN s /\ s[p].name = f /\ \A j \in DOMAIN s : s[j].name = f => p <= j

LEMMA FirstExists ==
  ASSUME NEW s, IsFields(s), NEW f \in Present(s)
  PROVE  \E p \in DOMAIN s : FirstOf(s, f, p)
<1> DEFINE S == {j \in DOMAIN s : s[j].name = f}
<1>1. Len(s) \in Nat /\ DOMAIN s = 1 .. Len(s)
  BY SeqShape DEF IsFields
<1>2. S \subseteq Nat /\ S # {}
  BY <1>1 DEF Present
<1>3. PICK p \in S : \A j \in S : p <= j
  <2> HIDE DEF S
  <2>1. QED
    BY <1>2, LeastNumber
<1>4. QED
  BY <1>3 DEF FirstOf

LEMMA FirstIs ==
  ASSUME NEW s, IsFields(s), NEW f, NEW p, FirstOf(s, f, p)
  PROVE  /\ p \in Nat /\ p \in FirstPlaces(s)
         /\ \A i \in FirstPlaces(s) : s[i].name = f => i = p
<1>1. Len(s) \in Nat /\ DOMAIN s = 1 .. Len(s) /\ DOMAIN s \subseteq Nat
  BY SeqShape DEF IsFields
<1>2. p \in DOMAIN s /\ p \in Nat /\ s[p].name = f /\ \A j \in DOMAIN s : s[j].name = f => p <= j
  BY <1>1 DEF FirstOf
<1>3. \A i \in DOMAIN s : \A j \in 1 .. i - 1 : j \in DOMAIN s /\ ~(i <= j)
  BY <1>1
<1>4. IsFirst(s, p)
  BY <1>2, <1>3 DEF IsFirst
<1>5. ASSUME NEW i \in FirstPlaces(s), s[i].name = f PROVE i = p
  <2>1. i \in DOMAIN s /\ IsFirst(s, i)
    BY DEF FirstPlaces
  <2>2. p <= i
    BY <1>2, <1>5, <2>1
  <2>3. p \notin 1 .. i - 1
    BY <1>2, <1>5, <2>1 DEF IsFirst
  <2>4. QED
    BY <1>1, <1>2, <2>1, <2>2, <2>3
<1>6. QED
  BY <1>2, <1>4, <1>5 DEF FirstPlaces

ComesBefore(names, f, g) ==
  \E i \in DOMAIN names : names[i] = f /\ \A j \in 1 .. i : names[j] # g

LEMMA BeforeIs ==
  ASSUME NEW s, IsFields(s), NEW f, NEW g, NEW p, NEW q, FirstOf(s, f, p), FirstOf(s, g, q)
  PROVE  ComesBefore(FieldNames(s), f, g) <=> p < q
<1>1. Len(s) \in Nat /\ DOMAIN s = 1 .. Len(s) /\ DOMAIN s \subseteq Nat
  BY SeqShape DEF IsFields
<1>2. /\ p \in DOMAIN s /\ s[p].name = f /\ \A j \in DOMAIN s : s[j].name = f => p <= j
      /\ q \in DOMAIN s /\ s[q].name = g /\ \A j \in DOMAIN s : s[j].name = g => q <= j
      /\ p \in Nat /\ q \in Nat
  BY <1>1 DEF FirstOf
<1> DEFINE names == FieldNames(s)
<1>3. DOMAIN names = DOMAIN s /\ \A i \in DOMAIN s : names[i] = s[i].name
  BY DEF FieldNames
<1> HIDE DEF names
<1>4. \A i \in DOMAIN s : \A j \in 1 .. i : j \in DOMAIN s
  BY <1>1
<1>5. ASSUME NEW i \in DOMAIN names, names[i] = f, \A j \in 1 .. i : names[j] # g PROVE p < q
  <2>1. i \in DOMAIN s /\ p <= i /\ i \in Nat
    BY <1>1, <1>2, <1>3, <1>5
  <2>2. q \notin 1 .. i
    BY <1>2, <1>3, <1>5
  <2>3. q \in 1 .. Len(s)
    BY <1>1, <1>2
  <2>4. QED
    BY <1>1, <1>2, <2>1, <2>2, <2>3
<1>6. ASSUME p < q PROVE ComesBefore(names, f, g)
  <2>1. \A j \in 1 .. p : j \in DOMAIN s /\ ~(q <= j)
    BY <1>1, <1>2, <1>4, <1>6
  <2>2. QED
    BY <1>2, <1>3, <2>1 DEF ComesBefore
<1>7. QED
  BY <1>5, <1>6 DEF ComesBefore, names

(* The order is found fault with if one of the three comes too early.      *)
LEMMA OrderJudged ==
  ASSUME NEW s, IsFields(s), Absent(s) = {}
  PROVE  OrderOf(s) # RequiredMizanFields
           <=> \/ ComesBefore(FieldNames(s), "la_tukhsiru", "la_tatghaw")
               \/ ComesBefore(FieldNames(s), "bil_qist", "la_tukhsiru")
<1>1. "la_tatghaw" \in Present(s) /\ "la_tukhsiru" \in Present(s) /\ "bil_qist" \in Present(s)
  BY RequiredAre DEF Absent
<1>2. PICK pa \in DOMAIN s : FirstOf(s, "la_tatghaw", pa)
  BY <1>1, FirstExists
<1>3. PICK pb \in DOMAIN s : FirstOf(s, "la_tukhsiru", pb)
  BY <1>1, FirstExists
<1>4. PICK pc \in DOMAIN s : FirstOf(s, "bil_qist", pc)
  BY <1>1, FirstExists
<1>5. /\ pa \in Nat /\ pb \in Nat /\ pc \in Nat
      /\ pa \in FirstPlaces(s) /\ pb \in FirstPlaces(s) /\ pc \in FirstPlaces(s)
      /\ \A i \in FirstPlaces(s) : /\ s[i].name = "la_tatghaw" => i = pa
                                   /\ s[i].name = "la_tukhsiru" => i = pb
                                   /\ s[i].name = "bil_qist" => i = pc
  BY <1>2, <1>3, <1>4, FirstIs
<1>6. s[pa].name = "la_tatghaw" /\ s[pb].name = "la_tukhsiru" /\ s[pc].name = "bil_qist"
  BY <1>2, <1>3, <1>4 DEF FirstOf
<1>7. pa # pb /\ pb # pc /\ pa # pc
  BY <1>6
<1>8. FirstPlaces(s) = {pa, pb, pc}
  <2>1. \A i \in FirstPlaces(s) : s[i].name \in {"la_tatghaw", "la_tukhsiru", "bil_qist"}
    BY RequiredAre DEF IsFields, FirstPlaces
  <2>2. QED
    BY <1>5, <2>1
<1>9. /\ ComesBefore(FieldNames(s), "la_tukhsiru", "la_tatghaw") <=> pb < pa
      /\ ComesBefore(FieldNames(s), "bil_qist", "la_tukhsiru") <=> pc < pb
  BY <1>2, <1>3, <1>4, BeforeIs
<1> DEFINE F == FirstPlaces(s)
           r == OrderOf(s)
           o == InOrder(F)
<1>10. /\ Places(F) /\ DOMAIN r = 1 .. Cardinality(F) /\ IsSeq(r) /\ Len(r) = Cardinality(F)
       /\ \A k \in DOMAIN r : r[k] = s[o[k]].name
  BY OrderIs
<1>11. ASSUME pa < pb, pb < pc PROVE r = RequiredMizanFields
  <2>1. o = <<pa, pb, pc>>
    BY <1>5, <1>8, <1>11, ThreeInOrder
  <2>2. o[1] = pa /\ o[2] = pb /\ o[3] = pc /\ Len(o) = 3
    BY <2>1
  <2>3. Len(r) = 3
    BY <1>10, <2>2, InOrderIs
  <2>4. IsSeq(RequiredMizanFields) /\ Len(RequiredMizanFields) = 3
    <3>1. RequiredMizanFields \in Seq(MizanFields)
      BY DEF RequiredMizanFields, MizanFields
    <3>2. QED
      BY <3>1 DEF IsSeq, RequiredMizanFields
  <2>5. \A k \in 1 .. 3 : r[k] = RequiredMizanFields[k]
    <3>1. DOMAIN r = 1 .. 3 /\ 1 \in 1 .. 3 /\ 2 \in 1 .. 3 /\ 3 \in 1 .. 3
      BY <1>10, <2>3, SeqShape
    <3> HIDE DEF r, o
    <3>2. r[1] = s[pa].name /\ r[2] = s[pb].name /\ r[3] = s[pc].name
      BY <1>10, <2>2, <3>1
    <3>3. \A k \in 1 .. 3 : k = 1 \/ k = 2 \/ k = 3
      OBVIOUS
    <3>4. QED
      BY <1>6, <3>2, <3>3, RequiredAre
  <2> HIDE DEF r
  <2>6. QED
    BY <1>10, <2>3, <2>4, <2>5, SameSeq
<1>12. ASSUME r = RequiredMizanFields PROVE pa < pb /\ pb < pc
  <2>1. DOMAIN RequiredMizanFields = 1 .. 3
    BY DEF RequiredMizanFields
  <2>2. 1 \in DOMAIN r /\ 2 \in DOMAIN r /\ 3 \in DOMAIN r
    BY <1>12, <2>1
  <2>3. DOMAIN o = DOMAIN r
    BY <1>10, InOrderIs
  <2>4. (\A k \in DOMAIN o : o[k] \in F) /\ \A j, k \in DOMAIN o : j < k => o[j] < o[k]
    BY <1>10, InOrderFacts DEF InRanks
  <2> HIDE DEF r, o
  <2>5. s[o[1]].name = "la_tatghaw" /\ s[o[2]].name = "la_tukhsiru" /\ s[o[3]].name = "bil_qist"
    BY <1>10, <1>12, <2>2, RequiredAre
  <2>6. o[1] = pa /\ o[2] = pb /\ o[3] = pc
    BY <1>5, <2>2, <2>3, <2>4, <2>5
  <2>7. 1 < 2 /\ 2 < 3
    OBVIOUS
  <2>8. QED
    BY <2>2, <2>3, <2>4, <2>6, <2>7
<1>13. (pa < pb /\ pb < pc) <=> ~(pb < pa \/ pc < pb)
  BY <1>5, <1>7
<1>14. QED
  BY <1>9, <1>11, <1>12, <1>13

(* The places of the findings of a rule.                                   *)
FoundBy(rule, found) == {i \in DOMAIN found : found[i].rule = rule}

LEMMA MaradIs ==
  \A rule, about : MizanMarad(rule, about).rule = rule /\ MizanMarad(rule, about).about = about
BY DEF MizanMarad

(* Repetitions first, then what is missing, then the order.                *)
LEMMA RulesAre ==
  ASSUME NEW decl, IsFields(decl.fields)
  PROVE  LET s == decl.fields
             a == Cardinality(Repeated(s))
             b == Cardinality(AbsentPlaces(s))
             found == MizanMarads(decl)
         IN /\ FoundBy("M1", found) = a + 1 .. a + b
            /\ FoundBy("M4", found) # {} <=> OrderMarads(s) # << >>
            /\ \A i \in DOMAIN found :
                 found[i].rule = "M2" <=> i \in 1 .. a
            /\ found = << >> <=> a = 0 /\ b = 0 /\ OrderMarads(s) = << >>
<1> DEFINE s == decl.fields
           a == Cardinality(Repeated(s))
           b == Cardinality(AbsentPlaces(s))
           C == OrderMarads(s)
           found == MizanMarads(decl)
<1>1. /\ a \in Nat /\ b \in Nat
      /\ IsSeq(found) /\ Len(found) = a + b + Len(C)
      /\ Len(C) \in {0, 1}
      /\ C = << >> <=> Len(C) = 0
  BY FindingsAre
<1>0. /\ \A i \in 1 .. a : found[i].rule = "M2"
      /\ \A i \in 1 .. b : found[a + i].rule = "M1"
      /\ Len(C) = 1 => found[a + b + 1].rule = "M4"
  <2>1. ASSUME NEW i \in 1 .. a PROVE found[i].rule = "M2"
    <3>1. found[i] = MizanMarad("M2", s[InOrder(Repeated(s))[i]].name)
      BY FindingsAre
    <3> HIDE DEF found, a, b, C, s
    <3>2. QED
      BY <3>1, MaradIs
  <2>2. ASSUME NEW i \in 1 .. b PROVE found[a + i].rule = "M1"
    <3>1. found[a + i] = MizanMarad("M1", RequiredMizanFields[InOrder(AbsentPlaces(s))[i]])
      BY FindingsAre
    <3> HIDE DEF found, a, b, C, s
    <3>2. QED
      BY <3>1, MaradIs
  <2>3. ASSUME Len(C) = 1 PROVE found[a + b + 1].rule = "M4"
    <3>1. found[a + b + 1] = MizanMarad("M4", "")
      BY <2>3, FindingsAre
    <3> HIDE DEF found, a, b, C, s
    <3>2. QED
      BY <3>1, MaradIs
  <2> HIDE DEF found, a, b, C, s
  <2>4. QED
    BY <2>1, <2>2, <2>3
<1> HIDE DEF found, a, b, C, s
<1>2. PICK c \in Nat : c = Len(C) /\ c \in {0, 1}
  BY <1>1
<1>3. DOMAIN found = 1 .. (a + b + c) /\ (found = << >> <=> a + b + c = 0)
  BY <1>1, <1>2, SeqShape
<1>4. ASSUME NEW i \in DOMAIN found
      PROVE  \/ i \in 1 .. a /\ found[i].rule = "M2"
             \/ i \in a + 1 .. a + b /\ found[i].rule = "M1"
             \/ i = a + b + 1 /\ c = 1 /\ found[i].rule = "M4"
  <2>1. CASE i \in 1 .. a
    BY <1>0, <1>1, <2>1
  <2>2. CASE i \in a + 1 .. a + b
    <3>1. i - a \in 1 .. b /\ a + (i - a) = i
      BY <1>1, <2>2
    <3>2. QED
      BY <1>0, <1>1, <2>2, <3>1
  <2>3. CASE i \notin 1 .. a /\ i \notin a + 1 .. a + b
    <3>1. i = a + b + 1 /\ c = 1
      <4>1. i \in 1 .. (a + b + c)
        BY <1>3
      <4>2. c = 0 \/ c = 1
        BY <1>2
      <4>3. QED
        BY <1>1, <2>3, <4>1, <4>2
    <3>2. QED
      BY <1>0, <1>1, <1>2, <3>1
  <2>4. QED
    BY <2>1, <2>2, <2>3
<1>5. "M1" # "M2" /\ "M1" # "M4" /\ "M2" # "M4"
  OBVIOUS
<1>6. FoundBy("M1", found) = a + 1 .. a + b
  <2>1. a + 1 .. a + b \subseteq DOMAIN found
    BY <1>1, <1>2, <1>3
  <2>2. \A i \in a + 1 .. a + b : i \notin 1 .. a /\ i # a + b + 1
    BY <1>1
  <2>3. QED
    BY <1>4, <1>5, <2>1, <2>2 DEF FoundBy
<1>7. FoundBy("M4", found) # {} <=> c = 1
  <2>1. c = 1 => a + b + 1 \in DOMAIN found
    <3>1. c = 1 => a + b + 1 \in 1 .. (a + b + c)
      BY <1>1
    <3>2. QED
      BY <1>3, <3>1
  <2>2. QED
    BY <1>1, <1>2, <1>4, <1>5, <2>1 DEF FoundBy
<1>8. \A i \in DOMAIN found : found[i].rule = "M2" <=> i \in 1 .. a
  <2>1. \A i \in 1 .. a : i \notin a + 1 .. a + b /\ i # a + b + 1
    BY <1>1
  <2>2. QED
    BY <1>4, <1>5, <2>1
<1>9. a + b + c = 0 <=> a = 0 /\ b = 0 /\ c = 0
  BY <1>1
<1>10. C = << >> <=> c = 0
  BY <1>1, <1>2
<1>11. c = 1 <=> ~(c = 0)
  BY <1>2
<1>12. /\ FoundBy("M1", found) = a + 1 .. a + b
       /\ FoundBy("M4", found) # {} <=> C # << >>
       /\ \A i \in DOMAIN found : found[i].rule = "M2" <=> i \in 1 .. a
       /\ found = << >> <=> a = 0 /\ b = 0 /\ C = << >>
  BY <1>3, <1>6, <1>7, <1>8, <1>9, <1>10, <1>11
<1>13. QED
  BY <1>12 DEF found, a, b, C, s

(* A repetition is every field of a name but the first.                    *)
LEMMA RepetitionsCount ==
  ASSUME NEW s, IsFields(s), NEW f \in Present(s)
  PROVE  Cardinality({i \in Repeated(s) : s[i].name = f}) = Cardinality({i \in DOMAIN s : s[i].name = f}) - 1
<1> DEFINE A == {i \in DOMAIN s : s[i].name = f}
           B == {i \in Repeated(s) : s[i].name = f}
<1>1. PICK p \in DOMAIN s : FirstOf(s, f, p)
  BY FirstExists
<1>2. p \in FirstPlaces(s) /\ \A i \in FirstPlaces(s) : s[i].name = f => i = p
  BY <1>1, FirstIs
<1>3. p \in A
  BY <1>1 DEF FirstOf
<1>4. B = A \ {p}
  BY <1>2 DEF Repeated, FirstPlaces
<1>5. IsFiniteSet(A)
  <2>1. Len(s) \in Nat /\ A \subseteq 1 .. Len(s)
    BY SeqShape DEF IsFields
  <2> HIDE DEF A
  <2>2. QED
    BY <2>1, PlacesWithin DEF Places
<1> HIDE DEF A, B
<1>6. QED
  BY <1>3, <1>4, <1>5, FS_RemoveElement DEF A, B

LEMMA RepeatedNone ==
  ASSUME NEW s, IsFields(s), Repeated(s) = {}
  PROVE  OrderOf(s) = FieldNames(s)
<1>1. Len(s) \in Nat /\ DOMAIN s = 1 .. Len(s)
  BY SeqShape DEF IsFields
<1> DEFINE n == Len(s)
<1>2. FirstPlaces(s) = 1 .. n
  BY <1>1 DEF Repeated, FirstPlaces
<1>3. Firsts(s) = [k \in 1 .. n |-> k]
  BY <1>1, <1>2, InOrderAll DEF Firsts, FirstPlaces
<1>4. QED
  BY <1>1, <1>3 DEF OrderOf, FieldNames

LEMMA FieldNamesAre ==
  ASSUME NEW s, IsFields(s)
  PROVE  /\ DOMAIN FieldNames(s) = DOMAIN s /\ \A i \in DOMAIN s : FieldNames(s)[i] = s[i].name
         /\ {FieldNames(s)[i] : i \in DOMAIN FieldNames(s)} = Present(s)
BY DEF FieldNames, Present

(* What a repetition is reported with.                                     *)
LEMMA M2Count ==
  ASSUME NEW decl, IsFields(decl.fields), NEW f \in Present(decl.fields)
  PROVE  LET found == MizanMarads(decl)
         IN Cardinality({i \in DOMAIN found : found[i] = MizanMarad("M2", f)})
              = Cardinality({i \in DOMAIN decl.fields : decl.fields[i].name = f}) - 1
<1> DEFINE s == decl.fields
           a == Cardinality(Repeated(s))
           found == MizanMarads(decl)
           X == {i \in DOMAIN found : found[i] = MizanMarad("M2", f)}
           B == {i \in Repeated(s) : s[i].name = f}
           o == InOrder(Repeated(s))
           Y == {k \in 1 .. a : o[k] \in B}
<1>1. /\ \A i \in 1 .. a : found[i] = MizanMarad("M2", s[o[i]].name)
      /\ \A i \in DOMAIN found : found[i].rule = "M2" <=> i \in 1 .. a
      /\ Places(Repeated(s))
  BY FindingsAre, RulesAre
<1>2. 1 .. a \subseteq DOMAIN found
  <2>1. /\ IsSeq(found) /\ Len(found) = a + Cardinality(AbsentPlaces(s)) + Len(OrderMarads(s))
        /\ a \in Nat /\ Cardinality(AbsentPlaces(s)) \in Nat /\ Len(OrderMarads(s)) \in {0, 1}
    BY FindingsAre
  <2> DEFINE b == Cardinality(AbsentPlaces(s))
             C == OrderMarads(s)
  <2> HIDE DEF found, a, b, C
  <2>2. DOMAIN found = 1 .. Len(found)
    BY <2>1, SeqShape
  <2>3. PICK c \in Nat : c = Len(C)
    BY <2>1 DEF C
  <2>4. Len(found) = a + b + c /\ a \in Nat /\ b \in Nat
    BY <2>1, <2>3 DEF b, C
  <2>5. QED
    BY <2>2, <2>4
<1>3. \A k \in 1 .. a : o[k] \in Repeated(s)
  BY <1>1, InOrderIs, InOrderFacts DEF InRanks
<1>4. X = Y
  <2>1. ASSUME NEW i \in X PROVE i \in Y
    <3>1. found[i].rule = "M2"
      BY MaradIs
    <3>2. i \in 1 .. a
      BY <1>1, <3>1
    <3>3. MizanMarad("M2", s[o[i]].name) = MizanMarad("M2", f)
      BY <1>1, <3>2
    <3>4. s[o[i]].name = f
      BY <3>3, MaradIs
    <3>5. QED
      BY <1>3, <3>2, <3>4
  <2>2. ASSUME NEW i \in Y PROVE i \in X
    <3>1. s[o[i]].name = f /\ i \in 1 .. a
      OBVIOUS
    <3>2. QED
      BY <1>1, <1>2, <3>1
  <2> HIDE DEF X, Y
  <2>3. QED
    BY <2>1, <2>2
<1>5. Cardinality(Y) = Cardinality(B)
  <2>1. B \in SUBSET Repeated(s)
    OBVIOUS
  <2> HIDE DEF B
  <2>2. QED
    BY <1>1, <2>1, InOrderCount
<1>6. Cardinality(B) = Cardinality({i \in DOMAIN s : s[i].name = f}) - 1
  BY RepetitionsCount
<1>7. QED
  BY <1>4, <1>5, <1>6

(* What is missing is reported.                                            *)
LEMMA M1Found ==
  ASSUME NEW decl, IsFields(decl.fields)
  PROVE  LET found == MizanMarads(decl)
         IN /\ Cardinality(FoundBy("M1", found)) = Cardinality(Absent(decl.fields))
            /\ {found[i].about : i \in FoundBy("M1", found)} = Absent(decl.fields)
<1> DEFINE s == decl.fields
           a == Cardinality(Repeated(s))
           A == AbsentPlaces(s)
           b == Cardinality(A)
           found == MizanMarads(decl)
<1>1. /\ a \in Nat /\ b \in Nat
      /\ FoundBy("M1", found) = a + 1 .. a + b
  BY FindingsAre, RulesAre
<1>2. \A i \in 1 .. b : /\ InOrder(A)[i] \in A
                        /\ found[a + i] = MizanMarad("M1", RequiredMizanFields[InOrder(A)[i]])
  BY FindingsAre
<1>3. Cardinality(A) = Cardinality(Absent(s)) /\ Places(A) /\ {RequiredMizanFields[i] : i \in A} = Absent(s)
  BY AbsentCount
<1>4. \A i \in 1 .. b : found[a + i].about = RequiredMizanFields[InOrder(A)[i]]
  <2>1. ASSUME NEW i \in 1 .. b PROVE found[a + i].about = RequiredMizanFields[InOrder(A)[i]]
    <3>1. found[a + i] = MizanMarad("M1", RequiredMizanFields[InOrder(A)[i]])
      BY <1>2
    <3> HIDE DEF found, a, b, A, s
    <3>2. QED
      BY <3>1, MaradIs
  <2> HIDE DEF found, a, b, A, s
  <2>2. QED
    BY <2>1
<1>5. \A x \in A : \E k \in 1 .. b : InOrder(A)[k] = x
  BY <1>3, InOrderIs, InOrderFacts DEF InRanks
<1> DEFINE R == {found[i].about : i \in a + 1 .. a + b}
<1>6. R = Absent(s)
  <2>1. ASSUME NEW i \in a + 1 .. a + b PROVE found[i].about \in Absent(s)
    <3>1. i - a \in 1 .. b /\ a + (i - a) = i
      <4> HIDE DEF a, b
      <4>1. QED
        BY <1>1, <2>1
    <3> DEFINE k == i - a
    <3>2. k \in 1 .. b /\ a + k = i
      BY <3>1
    <3> HIDE DEF k, a, b, found, A, s
    <3>3. found[i].about = RequiredMizanFields[InOrder(A)[k]] /\ InOrder(A)[k] \in A
      BY <1>2, <1>4, <3>2
    <3>4. QED
      BY <1>3, <3>3
  <2>2. ASSUME NEW x \in Absent(s) PROVE \E i \in a + 1 .. a + b : found[i].about = x
    <3>1. PICK j \in A : RequiredMizanFields[j] = x
      BY <1>3
    <3>2. PICK k \in 1 .. b : InOrder(A)[k] = j
      BY <1>5
    <3>3. a + k \in a + 1 .. a + b
      <4> HIDE DEF a, b
      <4>1. QED
        BY <1>1
    <3>4. found[a + k].about = x
      BY <1>4, <3>1, <3>2
    <3>5. QED
      BY <3>3, <3>4
  <2> HIDE DEF found, a, b, A, s
  <2>3. QED
    BY <2>1, <2>2
<1>7. Cardinality(a + 1 .. a + b) = b
  <2> HIDE DEF a, b
  <2>1. a + 1 \in Int /\ a + b \in Int
    BY <1>1
  <2>2. Cardinality(a + 1 .. a + b) = IF a + 1 > a + b THEN 0 ELSE (a + b) - (a + 1) + 1
    BY <2>1, FS_Interval
  <2>3. QED
    BY <1>1, <2>2
<1>8. QED
  BY <1>1, <1>3, <1>6, <1>7

LEMMA NothingFound ==
  ASSUME NEW decl, IsFields(decl.fields)
  PROVE  MizanMarads(decl) = << >> <=> FieldNames(decl.fields) = RequiredMizanFields
<1> DEFINE s == decl.fields
           a == Cardinality(Repeated(s))
           b == Cardinality(AbsentPlaces(s))
<1>1. MizanMarads(decl) = << >> <=> a = 0 /\ b = 0 /\ OrderMarads(s) = << >>
  BY RulesAre
<1>2. Places(Repeated(s)) /\ Places(AbsentPlaces(s)) /\ b = Cardinality(Absent(s))
  BY FindingsAre, AbsentCount
<1>3. a = 0 <=> Repeated(s) = {}
  BY <1>2, FS_EmptySet DEF Places
<1>4. b = 0 <=> Absent(s) = {}
  <2>1. AbsentPlaces(s) = {} <=> Absent(s) = {}
    <3>1. {RequiredMizanFields[i] : i \in AbsentPlaces(s)} = Absent(s)
      BY AbsentCount
    <3>2. QED
      BY <3>1
  <2>2. b = 0 <=> AbsentPlaces(s) = {}
    BY <1>2, FS_EmptySet DEF Places
  <2>3. QED
    BY <2>1, <2>2
<1>5. OrderMarads(s) = << >> <=> ~(Absent(s) = {} /\ OrderOf(s) # RequiredMizanFields)
  BY OrderIs
<1>6. Repeated(s) = {} => OrderOf(s) = FieldNames(s)
  BY RepeatedNone
<1>7. ASSUME FieldNames(s) = RequiredMizanFields PROVE Repeated(s) = {} /\ Absent(s) = {}
  <2>1. DOMAIN s = 1 .. 3 /\ \A i \in DOMAIN s : s[i].name = RequiredMizanFields[i]
    <3>1. DOMAIN RequiredMizanFields = 1 .. 3
      BY DEF RequiredMizanFields
    <3>2. DOMAIN FieldNames(s) = DOMAIN s /\ \A i \in DOMAIN s : FieldNames(s)[i] = s[i].name
      BY FieldNamesAre
    <3>3. QED
      BY <1>7, <3>1, <3>2
  <2> HIDE DEF s
  <2>2. \A i, j \in DOMAIN s : s[i].name = s[j].name => i = j
    <3>1. \A i, j \in 1 .. 3 : RequiredMizanFields[i] = RequiredMizanFields[j] => i = j
      BY RequiredAre
    <3>2. QED
      BY <2>1, <3>1
  <2>3. Repeated(s) = {}
    <3>1. \A i \in DOMAIN s : \A j \in 1 .. i - 1 : j \in DOMAIN s /\ j # i
      BY <2>1
    <3>2. QED
      BY <2>2, <3>1 DEF Repeated, IsFirst
  <2>4. Absent(s) = {}
    <3>1. 1 \in DOMAIN s /\ 2 \in DOMAIN s /\ 3 \in DOMAIN s
      BY <2>1
    <3>2. QED
      BY <2>1, <3>1, RequiredAre DEF Absent, Present
  <2>5. QED
    BY <2>3, <2>4
<1>8. QED
  BY <1>1, <1>3, <1>4, <1>5, <1>6, <1>7

(* The judgement on a mizan block, whatever its fields.                    *)
LEMMA Verdict ==
  ASSUME NEW decl, IsFields(decl.fields)
  PROVE  WellJudged(FieldNames(decl.fields), MizanMarads(decl))
<1> DEFINE s == decl.fields
           fields == FieldNames(s)
           found == MizanMarads(decl)
           absent == MizanFields \ {fields[i] : i \in DOMAIN fields}
<1>1. /\ DOMAIN fields = DOMAIN s /\ \A i \in DOMAIN s : fields[i] = s[i].name
      /\ {fields[i] : i \in DOMAIN fields} = Present(s)
  BY FieldNamesAre
<1>2. absent = Absent(s)
  BY <1>1 DEF Absent
<1>3. found = << >> <=> fields = <<"la_tatghaw", "la_tukhsiru", "bil_qist">>
  BY NothingFound DEF RequiredMizanFields
<1>4. /\ Cardinality(FoundBy("M1", found)) = Cardinality(absent)
      /\ {found[i].about : i \in FoundBy("M1", found)} = absent
  BY <1>2, M1Found
<1>5. ASSUME NEW f \in MizanFields \ absent
      PROVE  Cardinality({i \in DOMAIN found : found[i] = MizanMarad("M2", f)})
               = Cardinality({i \in DOMAIN fields : fields[i] = f}) - 1
  <2>1. f \in Present(s)
    BY <1>2 DEF Absent
  <2>2. {i \in DOMAIN fields : fields[i] = f} = {i \in DOMAIN s : s[i].name = f}
    BY <1>1
  <2>3. QED
    BY <2>1, <2>2, M2Count
<1>6. FoundBy("M4", found) # {}
        <=> /\ absent = {}
            /\ \/ ComesBefore(fields, "la_tukhsiru", "la_tatghaw")
               \/ ComesBefore(fields, "bil_qist", "la_tukhsiru")
  <2>1. FoundBy("M4", found) # {} <=> OrderMarads(s) # << >>
    BY RulesAre
  <2>2. OrderMarads(s) = << >> <=> ~(Absent(s) = {} /\ OrderOf(s) # RequiredMizanFields)
    BY OrderIs
  <2>3. Absent(s) = {} =>
          (OrderOf(s) # RequiredMizanFields
             <=> \/ ComesBefore(fields, "la_tukhsiru", "la_tatghaw")
                 \/ ComesBefore(fields, "bil_qist", "la_tukhsiru"))
    BY OrderJudged
  <2> HIDE DEF absent, fields, found, s
  <2>4. QED
    BY <1>2, <2>1, <2>2, <2>3
<1> HIDE DEF fields, found, s
<1>7. WellJudged(fields, found)
  BY <1>3, <1>4, <1>5, <1>6, Zenon DEF WellJudged, FoundBy, ComesBefore
<1>8. QED
  BY <1>7 DEF fields, found, s

-----------------------------------------------------------------------------
(* The verdict on the layers of a function.                                *)
TwoLayers == {"zahir", "batin"}
LayerKnown(layer) == layer \in TwoLayers \cup {"none"}

(* What the lists of a function hold.                                      *)
Qualified(module, fn) ==
  {fn.params[i] : i \in {i \in DOMAIN fn.params :
                           fn.params[i].type_path.base \in CompoundTypeNames(module)}}
NamesOf(P) == {p.name : p \in P}
DeclaredIn(P, n) == {p.type_path.layer : p \in {p \in P : p.name = n}}
ReadIn(A, n) == {a.layer : a \in {a \in A : a.param_name = n}}

IsFunction(fn) ==
  /\ IsSeq(fn.params) /\ IsSeq(fn.accesses)
  /\ \A i \in DOMAIN fn.params : LayerKnown(fn.params[i].type_path.layer)
  /\ \A i \in DOMAIN fn.accesses : fn.accesses[i].layer \in TwoLayers

LEMMA ChosenListed ==
  ASSUME NEW s, NEW S, Places(S)
  PROVE  Held(Chosen(s, S)) = {s[i] : i \in S}
<1>1. /\ DOMAIN Chosen(s, S) = 1 .. Cardinality(S)
      /\ \A k \in 1 .. Cardinality(S) : /\ Chosen(s, S)[k] = s[InOrder(S)[k]]
                                        /\ InOrder(S)[k] \in S
      /\ \A i \in S : \E k \in 1 .. Cardinality(S) : Chosen(s, S)[k] = s[i]
  BY ChosenIs
<1> DEFINE c == Chosen(s, S)
           n == Cardinality(S)
<1> HIDE DEF c, n
<1>2. \A k \in DOMAIN c : \E i \in S : c[k] = s[i]
  BY <1>1 DEF c, n
<1>3. \A i \in S : \E k \in DOMAIN c : c[k] = s[i]
  BY <1>1 DEF c, n
<1>4. Held(c) = {s[i] : i \in S}
  BY <1>2, <1>3 DEF Held
<1>5. QED
  BY <1>4 DEF c

LEMMA PlacesOf ==
  ASSUME NEW s, IsSeq(s), NEW S \in SUBSET (DOMAIN s)
  PROVE  Places(S)
<1>1. Len(s) \in Nat /\ S \subseteq 1 .. Len(s)
  BY SeqShape
<1>2. QED
  BY <1>1, PlacesWithin

LEMMA CompoundParamsAre ==
  ASSUME NEW module, NEW fn, IsFunction(fn)
  PROVE  /\ IsSeq(CompoundParams(module, fn))
         /\ Held(CompoundParams(module, fn)) = Qualified(module, fn)
<1> DEFINE S == {i \in DOMAIN fn.params : fn.params[i].type_path.base \in CompoundTypeNames(module)}
<1>1. Places(S)
  <2>1. S \in SUBSET (DOMAIN fn.params) /\ IsSeq(fn.params)
    BY DEF IsFunction
  <2> HIDE DEF S
  <2>2. QED
    BY <2>1, PlacesOf
<1>2. CompoundParams(module, fn) = Chosen(fn.params, S)
  BY DEF CompoundParams
<1>3. Qualified(module, fn) = {fn.params[i] : i \in S}
  BY DEF Qualified
<1> HIDE DEF S
<1>4. QED
  BY <1>1, <1>2, <1>3, ChosenIs, ChosenListed

LEMMA LastExists ==
  ASSUME NEW s, IsSeq(s), NEW n, \E i \in DOMAIN s : s[i].name = n
  PROVE  \E i \in DOMAIN s : /\ s[i].name = n
                             /\ \A j \in i + 1 .. Len(s) : s[j].name # n
<1>1. Len(s) \in Nat /\ DOMAIN s = 1 .. Len(s)
  BY SeqShape
<1> DEFINE m == Len(s)
           S == {k \in Nat : k < m /\ s[m - k].name = n}
<1> HIDE DEF m
<1>2. PICK i \in 1 .. m : s[i].name = n
  BY <1>1 DEF m
<1>3. S # {}
  <2>1. m - i \in Nat /\ m - i < m /\ m - (m - i) = i
    BY <1>1 DEF m
  <2>2. m - i \in S
    BY <1>2, <2>1
  <2>3. QED
    BY <2>2
<1>4. PICK k \in S : \A l \in S : k <= l
  <2>1. S \subseteq Nat
    OBVIOUS
  <2> HIDE DEF S
  <2>2. QED
    BY <1>3, <2>1, LeastNumber
<1>5. m - k \in 1 .. m /\ s[m - k].name = n
  BY <1>1, <1>4 DEF m
<1>6. ASSUME NEW j \in (m - k) + 1 .. m PROVE s[j].name # n
  <2>1. m - j \in Nat /\ m - j < k /\ m - j < m /\ m - (m - j) = j
    BY <1>1, <1>4 DEF m
  <2>2. ~(k <= m - j)
    BY <1>4, <2>1
  <2>3. m - j \notin S
    BY <1>4, <2>2
  <2>4. QED
    BY <2>1, <2>3
<1>7. QED
  BY <1>1, <1>5, <1>6 DEF m

LEMMA ParamLayersAre ==
  ASSUME NEW module, NEW fn, IsFunction(fn)
  PROVE  LET P == Qualified(module, fn)
             layers == ParamLayers(module, fn)
         IN /\ DOMAIN layers = NamesOf(P)
            /\ \A n \in NamesOf(P) : layers[n] \in DeclaredIn(P, n)
<1> DEFINE P == Qualified(module, fn)
           s == CompoundParams(module, fn)
           last(n) == CHOOSE i \in DOMAIN s : /\ s[i].name = n
                                              /\ \A j \in i + 1 .. Len(s) : s[j].name # n
           layers == ParamLayers(module, fn)
<1>1. IsSeq(s) /\ Held(s) = P
  BY CompoundParamsAre
<1>2. {s[i].name : i \in DOMAIN s} = NamesOf(P)
  <2> HIDE DEF s, P
  <2>1. QED
    BY <1>1 DEF NamesOf, Held
<1>3. layers = [n \in {s[i].name : i \in DOMAIN s} |-> s[last(n)].type_path.layer]
  BY DEF ParamLayers
<1> HIDE DEF layers, s, P
<1>4. ASSUME NEW n \in NamesOf(P) PROVE layers[n] \in DeclaredIn(P, n)
  <2>1. \E i \in DOMAIN s : s[i].name = n
    BY <1>2
  <2>2. \E i \in DOMAIN s : s[i].name = n /\ \A j \in i + 1 .. Len(s) : s[j].name # n
    BY <1>1, <2>1, LastExists
  <2>3. last(n) \in DOMAIN s /\ s[last(n)].name = n
    BY <2>2
  <2>4. layers[n] = s[last(n)].type_path.layer
    BY <1>2, <1>3
  <2> HIDE DEF last
  <2>5. s[last(n)] \in P
    BY <1>1, <2>3 DEF Held
  <2>6. QED
    BY <2>3, <2>4, <2>5 DEF DeclaredIn
<1>5. QED
  BY <1>2, <1>3, <1>4 DEF layers, P

TwoLists ==
  \A s, t : IsSeq(s) /\ IsSeq(t) => (s \o t = << >> <=> s = << >> /\ t = << >>)

LEMMA NothingJoined == TwoLists
<1> SUFFICES ASSUME NEW s, NEW t, IsSeq(s), IsSeq(t) PROVE s \o t = << >> <=> s = << >> /\ t = << >>
  BY DEF TwoLists
<1>1. /\ IsSeq(s \o t) /\ Len(s \o t) = Len(s) + Len(t)
      /\ Len(s) \in Nat /\ Len(t) \in Nat
      /\ s = << >> <=> Len(s) = 0
      /\ t = << >> <=> Len(t) = 0
  BY ConcatSeq, SeqShape
<1>2. s \o t = << >> <=> Len(s \o t) = 0
  BY <1>1, SeqShape
<1>3. QED
  BY <1>1, <1>2

(* A list of findings is empty if nothing was chosen.                      *)
LEMMA FindingsNone ==
  ASSUME NEW s, NEW S, Places(S), NEW marads, DOMAIN marads = DOMAIN Chosen(s, S),
         marads = [i \in DOMAIN marads |-> marads[i]]
  PROVE  IsSeq(marads) /\ (marads = << >> <=> S = {})
<1>1. Cardinality(S) \in Nat /\ DOMAIN Chosen(s, S) = 1 .. Cardinality(S)
  BY ChosenIs, FS_CardinalityType DEF Places
<1>2. IsSeq(marads) /\ Len(marads) = Cardinality(S)
  BY <1>1, SeqMade
<1>3. Cardinality(S) = 0 <=> S = {}
  BY FS_EmptySet DEF Places
<1>4. QED
  BY <1>2, <1>3, SeqShape

(* What the two halves of the checker find fault with.                     *)
Careless(P, fn) == {p \in P : p.type_path.layer = "none" /\ fn.name # "verify"}

LEMMA Case3Is ==
  ASSUME NEW module, NEW fn, IsFunction(fn)
  PROVE  /\ IsSeq(Case3Marads(module, fn))
         /\ Case3Marads(module, fn) = << >> <=> Careless(Qualified(module, fn), fn) = {}
<1> DEFINE params == CompoundParams(module, fn)
           S == {i \in DOMAIN params : params[i].type_path.layer = "none" /\ fn.name # "verify"}
           m == Case3Marads(module, fn)
<1>1. IsSeq(params) /\ Held(params) = Qualified(module, fn)
  BY CompoundParamsAre
<1>2. DOMAIN m = DOMAIN Chosen(params, S) /\ m = [i \in DOMAIN m |-> m[i]]
  BY DEF Case3Marads
<1> HIDE DEF params, m
<1>3. Places(S)
  <2>1. S \in SUBSET (DOMAIN params)
    OBVIOUS
  <2> HIDE DEF S
  <2>2. QED
    BY <1>1, <2>1, PlacesOf
<1>4. S = {} <=> Careless(Qualified(module, fn), fn) = {}
  BY <1>1 DEF Careless, Held
<1> HIDE DEF S
<1>5. IsSeq(m) /\ (m = << >> <=> S = {})
  BY <1>2, <1>3, FindingsNone
<1>6. QED
  BY <1>4, <1>5 DEF m

Misread(module, fn) ==
  {i \in DOMAIN fn.accesses :
     /\ fn.accesses[i].param_name \in DOMAIN ParamLayers(module, fn)
     /\ ParamLayers(module, fn)[fn.accesses[i].param_name] \notin {"none", fn.accesses[i].layer}}

LEMMA AccessIs ==
  ASSUME NEW module, NEW fn, IsFunction(fn)
  PROVE  /\ IsSeq(AccessMarads(module, fn))
         /\ AccessMarads(module, fn) = << >> <=> Misread(module, fn) = {}
<1> DEFINE S == Misread(module, fn)
           m == AccessMarads(module, fn)
<1>1. DOMAIN m = DOMAIN Chosen(fn.accesses, S) /\ m = [i \in DOMAIN m |-> m[i]]
  BY DEF AccessMarads, Misread
<1>2. Places(S)
  <2>1. S \in SUBSET (DOMAIN fn.accesses) /\ IsSeq(fn.accesses)
    BY DEF Misread, IsFunction
  <2> HIDE DEF S
  <2>2. QED
    BY <2>1, PlacesOf
<1> HIDE DEF S, m
<1>3. IsSeq(m) /\ (m = << >> <=> S = {})
  BY <1>1, <1>2, FindingsNone
<1>4. QED
  BY <1>3 DEF S, m

LEMMA LayersJudged ==
  ASSUME NEW module, NEW fn, IsFunction(fn)
  PROVE  LET P == Qualified(module, fn)
             A == Held(fn.accesses)
         IN IF LayerMarads(module, fn) = << >>
            THEN \A n \in NamesOf(P) :
                   IF "none" \in DeclaredIn(P, n) THEN fn.name = "verify"
                   ELSE Cardinality(ReadIn(A, n)) <= 1 /\ ReadIn(A, n) \subseteq DeclaredIn(P, n)
            ELSE \E n \in NamesOf(P) : \/ "none" \in DeclaredIn(P, n) /\ fn.name # "verify"
                                       \/ TwoLayers \subseteq DeclaredIn(P, n) \cup ReadIn(A, n)
<1> DEFINE P == Qualified(module, fn)
           A == Held(fn.accesses)
           layers == ParamLayers(module, fn)
<1>1. LayerMarads(module, fn) = << >> <=> Careless(P, fn) = {} /\ Misread(module, fn) = {}
  BY Case3Is, AccessIs, NothingJoined DEF TwoLists, LayerMarads
<1>2. DOMAIN layers = NamesOf(P) /\ \A n \in NamesOf(P) : layers[n] \in DeclaredIn(P, n)
  BY ParamLayersAre
<1>3. \A p \in P : LayerKnown(p.type_path.layer)
  BY DEF Qualified, IsFunction
<1>4. \A a \in A : a.layer \in TwoLayers
  BY DEF Held, IsFunction
<1>5. Misread(module, fn) = {} <=>
       \A a \in A : a.param_name \in NamesOf(P) => layers[a.param_name] \in {"none", a.layer}
  BY <1>2 DEF Misread, Held
<1> HIDE DEF P, A, layers
<1>6. ASSUME Careless(P, fn) = {},
             \A a \in A : a.param_name \in NamesOf(P) => layers[a.param_name] \in {"none", a.layer},
             NEW n \in NamesOf(P)
      PROVE  IF "none" \in DeclaredIn(P, n) THEN fn.name = "verify"
             ELSE Cardinality(ReadIn(A, n)) <= 1 /\ ReadIn(A, n) \subseteq DeclaredIn(P, n)
  <2>1. CASE "none" \in DeclaredIn(P, n)
    BY <1>6, <2>1 DEF Careless, DeclaredIn
  <2>2. CASE "none" \notin DeclaredIn(P, n)
    <3>1. layers[n] # "none"
      BY <1>2, <2>2
    <3>2. ReadIn(A, n) \subseteq {layers[n]}
      BY <1>6, <3>1 DEF ReadIn
    <3>3. Cardinality(ReadIn(A, n)) <= 1
      <4>1. IsFiniteSet({layers[n]}) /\ Cardinality({layers[n]}) = 1
        BY FS_Singleton
      <4>2. QED
        BY <3>2, <4>1, FS_Subset
    <3>4. QED
      BY <1>2, <2>2, <3>2, <3>3
  <2>3. QED
    BY <2>1, <2>2
<1>7. ASSUME Careless(P, fn) # {}
      PROVE  \E n \in NamesOf(P) : "none" \in DeclaredIn(P, n) /\ fn.name # "verify"
  BY <1>7 DEF Careless, NamesOf, DeclaredIn
<1>8. ASSUME NEW a \in A, a.param_name \in NamesOf(P), layers[a.param_name] \notin {"none", a.layer}
      PROVE  \E n \in NamesOf(P) : TwoLayers \subseteq DeclaredIn(P, n) \cup ReadIn(A, n)
  <2> DEFINE n == a.param_name
  <2>1. n \in NamesOf(P) /\ layers[n] \in DeclaredIn(P, n) /\ layers[n] # "none" /\ layers[n] # a.layer
    BY <1>2, <1>8
  <2>2. a.layer \in ReadIn(A, n) /\ a.layer \in TwoLayers
    BY <1>4 DEF ReadIn
  <2>3. layers[n] \in TwoLayers
    BY <1>3, <2>1 DEF DeclaredIn, LayerKnown
  <2>4. TwoLayers \subseteq {layers[n], a.layer}
    BY <2>1, <2>2, <2>3 DEF TwoLayers
  <2>5. QED
    BY <2>1, <2>2, <2>4
<1>9. QED
  BY <1>1, <1>5, <1>6, <1>7, <1>8 DEF P, A
=============================================================================
