--------------------------- MODULE ArchiveIOProofs ---------------------------
(***************************************************************************)
(* The archive writer and the archive reader: types, and what all proofs   *)
(* about stream processors need of sequences: segments and the bytes in    *)
(* them, the encodings of the filters, and the operations the main thread  *)
(* has left.                                                               *)
(*                                                                         *)
(* Sequences are described by a predicate and not by the set their         *)
(* elements come from: a filter encodes what another one has encoded, and  *)
(* no set of tokens is closed under that.                                  *)
(*                                                                         *)
(* Whether what the main thread has left to do is sensible is shown as one *)
(* shows it of a program: an operation takes what is known before it to    *)
(* what is known after it, and sequences of operations are composed.       *)
(***************************************************************************)
EXTENDS ArchiveIO, SequenceTheorems, WellFoundedInduction, TLAPS

Ran(s) == {s[i] : i \in 1 .. Len(s)}
IsSeq(s) == s \in Seq(Ran(s))

-----------------------------------------------------------------------------
\* Sequences.

LEMMA SeqFrom ==
    ASSUME NEW S, NEW s \in Seq(S)
    PROVE  IsSeq(s)
<1>1. Len(s) \in Nat /\ s \in [1 .. Len(s) -> Ran(s)]
    BY LenProperties DEF Ran
<1> QED BY <1>1, SeqDef DEF IsSeq

LEMMA SeqFacts ==
    ASSUME NEW s, IsSeq(s)
    PROVE  /\ Len(s) \in Nat
           /\ DOMAIN s = 1 .. Len(s)
           /\ s = [i \in 1 .. Len(s) |-> s[i]]
           /\ s # <<>> <=> Len(s) > 0
           /\ s = <<>> <=> Len(s) = 0
BY EmptySeq, LenProperties DEF IsSeq

LEMMA SeqMake ==
    ASSUME NEW n \in Nat, NEW s, s = [i \in 1 .. n |-> s[i]]
    PROVE  IsSeq(s) /\ Len(s) = n /\ DOMAIN s = 1 .. n
<1> DEFINE R == {s[i] : i \in 1 .. n}
<1>1. s \in [1 .. n -> R]
    OBVIOUS
<1>2. s \in Seq(R)
    BY <1>1, SeqDef
<1>3. IsSeq(s)
    BY <1>2, SeqFrom
<1>4. 1 .. Len(s) = 1 .. n /\ Len(s) \in Nat
    BY <1>2, LenProperties
<1> QED BY <1>3, <1>4

LEMMA SeqExt ==
    ASSUME NEW s, NEW t, IsSeq(s), IsSeq(t), Len(s) = Len(t),
           \A i \in 1 .. Len(s) : s[i] = t[i]
    PROVE  s = t
BY SeqFacts

LEMMA SeqBoth ==
    ASSUME NEW s, NEW t, IsSeq(s), IsSeq(t)
    PROVE  s \in Seq(Ran(s) \cup Ran(t)) /\ t \in Seq(Ran(s) \cup Ran(t))
BY SeqMonotonic DEF IsSeq

LEMMA SeqConcat ==
    ASSUME NEW s, NEW t, IsSeq(s), IsSeq(t)
    PROVE  /\ IsSeq(s \o t)
           /\ Len(s \o t) = Len(s) + Len(t)
           /\ \A i \in 1 .. Len(s) + Len(t) :
                 (s \o t)[i] = IF i <= Len(s) THEN s[i] ELSE t[i - Len(s)]
<1> DEFINE S == Ran(s) \cup Ran(t)
<1>1. s \in Seq(S) /\ t \in Seq(S)
    BY SeqBoth
<1> HIDE DEF S
<1>2. s \o t \in Seq(S)
    BY <1>1, ConcatProperties
<1> QED BY <1>1, <1>2, ConcatProperties, SeqFrom

LEMMA SeqAssoc ==
    ASSUME NEW s, NEW t, NEW u, IsSeq(s), IsSeq(t), IsSeq(u)
    PROVE  (s \o t) \o u = s \o (t \o u)
<1> DEFINE S == Ran(s) \cup Ran(t) \cup Ran(u)
<1>1. s \in Seq(S) /\ t \in Seq(S) /\ u \in Seq(S)
    BY SeqMonotonic DEF IsSeq
<1> HIDE DEF S
<1> QED BY <1>1, ConcatAssociative

LEMMA SeqEmpty ==
    /\ IsSeq(<<>>) /\ Len(<<>>) = 0
    /\ \A s : IsSeq(s) => s \o <<>> = s /\ <<>> \o s = s
<1>1. IsSeq(<<>>) /\ Len(<<>>) = 0
    BY EmptySeq, SeqFrom
<1>2. ASSUME NEW s, IsSeq(s) PROVE s \o <<>> = s /\ <<>> \o s = s
  <2>1. s \in Seq(Ran(s))
    BY <1>2 DEF IsSeq
  <2> QED BY <2>1, ConcatEmptySeq
<1> QED BY <1>1, <1>2

LEMMA SeqSingle ==
    ASSUME NEW x
    PROVE  IsSeq(<<x>>) /\ Len(<<x>>) = 1 /\ <<x>>[1] = x /\ Ran(<<x>>) = {x}
<1>1. <<x>> \in Seq({x}) /\ Len(<<x>>) = 1 /\ <<x>>[1] = x
    OBVIOUS
<1>2. IsSeq(<<x>>)
    BY <1>1, SeqFrom
<1>3. Ran(<<x>>) = {x}
    BY <1>1 DEF Ran
<1> QED BY <1>1, <1>2, <1>3

LEMMA SeqAppend ==
    ASSUME NEW s, IsSeq(s), NEW x
    PROVE  /\ IsSeq(Append(s, x))
           /\ Len(Append(s, x)) = Len(s) + 1
           /\ \A i \in 1 .. Len(s) : Append(s, x)[i] = s[i]
           /\ Append(s, x)[Len(s) + 1] = x
           /\ Append(s, x) = s \o <<x>>
<1> DEFINE S == Ran(s) \cup {x}
<1>1. s \in Seq(S) /\ x \in S /\ Len(s) \in Nat
    BY SeqMonotonic, SeqFacts DEF IsSeq
<1> HIDE DEF S
<1>2. /\ Append(s, x) \in Seq(S)
      /\ Len(Append(s, x)) = Len(s) + 1
      /\ \A i \in 1 .. Len(s) : Append(s, x)[i] = s[i]
      /\ Append(s, x)[Len(s) + 1] = x
    BY <1>1, AppendProperties
<1>3. IsSeq(Append(s, x))
    BY <1>2, SeqFrom
<1>4. IsSeq(<<x>>) /\ Len(<<x>>) = 1 /\ <<x>>[1] = x
    BY SeqSingle
<1>5. /\ IsSeq(s \o <<x>>) /\ Len(s \o <<x>>) = Len(s) + 1
      /\ \A i \in 1 .. Len(s) + 1 : (s \o <<x>>)[i] = IF i <= Len(s) THEN s[i] ELSE x
    BY <1>1, <1>4, SeqConcat
<1>6. Append(s, x) = s \o <<x>>
    BY <1>1, <1>2, <1>3, <1>5, SeqExt
<1> QED BY <1>2, <1>3, <1>6

LEMMA SeqTail ==
    ASSUME NEW s, IsSeq(s), s # <<>>
    PROVE  /\ IsSeq(Tail(s))
           /\ Len(Tail(s)) = Len(s) - 1
           /\ \A i \in 1 .. Len(s) - 1 : Tail(s)[i] = s[i + 1]
           /\ s = <<s[1]>> \o Tail(s)
<1>0. s \in Seq(Ran(s))
    BY DEF IsSeq
<1>1. /\ Tail(s) \in Seq(Ran(s)) /\ Len(Tail(s)) = Len(s) - 1
      /\ \A i \in 1 .. Len(Tail(s)) : Tail(s)[i] = s[i + 1]
    BY <1>0, HeadTailProperties
<1>2. IsSeq(Tail(s)) /\ Len(s) \in Nat /\ Len(s) > 0
    BY <1>1, SeqFrom, SeqFacts
<1>3. IsSeq(<<s[1]>>) /\ Len(<<s[1]>>) = 1 /\ <<s[1]>>[1] = s[1]
    BY SeqSingle
<1> DEFINE t == <<s[1]>> \o Tail(s)
<1>4. /\ IsSeq(t) /\ Len(t) = Len(s)
      /\ \A i \in 1 .. Len(s) : t[i] = IF i <= 1 THEN s[1] ELSE Tail(s)[i - 1]
    BY <1>1, <1>2, <1>3, SeqConcat
<1> HIDE DEF t
<1>5. s = t
    BY <1>1, <1>2, <1>4, SeqExt
<1> QED BY <1>1, <1>2, <1>5 DEF t

LEMMA SeqSub ==
    ASSUME NEW s, IsSeq(s), NEW m \in Nat \ {0}, NEW n \in 0 .. Len(s)
    PROVE  /\ IsSeq(SubSeq(s, m, n))
           /\ Len(SubSeq(s, m, n)) = IF m <= n THEN n - m + 1 ELSE 0
           /\ \A i \in 1 .. n - m + 1 : SubSeq(s, m, n)[i] = s[m + i - 1]
<1> DEFINE R == Ran(s)
<1>1. m \in Int /\ n \in Int /\ \A i \in m .. n : s[i] \in R
    BY SeqFacts DEF Ran
<1> HIDE DEF R
<1>2. /\ SubSeq(s, m, n) \in Seq(R)
      /\ Len(SubSeq(s, m, n)) = IF m <= n THEN n - m + 1 ELSE 0
      /\ \A i \in 1 .. n - m + 1 : SubSeq(s, m, n)[i] = s[m + i - 1]
    BY <1>1, SubSeqProperties
<1>3. IsSeq(SubSeq(s, m, n))
    BY <1>2, SeqFrom
<1> QED BY <1>2, <1>3

\* Front and Last take a sequence apart at its end.
LEMMA SeqFront ==
    ASSUME NEW s, IsSeq(s), s # <<>>
    PROVE  /\ IsSeq(Front(s))
           /\ Len(Front(s)) = Len(s) - 1
           /\ \A i \in 1 .. Len(s) - 1 : Front(s)[i] = s[i]
           /\ s = Append(Front(s), Last(s))
<1>1. Len(s) \in Nat /\ Len(s) > 0
    BY SeqFacts
<1> DEFINE n == Len(s) - 1
           f == SubSeq(s, 1, n)
<1>a. n \in 0 .. Len(s) /\ 1 \in Nat \ {0}
    BY <1>1
<1> HIDE DEF n
<1>b. /\ IsSeq(f) /\ Len(f) = IF 1 <= n THEN n - 1 + 1 ELSE 0
      /\ \A i \in 1 .. n - 1 + 1 : f[i] = s[1 + i - 1]
    BY <1>a, SeqSub
<1> HIDE DEF f
<1>c. Len(f) = n /\ \A i \in 1 .. n : f[i] = s[i]
    BY <1>a, <1>b
<1>2. /\ IsSeq(Front(s)) /\ Len(Front(s)) = Len(s) - 1
      /\ \A i \in 1 .. Len(s) - 1 : Front(s)[i] = s[i]
    BY <1>b, <1>c DEF Front, n, f
<1>3. s = Append(Front(s), Last(s))
  <2> DEFINE g == Front(s)
             x == s[Len(s)]
             t == Append(g, x)
  <2> HIDE DEF g, x
  <2>0. IsSeq(g) /\ Len(g) = Len(s) - 1
      BY <1>2 DEF g
  <2>1. /\ IsSeq(t) /\ Len(t) = Len(g) + 1 /\ t[Len(g) + 1] = x
        /\ \A i \in 1 .. Len(g) : t[i] = g[i]
      BY <2>0, SeqAppend
  <2> HIDE DEF t
  <2>3. /\ Len(t) = Len(s) /\ \A i \in 1 .. Len(s) : t[i] = s[i]
      BY <1>1, <1>2, <2>0, <2>1 DEF g, x
  <2>2. s = t
      BY <2>1, <2>3, SeqExt
  <2> QED BY <2>2 DEF t, g, x, Last
<1> QED BY <1>2, <1>3
-----------------------------------------------------------------------------
\* Induction over data: the least counterexample.

LEMMA LeastNat ==
    ASSUME NEW S, S \subseteq Nat, S # {}
    PROVE  \E n \in S : \A m \in S : n <= m
<1> DEFINE Less == OpToRel(<, Nat)
<1>1. IsWellFoundedOn(Less, Nat)
    BY NatLessThanWellFounded
<1>2. PICK x \in S : \A y \in S : ~ (<<y, x>> \in Less)
    BY <1>1, WFMin
<1>3. ASSUME NEW y \in S, y < x PROVE FALSE
  <2>1. <<y, x>> \in Nat \X Nat
    OBVIOUS
  <2>2. <<y, x>> \in Less
    BY <2>1, <1>3 DEF OpToRel
  <2> QED BY <2>2, <1>2
<1>4. x \in Nat /\ \A y \in S : y \in Nat /\ ~ (y < x)
    BY <1>3
<1>5. \A y \in S : x <= y
    BY <1>4
<1> QED BY <1>5

\* A set of numbers from 0 on that is closed under successor has them all.
LEMMA NatSet ==
    ASSUME NEW T, 0 \in T, \A n \in Nat : n \in T => n + 1 \in T
    PROVE  Nat \subseteq T
<1> SUFFICES ASSUME Nat \ T # {} PROVE FALSE
    OBVIOUS
<1>1. PICK n \in Nat \ T : \A m \in Nat \ T : n <= m
    BY LeastNat
<1>2. n - 1 \in Nat /\ ~ (n <= n - 1)
    OBVIOUS
<1>3. n - 1 \in T
    BY <1>1, <1>2
<1> QED BY <1>2, <1>3

\* g sums up the first n sequences of s.
Sums(s, n, g) ==
    g = [i \in 1 .. n |-> IF i = 1 THEN s[i] ELSE g[i - 1] \o s[i]]

LEMMA SumsExist ==
    ASSUME NEW s
    PROVE  \A n \in Nat : \E g : Sums(s, n, g)
<1> DEFINE T == {n \in Nat : \E g : Sums(s, n, g)}
<1>1. 0 \in T
  <2>1. Sums(s, 0, [i \in {} |-> 0])
    BY DEF Sums
  <2> QED BY <2>1
<1>2. ASSUME NEW n \in Nat, n \in T PROVE n + 1 \in T
  <2>1. PICK g : Sums(s, n, g)
    BY <1>2
  <2> DEFINE h == [i \in 1 .. n + 1 |-> IF i = n + 1
                        THEN IF i = 1 THEN s[i] ELSE g[i - 1] \o s[i]
                        ELSE g[i]]
  <2>2. DOMAIN h = 1 .. n + 1
    OBVIOUS
  <2>3. ASSUME NEW i \in 1 .. n + 1
        PROVE  h[i] = IF i = 1 THEN s[i] ELSE h[i - 1] \o s[i]
    <3>1. CASE i = n + 1
      BY <3>1
    <3>2. CASE i # n + 1
      <4>1. i \in 1 .. n /\ h[i] = g[i]
        BY <3>2
      <4>2. i = 1 \/ (i - 1 \in 1 .. n /\ h[i - 1] = g[i - 1])
        BY <4>1
      <4> QED BY <4>1, <4>2, <2>1 DEF Sums
    <3> QED BY <3>1, <3>2
  <2>4. h = [i \in 1 .. n + 1 |-> h[i]]
    OBVIOUS
  <2> HIDE DEF h
  <2>5. Sums(s, n + 1, h)
    BY <2>3, <2>4 DEF Sums
  <2> QED BY <2>5
<1>3. Nat \subseteq T
  <2> HIDE DEF T
  <2> QED BY <1>1, <1>2, NatSet
<1> QED BY <1>3

LEMMA SumsAgree ==
    ASSUME NEW s, NEW t, NEW n \in Nat, NEW m \in Nat, NEW g, NEW h,
           Sums(s, n, g), Sums(t, m, h), n <= m, \A i \in 1 .. n : s[i] = t[i]
    PROVE  \A i \in 1 .. n : g[i] = h[i]
<1> DEFINE T == {i \in Nat : i \in 1 .. n => g[i] = h[i]}
<1>1. 0 \in T
    OBVIOUS
<1>2. ASSUME NEW i \in Nat, i \in T PROVE i + 1 \in T
  <2> SUFFICES ASSUME i + 1 \in 1 .. n PROVE g[i + 1] = h[i + 1]
    OBVIOUS
  <2>0. i + 1 \in 1 .. m /\ (i + 1) - 1 = i
    OBVIOUS
  <2>1. /\ g[i + 1] = IF i + 1 = 1 THEN s[i + 1] ELSE g[(i + 1) - 1] \o s[i + 1]
        /\ h[i + 1] = IF i + 1 = 1 THEN t[i + 1] ELSE h[(i + 1) - 1] \o t[i + 1]
    BY <2>0 DEF Sums
  <2>2. s[i + 1] = t[i + 1]
    OBVIOUS
  <2>3. i + 1 = 1 \/ g[i] = h[i]
    BY <1>2
  <2> QED BY <2>0, <2>1, <2>2, <2>3
<1>3. Nat \subseteq T
  <2> HIDE DEF T
  <2> QED BY <1>1, <1>2, NatSet
<1> QED BY <1>3

Sum(s) == CHOOSE g : Sums(s, Len(s), g)

LEMMA SumIs ==
    ASSUME NEW s, IsSeq(s)
    PROVE  /\ Sums(s, Len(s), Sum(s))
           /\ s # <<>> => FlattenSeq(s) = Sum(s)[Len(s)]
           /\ s = <<>> => FlattenSeq(s) = <<>>
<1>1. Len(s) \in Nat /\ (s = <<>> <=> Len(s) = 0)
    BY SeqFacts
<1>2. Sums(s, Len(s), Sum(s))
    BY <1>1, SumsExist DEF Sum
<1>3. ASSUME s = <<>> PROVE FlattenSeq(s) = <<>>
    BY <1>1, <1>3 DEF FlattenSeq
<1>4. ASSUME s # <<>> PROVE FlattenSeq(s) = Sum(s)[Len(s)]
  <2>1. Len(s) # 0
    BY <1>1, <1>4
  <2> QED BY <2>1 DEF FlattenSeq, Sum, Sums
<1> QED BY <1>2, <1>3, <1>4

\* A sequence of sequences.
IsSeqs(s) == IsSeq(s) /\ \A i \in 1 .. Len(s) : IsSeq(s[i])

LEMMA FlattenAppend ==
    ASSUME NEW s, IsSeq(s), NEW x, IsSeq(x)
    PROVE  FlattenSeq(Append(s, x)) = FlattenSeq(s) \o x
<1> DEFINE t == Append(s, x)
           n == Len(s)
<1>0. n \in Nat /\ (s = <<>> <=> n = 0)
    BY SeqFacts
<1>1. /\ IsSeq(t) /\ Len(t) = n + 1 /\ t[n + 1] = x /\ n \in Nat
      /\ \A i \in 1 .. n : t[i] = s[i]
    BY <1>0, SeqAppend
<1>2. t # <<>> /\ (s = <<>> <=> n = 0)
    BY <1>0, <1>1, SeqFacts
<1> HIDE DEF t, n
<1>3. /\ Sums(t, n + 1, Sum(t)) /\ FlattenSeq(t) = Sum(t)[n + 1]
      /\ Sums(s, n, Sum(s)) /\ (s # <<>> => FlattenSeq(s) = Sum(s)[n])
      /\ (s = <<>> => FlattenSeq(s) = <<>>)
    BY <1>1, <1>2, SumIs DEF n
<1>4. n + 1 \in 1 .. n + 1 /\ (n + 1) - 1 = n
    BY <1>1
<1>5. Sum(t)[n + 1] = IF n + 1 = 1 THEN t[n + 1] ELSE Sum(t)[n] \o t[n + 1]
    BY <1>3, <1>4 DEF Sums
<1>6. CASE n = 0
  <2>1. FlattenSeq(t) = x /\ FlattenSeq(s) = <<>>
    BY <1>1, <1>2, <1>3, <1>5, <1>6
  <2> QED BY <2>1, SeqEmpty DEF t
<1>7. CASE n # 0
  <2>1. n \in 1 .. n /\ n + 1 # 1
    BY <1>1, <1>7
  <2>2. Sum(s)[n] = Sum(t)[n]
    BY <1>1, <1>3, <2>1, SumsAgree
  <2>3. FlattenSeq(t) = Sum(t)[n] \o x /\ FlattenSeq(s) = Sum(s)[n]
    BY <1>1, <1>2, <1>3, <1>5, <1>7, <2>1
  <2> QED BY <2>2, <2>3 DEF t
<1> QED BY <1>6, <1>7

LEMMA FlattenEmpty == FlattenSeq(<<>>) = <<>>
BY SeqEmpty, SumIs

LEMMA FrontOfSeqs ==
    ASSUME NEW s, IsSeqs(s), s # <<>>
    PROVE  IsSeqs(Front(s)) /\ IsSeq(Last(s)) /\ s = Append(Front(s), Last(s))
<1>1. IsSeq(s) /\ \A i \in 1 .. Len(s) : IsSeq(s[i])
    BY DEF IsSeqs
<1>2. Len(s) \in Nat /\ Len(s) > 0
    BY <1>1, SeqFacts
<1>3. /\ IsSeq(Front(s)) /\ Len(Front(s)) = Len(s) - 1
      /\ \A i \in 1 .. Len(s) - 1 : Front(s)[i] = s[i]
      /\ s = Append(Front(s), Last(s))
    BY <1>1, SeqFront
<1>4. IsSeq(s[Len(s)])
    BY <1>1, <1>2
<1>5. \A i \in 1 .. Len(Front(s)) : IsSeq(Front(s)[i])
    BY <1>1, <1>2, <1>3
<1> QED BY <1>3, <1>4, <1>5 DEF IsSeqs, Last

LEMMA FlattenIsSeq ==
    ASSUME NEW s, IsSeqs(s)
    PROVE  IsSeq(FlattenSeq(s))
<1> DEFINE T == {n \in Nat : \A t : IsSeqs(t) /\ Len(t) = n => IsSeq(FlattenSeq(t))}
<1>1. 0 \in T
  <2>1. ASSUME NEW t, IsSeqs(t), Len(t) = 0 PROVE IsSeq(FlattenSeq(t))
    <3>1. t = <<>>
      BY <2>1, SeqFacts DEF IsSeqs
    <3> QED BY <3>1, FlattenEmpty, SeqEmpty
  <2> QED BY <2>1
<1>2. ASSUME NEW n \in Nat, n \in T PROVE n + 1 \in T
  <2>1. ASSUME NEW t, IsSeqs(t), Len(t) = n + 1 PROVE IsSeq(FlattenSeq(t))
    <3>1. IsSeq(t) /\ t # <<>>
      BY <2>1, SeqFacts, SeqEmpty DEF IsSeqs
    <3>2. /\ IsSeqs(Front(t)) /\ IsSeq(Last(t)) /\ t = Append(Front(t), Last(t))
          /\ Len(Front(t)) = n
      BY <2>1, <3>1, FrontOfSeqs, SeqFront
    <3>3. IsSeq(FlattenSeq(Front(t)))
      BY <1>2, <3>2
    <3>4. FlattenSeq(t) = FlattenSeq(Front(t)) \o Last(t)
      BY <3>2, FlattenAppend DEF IsSeqs
    <3> QED BY <3>2, <3>3, <3>4, SeqConcat
  <2> QED BY <2>1
<1>3. Nat \subseteq T
  <2> HIDE DEF T
  <2> QED BY <1>1, <1>2, NatSet
<1>4. Len(s) \in Nat
    BY SeqFacts DEF IsSeqs
<1> QED BY <1>3, <1>4

LEMMA FlattenSingle ==
    ASSUME NEW x, IsSeq(x)
    PROVE  FlattenSeq(<<x>>) = x
<1>1. <<x>> = Append(<<>>, x) /\ IsSeq(<<>>)
    BY SeqEmpty
<1>2. FlattenSeq(Append(<<>>, x)) = FlattenSeq(<<>>) \o x
    BY <1>1, FlattenAppend
<1>3. <<>> \o x = x
    BY SeqEmpty
<1> QED BY <1>1, <1>2, <1>3, FlattenEmpty

LEMMA TailOfAppend ==
    ASSUME NEW s, IsSeq(s), s # <<>>, NEW x
    PROVE  Tail(Append(s, x)) = Append(Tail(s), x)
<1> DEFINE a == Append(s, x)
           b == Append(Tail(s), x)
<1>1. /\ IsSeq(a) /\ Len(a) = Len(s) + 1 /\ a[Len(s) + 1] = x
      /\ \A i \in 1 .. Len(s) : a[i] = s[i]
    BY SeqAppend
<1>2. /\ Len(s) \in Nat /\ Len(s) > 0 /\ IsSeq(Tail(s)) /\ Len(Tail(s)) = Len(s) - 1
      /\ \A i \in 1 .. Len(s) - 1 : Tail(s)[i] = s[i + 1]
    BY SeqTail, SeqFacts
<1>3. /\ IsSeq(b) /\ Len(b) = Len(Tail(s)) + 1 /\ b[Len(Tail(s)) + 1] = x
      /\ \A i \in 1 .. Len(Tail(s)) : b[i] = Tail(s)[i]
    BY <1>2, SeqAppend
<1> HIDE DEF a, b
<1> DEFINE n == Len(Tail(s))
<1>9. n = Len(s) - 1
    BY <1>2
<1>0. Len(s) \in Nat
    BY SeqFacts
<1> HIDE DEF n
<1>4. a # <<>>
    BY <1>1, <1>2, SeqFacts
<1>5. /\ IsSeq(Tail(a)) /\ Len(Tail(a)) = Len(a) - 1
      /\ \A i \in 1 .. Len(a) - 1 : Tail(a)[i] = a[i + 1]
    BY <1>1, <1>4, SeqTail
<1>6. ASSUME NEW i \in 1 .. Len(s) PROVE Tail(a)[i] = b[i]
  <2>1. Tail(a)[i] = a[i + 1]
    BY <1>1, <1>2, <1>5
  <2>2. CASE i = Len(s)
    BY <1>1, <1>2, <1>3, <2>1, <2>2
  <2>3. CASE i # Len(s)
    <3>1. i \in 1 .. Len(s) - 1 /\ i + 1 \in 1 .. Len(s) /\ i \in 1 .. n
      BY <1>0, <1>9, <2>3
    <3>2. b[i] = Tail(s)[i]
      BY <1>3, <3>1 DEF n
    <3> QED BY <1>1, <1>2, <2>1, <3>1, <3>2
  <2> QED BY <2>2, <2>3
<1>8. Len(Tail(a)) = Len(s) /\ Len(b) = Len(s)
    BY <1>1, <1>2, <1>3, <1>5
<1>7. Tail(a) = b
    BY <1>3, <1>5, <1>6, <1>8, SeqExt
<1> QED BY <1>7 DEF a, b

LEMMA FlattenCons ==
    ASSUME NEW s, IsSeqs(s), s # <<>>
    PROVE  FlattenSeq(s) = s[1] \o FlattenSeq(Tail(s)) /\ IsSeqs(Tail(s))
<1> DEFINE P(t) == IsSeqs(Tail(t)) /\ FlattenSeq(t) = t[1] \o FlattenSeq(Tail(t))
           T == {n \in Nat : \A t : IsSeqs(t) /\ Len(t) = n + 1 => P(t)}
<1>0. ASSUME NEW t, IsSeqs(t), t # <<>> PROVE IsSeqs(Tail(t))
  <2>1. /\ IsSeq(t) /\ IsSeq(Tail(t)) /\ Len(t) \in Nat
        /\ Len(Tail(t)) = Len(t) - 1
        /\ \A i \in 1 .. Len(t) - 1 : Tail(t)[i] = t[i + 1]
    BY <1>0, SeqTail, SeqFacts DEF IsSeqs
  <2>2. ASSUME NEW i \in 1 .. Len(Tail(t)) PROVE IsSeq(Tail(t)[i])
    BY <1>0, <2>1 DEF IsSeqs
  <2> QED BY <2>1, <2>2 DEF IsSeqs
<1>1. 0 \in T
  <2>1. ASSUME NEW t, IsSeqs(t), Len(t) = 1 PROVE P(t)
    <3>0. IsSeq(t) /\ \A i \in 1 .. Len(t) : IsSeq(t[i])
      BY <2>1 DEF IsSeqs
    <3>1. IsSeq(t) /\ t # <<>> /\ IsSeq(t[1])
      BY <2>1, <3>0, SeqFacts
    <3>2. Len(Tail(t)) = 0 /\ IsSeq(Tail(t)) /\ t = <<t[1]>> \o Tail(t)
      <4> HIDE DEF P, T
      <4>1. IsSeq(Tail(t)) /\ Len(Tail(t)) = Len(t) - 1 /\ t = <<t[1]>> \o Tail(t)
        BY <3>1, SeqTail
      <4> QED BY <2>1, <4>1
    <3>3. Tail(t) = <<>>
      BY <3>2, SeqFacts
    <3>4. t = <<t[1]>>
      BY <3>2, <3>3, SeqSingle, SeqEmpty
    <3>5. FlattenSeq(t) = t[1]
      BY <3>1, <3>4, FlattenSingle
    <3> QED BY <1>0, <2>1, <3>1, <3>3, <3>5, FlattenEmpty, SeqEmpty
  <2> QED BY <2>1
<1>2. ASSUME NEW n \in Nat, n \in T PROVE n + 1 \in T
  <2>1. ASSUME NEW t, IsSeqs(t), Len(t) = n + 2 PROVE P(t)
    <3>0. IsSeq(t) /\ \A i \in 1 .. Len(t) : IsSeq(t[i])
      BY <2>1 DEF IsSeqs
    <3>1. IsSeq(t) /\ t # <<>> /\ IsSeq(t[1])
      BY <2>1, <3>0, SeqFacts
    <3> DEFINE f == Front(t)
               l == Last(t)
    <3>2. IsSeqs(f) /\ IsSeq(l) /\ t = Append(f, l) /\ Len(f) = n + 1 /\ f[1] = t[1]
      BY <2>1, <3>1, FrontOfSeqs, SeqFront
    <3> HIDE DEF f, l
    <3>3. f # <<>> /\ IsSeq(f)
      BY <3>2, SeqFacts DEF IsSeqs
    <3>4. FlattenSeq(f) = t[1] \o FlattenSeq(Tail(f)) /\ IsSeqs(Tail(f))
      BY <1>2, <3>2
    <3>5. FlattenSeq(t) = FlattenSeq(f) \o l
      BY <3>2, <3>3, FlattenAppend
    <3>6. Tail(t) = Append(Tail(f), l)
      BY <3>2, <3>3, TailOfAppend
    <3>7. IsSeq(FlattenSeq(Tail(f))) /\ IsSeq(Tail(f))
      BY <3>4, FlattenIsSeq DEF IsSeqs
    <3>8. FlattenSeq(Tail(t)) = FlattenSeq(Tail(f)) \o l
      BY <3>2, <3>6, <3>7, FlattenAppend
    <3> DEFINE u == FlattenSeq(Tail(f))
               h == t[1]
    <3> HIDE DEF u, h
    <3>a. IsSeq(h) /\ IsSeq(u) /\ IsSeq(l)
      BY <3>1, <3>2, <3>7 DEF u, h
    <3>b. (h \o u) \o l = h \o (u \o l)
      BY <3>a, SeqAssoc
    <3>9. FlattenSeq(t) = t[1] \o FlattenSeq(Tail(t))
      BY <3>4, <3>5, <3>8, <3>b DEF u, h
    <3> QED BY <1>0, <2>1, <3>1, <3>9
  <2> HIDE DEF P
  <2> QED BY <2>1
<1>3. Nat \subseteq T
  <2> HIDE DEF T
  <2> QED BY <1>1, <1>2, NatSet
<1>4. Len(s) - 1 \in Nat
    BY SeqFacts DEF IsSeqs
<1> QED BY <1>3, <1>4
-----------------------------------------------------------------------------
\* Segments, queues and processors.

IsSegment(s) == s = Eof \/ s = Flush \/ \E d : IsSeq(d) /\ s = Data(d)
AreSegments(s) == IsSeq(s) /\ \A i \in 1 .. Len(s) : IsSegment(s[i])

LEMMA SegmentFacts ==
    ASSUME NEW s, IsSegment(s)
    PROVE  /\ IsSeq(s.data) /\ Len(s.data) \in Nat
           /\ s.type \in {"Data", "Eof", "Flush"}
           /\ s = [type |-> s.type, data |-> s.data]
           /\ s.type = "Eof" <=> s = Eof
           /\ s.type = "Flush" <=> s = Flush
           /\ s.type = "Data" => s = Data(s.data)
           /\ s.type # "Data" => s.data = <<>>
<1>1. IsSeq(s.data)
    BY SeqEmpty DEF IsSegment, Data, Eof, Flush
<1>2. Len(s.data) \in Nat
    BY <1>1, SeqFacts
<1> QED BY <1>1, <1>2 DEF IsSegment, Data, Eof, Flush

LEMMA Segment ==
    /\ IsSegment(Eof) /\ IsSegment(Flush) /\ Eof # Flush
    /\ \A d : IsSeq(d) => /\ IsSegment(Data(d)) /\ Data(d) # Eof /\ Data(d) # Flush
                          /\ Data(d).data = d /\ Data(d).type = "Data"
    /\ Eof.data = <<>> /\ Flush.data = <<>> /\ Eof.type = "Eof" /\ Flush.type = "Flush"
BY DEF IsSegment, Data, Eof, Flush

LEMMA NoSegments == AreSegments(<<>>)
BY SeqEmpty DEF AreSegments

LEMMA OneSegment ==
    ASSUME NEW s, IsSegment(s)
    PROVE  AreSegments(<<s>>) /\ Len(<<s>>) = 1 /\ <<s>>[1] = s
BY SeqSingle DEF AreSegments

LEMMA TwoSegments ==
    ASSUME NEW s, NEW t, IsSegment(s), IsSegment(t)
    PROVE  AreSegments(<<s, t>>) /\ Len(<<s, t>>) = 2 /\ <<s, t>>[1] = s /\ <<s, t>>[2] = t
<1> DEFINE a == <<s, t>>
<1>1. a \in Seq({s, t}) /\ Len(a) = 2 /\ a[1] = s /\ a[2] = t
    OBVIOUS
<1> HIDE DEF a
<1>2. IsSeq(a)
    BY <1>1, SeqFrom
<1> QED BY <1>1, <1>2 DEF AreSegments, a

LEMMA TailOfSegments ==
    ASSUME NEW s, AreSegments(s), s # <<>>
    PROVE  AreSegments(Tail(s)) /\ IsSegment(s[1]) /\ Len(Tail(s)) = Len(s) - 1
<1> DEFINE t == Tail(s)
<1>1. /\ IsSeq(s) /\ Len(s) \in Nat /\ Len(s) > 0
    BY SeqFacts DEF AreSegments
<1>2. IsSeq(t) /\ Len(t) = Len(s) - 1 /\ \A i \in 1 .. Len(s) - 1 : t[i] = s[i + 1]
    BY <1>1, SeqTail
<1> HIDE DEF t
<1>3. ASSUME NEW i \in 1 .. Len(t) PROVE IsSegment(t[i])
  <2>1. i + 1 \in 1 .. Len(s) /\ t[i] = s[i + 1]
    BY <1>1, <1>2
  <2> QED BY <2>1 DEF AreSegments
<1>4. IsSegment(s[1])
    BY <1>1 DEF AreSegments
<1>5. AreSegments(t)
    BY <1>2, <1>3 DEF AreSegments
<1> QED BY <1>2, <1>4, <1>5 DEF t

LEMMA FrontOfSegments ==
    ASSUME NEW s, AreSegments(s), s # <<>>
    PROVE  AreSegments(Front(s)) /\ IsSegment(Last(s)) /\ Len(Front(s)) = Len(s) - 1
<1> DEFINE t == Front(s)
<1>1. /\ IsSeq(s) /\ Len(s) \in Nat /\ Len(s) > 0
    BY SeqFacts DEF AreSegments
<1>2. IsSeq(t) /\ Len(t) = Len(s) - 1 /\ \A i \in 1 .. Len(s) - 1 : t[i] = s[i]
    BY <1>1, SeqFront
<1> HIDE DEF t
<1>3. ASSUME NEW i \in 1 .. Len(t) PROVE IsSegment(t[i])
  <2>1. i \in 1 .. Len(s) /\ t[i] = s[i]
    BY <1>1, <1>2
  <2> QED BY <2>1 DEF AreSegments
<1>4. IsSegment(s[Len(s)])
    BY <1>1 DEF AreSegments
<1>5. AreSegments(t)
    BY <1>2, <1>3 DEF AreSegments
<1> QED BY <1>2, <1>4, <1>5 DEF t, Last

LEMMA AppendSegment ==
    ASSUME NEW s, AreSegments(s), NEW x, IsSegment(x)
    PROVE  AreSegments(Append(s, x)) /\ Len(Append(s, x)) = Len(s) + 1
<1> DEFINE t == Append(s, x)
           n == Len(s)
<1>1. IsSeq(s) /\ n \in Nat
    BY SeqFacts DEF AreSegments
<1>2. IsSeq(t) /\ Len(t) = n + 1 /\ t[n + 1] = x /\ \A i \in 1 .. n : t[i] = s[i]
    BY <1>1, SeqAppend
<1>3. \A i \in 1 .. n : IsSegment(s[i])
    BY DEF AreSegments
<1> HIDE DEF t, n
<1>4. ASSUME NEW i \in 1 .. Len(t) PROVE IsSegment(t[i])
  <2>1. i = n + 1 \/ i \in 1 .. n
    BY <1>1, <1>2
  <2> QED BY <1>2, <1>3, <2>1
<1> QED BY <1>2, <1>4 DEF AreSegments, t, n

ProcFields == {"kind", "arg", "state", "source_queue", "sink_queue", "pass_eof",
               "stop_requested", "ready", "buffer", "bytes", "bytes_written", "out", "done"}

\* What a BoundedSource has written, and is about to write, is within its length.
WithinBound(r) ==
    r.kind = "BoundedSource" =>
        /\ r.arg \in Nat
        /\ r.bytes <= r.arg
        /\ r.out = <<>> => r.bytes_written <= r.bytes
        /\ r.out # <<>> => /\ r.bytes_written + Len(r.out[1].data) <= r.bytes
                           /\ \A i \in 2 .. Len(r.out) : r.out[i] = Eof

\* A processor, whatever its state.
ProcShape(r) ==
    /\ DOMAIN r = ProcFields
    /\ r.pass_eof \in BOOLEAN /\ r.stop_requested \in BOOLEAN
    /\ r.ready \in BOOLEAN /\ r.done \in BOOLEAN
    /\ IsSeq(r.buffer)
    /\ AreSegments(r.out)
    /\ r.bytes \in Nat /\ r.bytes_written \in Nat
    /\ r.kind = "StdStreamSource" => IsSeq(r.arg)
    /\ WithinBound(r)

\* work leaves the rest of the processor alone.
SameBut(r, q) ==
    /\ q.kind = r.kind /\ q.arg = r.arg
    /\ q.source_queue = r.source_queue /\ q.sink_queue = r.sink_queue
    /\ q.pass_eof = r.pass_eof /\ q.stop_requested = r.stop_requested
    /\ q.ready = r.ready /\ q.bytes_written = r.bytes_written
    /\ q.state \in {r.state, "Throwing"}

\* What work may change.
LEMMA ShapeOf ==
    ASSUME NEW r, ProcShape(r), NEW q, DOMAIN q = ProcFields, SameBut(r, q),
           q.done \in BOOLEAN, IsSeq(q.buffer), AreSegments(q.out), q.bytes \in Nat,
           WithinBound(q)
    PROVE  ProcShape(q)
BY DEF ProcShape, SameBut

LEMMA EncodedSeq ==
    ASSUME NEW kind, NEW d, IsSeq(d)
    PROVE  /\ IsSeq(Encoded(kind, d)) /\ Len(Encoded(kind, d)) = Len(d)
           /\ \A i \in 1 .. Len(d) : Encoded(kind, d)[i] = <<kind, d[i]>>
<1> DEFINE n == Len(d)
           e == [i \in 1 .. n |-> <<kind, d[i]>>]
<1>1. n \in Nat /\ DOMAIN d = 1 .. n
    BY SeqFacts
<1> HIDE DEF n
<1>2. e = [i \in 1 .. n |-> e[i]] /\ \A i \in 1 .. n : e[i] = <<kind, d[i]>>
    OBVIOUS
<1>3. Encoded(kind, d) = e
    BY <1>1 DEF Encoded
<1> HIDE DEF e
<1>4. IsSeq(e) /\ Len(e) = n
    BY <1>1, <1>2, SeqMake
<1> QED BY <1>2, <1>3, <1>4 DEF n

\* The length of what is decoded.
DecodedLength(kind, d) ==
    LET n == SelectInSeq(d, LAMBDA t : t[1] # kind \/ t = EndMark(kind))
    IN  IF n = 0 THEN Len(d) ELSE n - 1

Stops(kind, d) == {i \in 1 .. Len(d) : d[i][1] # kind \/ d[i] = EndMark(kind)}

LEMMA DecodedSeq ==
    ASSUME NEW kind, NEW d, IsSeq(d)
    PROVE  /\ IsSeq(Decoded(kind, d))
           /\ Len(Decoded(kind, d)) = DecodedLength(kind, d)
           /\ DecodedLength(kind, d) \in 0 .. Len(d)
           /\ \A i \in 1 .. DecodedLength(kind, d) : Decoded(kind, d)[i] = d[i][2]
           /\ \A i \in 1 .. DecodedLength(kind, d) : i \notin Stops(kind, d)
           /\ DecodedLength(kind, d) < Len(d) => DecodedLength(kind, d) + 1 \in Stops(kind, d)
<1> DEFINE S == Stops(kind, d)
           n == DecodedLength(kind, d)
           e == [i \in 1 .. n |-> d[i][2]]
<1>1. Len(d) \in Nat
    BY SeqFacts
<1>2. n = IF S = {} THEN Len(d) ELSE Min(S) - 1
  <2>1. SelectInSeq(d, LAMBDA t : t[1] # kind \/ t = EndMark(kind))
            = IF S # {} THEN Min(S) ELSE 0
    BY DEF SelectInSeq, Stops
  <2>2. S \subseteq 1 .. Len(d)
    BY DEF Stops
  <2>3. S # {} => Min(S) # 0
    <3>1. ASSUME S # {} PROVE Min(S) \in S
      <4>1. S \subseteq Nat
        BY <1>1, <2>2
      <4> HIDE DEF S
      <4>2. \E m \in S : \A k \in S : m <= k
        BY <3>1, <4>1, LeastNat
      <4> QED BY <4>2 DEF Min
    <3> QED BY <1>1, <2>2, <3>1
  <2> QED BY <2>1, <2>3 DEF DecodedLength
<1>3. S \subseteq 1 .. Len(d)
    BY DEF Stops
<1>4. ASSUME S # {} PROVE Min(S) \in S /\ \A k \in S : Min(S) <= k
  <2>1. S \subseteq Nat
    BY <1>1, <1>3
  <2> HIDE DEF S
  <2>2. \E m \in S : \A k \in S : m <= k
    BY <1>4, <2>1, LeastNat
  <2> QED BY <2>2 DEF Min
<1>5. /\ n \in 0 .. Len(d)
      /\ \A i \in 1 .. n : i \notin S
      /\ n < Len(d) => n + 1 \in S
  <2>1. CASE S = {}
    BY <1>1, <1>2, <2>1
  <2>2. CASE S # {}
    <3> DEFINE m == Min(S)
    <3>1. m \in S /\ m \in 1 .. Len(d) /\ n = m - 1 /\ \A k \in S : m <= k
      BY <1>2, <1>3, <1>4, <2>2
    <3> HIDE DEF m, n, S
    <3> QED BY <1>1, <3>1
  <2> QED BY <2>1, <2>2
<1>6. Decoded(kind, d) = e
    BY DEF Decoded, DecodedLength
<1> HIDE DEF n
<1>7. e = [i \in 1 .. n |-> e[i]] /\ n \in Nat /\ \A i \in 1 .. n : e[i] = d[i][2]
    BY <1>1, <1>5
<1> HIDE DEF e
<1>8. IsSeq(e) /\ Len(e) = n
    BY <1>7, SeqMake
<1> QED BY <1>5, <1>6, <1>7, <1>8 DEF n

\* A filter that is no BoundedSource, after work.
LEMMA FilterShape ==
    ASSUME NEW r, ProcShape(r), r.kind # "BoundedSource", NEW q, DOMAIN q = ProcFields,
           SameBut(r, q), q.done \in BOOLEAN, IsSeq(q.buffer), AreSegments(q.out), q.bytes \in Nat
    PROVE  ProcShape(q)
<1>1. WithinBound(q)
    BY DEF WithinBound, SameBut
<1> QED BY <1>1, ShapeOf

LEMMA EndedShape ==
    ASSUME NEW r, ProcShape(r), r.kind # "BoundedSource", NEW out, AreSegments(out)
    PROVE  ProcShape(Ended(r, out)) /\ SameBut(r, Ended(r, out))
<1> DEFINE q == Ended(r, out)
<1>1. /\ DOMAIN q = ProcFields /\ q.done = TRUE /\ q.out = out /\ SameBut(r, q)
      /\ q.buffer = r.buffer /\ q.bytes = r.bytes
    BY DEF Ended, ProcShape, ProcFields, SameBut
<1>2. IsSeq(r.buffer) /\ r.bytes \in Nat
    BY DEF ProcShape
<1> HIDE DEF q
<1>3. ProcShape(q)
    BY <1>1, <1>2, FilterShape
<1> QED BY <1>1, <1>3 DEF q

LEMMA HoldingShape ==
    ASSUME NEW r, ProcShape(r), r.kind # "BoundedSource", r.out = <<>>,
           NEW buffer, IsSeq(buffer), NEW q \in Holding(r, buffer)
    PROVE  ProcShape(q) /\ SameBut(r, q) /\ q.done = r.done /\ q.bytes = r.bytes
           /\ \/ q.out = <<>> /\ q.buffer = buffer
              \/ q.out = <<Data(buffer)>> /\ q.buffer = <<>>
<1>1. /\ DOMAIN r = ProcFields /\ r.done \in BOOLEAN /\ r.bytes \in Nat
    BY DEF ProcShape
<1>2. /\ DOMAIN q = ProcFields /\ q.done = r.done /\ q.bytes = r.bytes /\ SameBut(r, q)
      /\ \/ q.out = <<>> /\ q.buffer = buffer
         \/ q.out = <<Data(buffer)>> /\ q.buffer = <<>>
    BY <1>1 DEF Holding, ProcFields, SameBut
<1>3. AreSegments(<<>>) /\ AreSegments(<<Data(buffer)>>)
    BY NoSegments, Segment, OneSegment
<1>4. IsSeq(q.buffer) /\ AreSegments(q.out)
    BY <1>2, <1>3, SeqEmpty
<1> QED BY <1>1, <1>2, <1>4, FilterShape

LEMMA HashFilterShape ==
    ASSUME NEW r, ProcShape(r), r.kind # "BoundedSource", NEW s, IsSegment(s),
           NEW q \in HashFilter_work(r, s) \cup ByteCounterSink_work(r, s)
    PROVE  ProcShape(q) /\ SameBut(r, q)
<1>1. CASE s = Eof
  <2>1. q = Ended(r, <<Eof>>)
    BY <1>1 DEF HashFilter_work, ByteCounterSink_work
  <2>2. AreSegments(<<Eof>>)
    BY Segment, OneSegment
  <2> QED BY <2>1, <2>2, EndedShape
<1>2. CASE s # Eof
  <2>1. /\ DOMAIN r = ProcFields /\ r.done \in BOOLEAN /\ r.bytes \in Nat /\ IsSeq(r.buffer)
    BY DEF ProcShape
  <2>2. IsSeq(s.data) /\ Len(s.data) \in Nat /\ AreSegments(<<s>>)
    BY SegmentFacts, OneSegment
  <2>3. IsSeq(r.buffer \o s.data)
    BY <2>1, <2>2, SeqConcat
  <2> DEFINE b == r.buffer \o s.data
             n == r.bytes + Len(s.data)
             o == <<s>>
  <2>4. q \in {[r EXCEPT !.buffer = b, !.out = o], [r EXCEPT !.bytes = n, !.out = o]}
    BY <1>2 DEF HashFilter_work, ByteCounterSink_work
  <2>5. n \in Nat /\ IsSeq(b) /\ AreSegments(o)
    BY <2>1, <2>2, <2>3
  <2> HIDE DEF b, n, o
  <2>6. /\ DOMAIN q = ProcFields /\ q.done = r.done /\ q.out = o /\ SameBut(r, q)
        /\ q.bytes \in {r.bytes, n} /\ q.buffer \in {r.buffer, b}
    BY <2>1, <2>4 DEF ProcFields, SameBut
  <2>7. q.bytes \in Nat /\ IsSeq(q.buffer) /\ AreSegments(q.out) /\ q.done \in BOOLEAN
    BY <2>1, <2>5, <2>6
  <2> QED BY <2>6, <2>7, FilterShape
<1> QED BY <1>1, <1>2

LEMMA EncoderShape ==
    ASSUME NEW r, ProcShape(r), r.kind # "BoundedSource", r.out = <<>>, NEW s, IsSegment(s),
           NEW q \in LzmaSink_work(r, s)
    PROVE  ProcShape(q) /\ SameBut(r, q)
<1>1. IsSeq(r.buffer) /\ IsSeq(s.data)
    BY SegmentFacts DEF ProcShape
<1>2. CASE s = Eof
  <2> DEFINE d == Append(r.buffer, EndMark(r.kind))
  <2>1. IsSeq(d)
    BY <1>1, SeqAppend
  <2>2. q = Ended(r, <<Data(d), Eof>>)
    BY <1>2 DEF LzmaSink_work
  <2> HIDE DEF d
  <2>3. AreSegments(<<Data(d), Eof>>)
    BY <2>1, Segment, TwoSegments
  <2> QED BY <2>2, <2>3, EndedShape
<1>3. CASE s # Eof
  <2> DEFINE b == r.buffer \o Encoded(r.kind, s.data)
  <2>1. IsSeq(b)
    BY <1>1, EncodedSeq, SeqConcat
  <2>2. q \in Holding(r, b)
    BY <1>3 DEF LzmaSink_work
  <2> HIDE DEF b
  <2> QED BY <2>1, <2>2, HoldingShape
<1> QED BY <1>2, <1>3

LEMMA ThrowingShape ==
    ASSUME NEW r, ProcShape(r), r.kind # "BoundedSource"
    PROVE  ProcShape([r EXCEPT !.state = "Throwing"]) /\ SameBut(r, [r EXCEPT !.state = "Throwing"])
<1> DEFINE q == [r EXCEPT !.state = "Throwing"]
<1>1. /\ DOMAIN q = ProcFields /\ q.done = r.done /\ q.out = r.out /\ SameBut(r, q)
      /\ q.buffer = r.buffer /\ q.bytes = r.bytes
    BY DEF ProcShape, ProcFields, SameBut
<1>2. IsSeq(r.buffer) /\ r.bytes \in Nat /\ AreSegments(r.out) /\ r.done \in BOOLEAN
    BY DEF ProcShape
<1> HIDE DEF q
<1>3. ProcShape(q)
    BY <1>1, <1>2, FilterShape
<1> QED BY <1>1, <1>3 DEF q

LEMMA DecoderShape ==
    ASSUME NEW r, ProcShape(r), r.kind # "BoundedSource", r.out = <<>>, NEW s, IsSegment(s),
           NEW q \in LzmaSource_work(r, s) \cup CryptoSource_work(r, s)
    PROVE  ProcShape(q) /\ SameBut(r, q)
<1>1. IsSeq(r.buffer) /\ IsSeq(s.data)
    BY SegmentFacts DEF ProcShape
<1> DEFINE a == r.buffer \o Decoded("LzmaSink", s.data)
           b == r.buffer \o Decoded("CryptoSink", s.data)
<1>2. IsSeq(a) /\ IsSeq(b)
    BY <1>1, DecodedSeq, SeqConcat
<1>3. \/ q = [r EXCEPT !.state = "Throwing"]
      \/ q \in Holding(r, a) \cup Holding(r, b)
      \/ q = Ended(r, <<Data(a), Eof>>)
      \/ q = Ended(r, <<Data(r.buffer), Eof>>)
    BY DEF LzmaSource_work, CryptoSource_work
<1> HIDE DEF a, b
<1>4. AreSegments(<<Data(a), Eof>>) /\ AreSegments(<<Data(r.buffer), Eof>>)
    BY <1>1, <1>2, Segment, TwoSegments
<1> QED BY <1>1, <1>2, <1>3, <1>4, HoldingShape, EndedShape, ThrowingShape

LEMMA BoundHolds ==
    ASSUME NEW q, q.arg \in Nat, q.bytes <= q.arg, NEW o, q.out = o, o # <<>>,
           NEW n \in Nat, Len(o[1].data) = n, q.bytes_written + n <= q.bytes,
           \A i \in 2 .. Len(o) : o[i] = Eof
    PROVE  WithinBound(q)
BY DEF WithinBound

LEMMA BoundedShape ==
    ASSUME NEW r, ProcShape(r), r.kind = "BoundedSource", r.out = <<>>, NEW s, IsSegment(s),
           NEW q \in BoundedSource_work(r, s)
    PROVE  ProcShape(q) /\ SameBut(r, q)
<1>1. /\ IsSeq(r.buffer) /\ IsSeq(s.data) /\ Len(s.data) \in Nat
      /\ DOMAIN r = ProcFields /\ r.done \in BOOLEAN
      /\ r.bytes \in Nat /\ r.bytes_written \in Nat /\ r.arg \in Nat /\ r.bytes <= r.arg
      /\ r.bytes_written <= r.bytes
    BY SegmentFacts DEF ProcShape, WithinBound
<1>2. Len(Eof.data) = 0
    BY Segment, SeqEmpty
<1>3. CASE s = Eof
  <2> DEFINE o == <<Eof, Eof>>
  <2>1. AreSegments(o) /\ Len(o) = 2 /\ o[1] = Eof /\ o[2] = Eof /\ o # <<>>
    BY Segment, TwoSegments
  <2>2. q = Ended(r, o)
    BY <1>3 DEF BoundedSource_work
  <2> HIDE DEF o
  <2>3. /\ DOMAIN q = ProcFields /\ q.done = TRUE /\ q.out = o /\ SameBut(r, q)
        /\ q.buffer = r.buffer /\ q.bytes = r.bytes
    BY <1>1, <2>2 DEF Ended, ProcFields, SameBut
  <2>4. WithinBound(q)
    <3>1. q.arg = r.arg /\ q.bytes_written = r.bytes_written
      BY <2>3 DEF SameBut
    <3>2. Len(o[1].data) = 0 /\ q.bytes_written + 0 <= q.bytes /\ q.arg \in Nat /\ q.bytes <= q.arg
      BY <1>1, <1>2, <2>1, <2>3, <3>1
    <3>3. \A i \in 2 .. Len(o) : o[i] = Eof
      <4>1. \A i \in 2 .. 2 : i = 2
        OBVIOUS
      <4> QED BY <2>1, <4>1
    <3>4. q.out = o /\ o # <<>>
      BY <2>1, <2>3
    <3> QED BY <3>2, <3>3, <3>4, BoundHolds
  <2> QED BY <1>1, <2>1, <2>3, <2>4, ShapeOf
<1>4. CASE s # Eof /\ Len(s.data) < Remaining(r)
  <2> DEFINE o == <<s>>
             n == r.bytes + Len(s.data)
  <2>1. AreSegments(o) /\ Len(o) = 1 /\ o[1] = s /\ o # <<>>
    BY OneSegment
  <2>2. q = [r EXCEPT !.bytes = n, !.out = o]
    BY <1>4 DEF BoundedSource_work
  <2>3. n \in Nat /\ n <= r.arg /\ r.bytes_written + Len(s.data) <= n
    BY <1>1, <1>4 DEF Remaining
  <2> HIDE DEF o, n
  <2>4. /\ DOMAIN q = ProcFields /\ q.done = r.done /\ q.out = o /\ SameBut(r, q)
        /\ q.buffer = r.buffer /\ q.bytes = n
    BY <1>1, <2>2 DEF ProcFields, SameBut
  <2>5. WithinBound(q)
    <3>1. q.arg = r.arg /\ q.bytes_written = r.bytes_written
      BY <2>4 DEF SameBut
    <3> DEFINE l == Len(s.data)
    <3>2. Len(o[1].data) = l /\ l \in Nat
      BY <1>1, <2>1
    <3> HIDE DEF l
    <3>3. q.bytes_written + l <= q.bytes /\ q.arg \in Nat /\ q.bytes <= q.arg
      BY <1>1, <2>3, <2>4, <3>1 DEF l
    <3>4. \A i \in 2 .. Len(o) : o[i] = Eof
      <4>1. 2 .. 1 = {}
        OBVIOUS
      <4> QED BY <2>1, <4>1
    <3>5. q.out = o /\ o # <<>>
      BY <2>1, <2>4
    <3> QED BY <3>2, <3>3, <3>4, <3>5, BoundHolds
  <2> QED BY <1>1, <2>1, <2>3, <2>4, <2>5, ShapeOf
<1>5. CASE s # Eof /\ ~ (Len(s.data) < Remaining(r))
  <2> DEFINE k == Remaining(r)
             b == SubSeq(s.data, k + 1, Len(s.data))
             d == SubSeq(s.data, 1, k)
             o == <<Data(d), Eof>>
  <2>1. k \in 0 .. Len(s.data) /\ k = r.arg - r.bytes
    BY <1>1, <1>5 DEF Remaining
  <2>2. q = Ended([r EXCEPT !.bytes = r.arg, !.buffer = b], o)
    BY <1>5 DEF BoundedSource_work
  <2> HIDE DEF k
  <2>3. k + 1 \in Nat \ {0} /\ 1 \in Nat \ {0} /\ Len(s.data) \in 0 .. Len(s.data)
    BY <1>1, <2>1
  <2>4. IsSeq(b)
    BY <1>1, <2>3, SeqSub
  <2>5. IsSeq(d) /\ Len(d) = k
    <3>1. IsSeq(d) /\ Len(d) = IF 1 <= k THEN k - 1 + 1 ELSE 0
      BY <1>1, <2>1, <2>3, SeqSub
    <3> HIDE DEF d
    <3> QED BY <2>1, <3>1
  <2> HIDE DEF b, d
  <2>6. AreSegments(o) /\ Len(o) = 2 /\ o[1] = Data(d) /\ o[2] = Eof /\ o # <<>>
    BY <2>5, Segment, TwoSegments
  <2>7. o[1].data = d
    BY <2>5, <2>6, Segment
  <2> HIDE DEF o
  <2>8. /\ DOMAIN q = ProcFields /\ q.done = TRUE /\ q.out = o /\ SameBut(r, q)
        /\ q.buffer = b /\ q.bytes = r.arg
    BY <1>1, <2>2 DEF Ended, ProcFields, SameBut
  <2>9. r.bytes_written + k <= r.arg
    BY <1>1, <2>1
  <2>10. WithinBound(q)
    <3>1. q.arg = r.arg /\ q.bytes_written = r.bytes_written
      BY <2>8 DEF SameBut
    <3>2. Len(o[1].data) = k /\ k \in Nat
      BY <1>1, <2>1, <2>5, <2>7
    <3>3. q.bytes_written + k <= q.bytes /\ q.arg \in Nat /\ q.bytes <= q.arg
      BY <1>1, <2>8, <2>9, <3>1
    <3>4. \A i \in 2 .. Len(o) : o[i] = Eof
      <4>1. \A i \in 2 .. 2 : i = 2
        OBVIOUS
      <4> QED BY <2>6, <4>1
    <3>5. q.out = o /\ o # <<>>
      BY <2>6, <2>8
    <3> QED BY <3>2, <3>3, <3>4, <3>5, BoundHolds
  <2> QED BY <1>1, <2>4, <2>6, <2>8, <2>10, ShapeOf
<1> QED BY <1>3, <1>4, <1>5

LEMMA WorkShape ==
    ASSUME NEW r, ProcShape(r), r.out = <<>>, NEW s, IsSegment(s), NEW q \in work(r, s)
    PROVE  ProcShape(q) /\ SameBut(r, q)
<1>1. CASE r.kind \in Hashes \cup {"ByteCounterSink"}
  <2>1. q \in HashFilter_work(r, s) \cup ByteCounterSink_work(r, s)
    <3>1. CASE r.kind \in Hashes
      <4>1. work(r, s) = HashFilter_work(r, s)
        BY <3>1 DEF work, Hashes
      <4> QED BY <4>1
    <3>2. CASE r.kind = "ByteCounterSink"
      <4>1. work(r, s) = ByteCounterSink_work(r, s)
        BY <3>2 DEF work, Hashes
      <4> QED BY <4>1
    <3> QED BY <1>1, <3>1, <3>2
  <2>2. r.kind # "BoundedSource"
    BY <1>1 DEF Hashes
  <2> QED BY <2>1, <2>2, HashFilterShape
<1>2. CASE r.kind \in {"LzmaSink", "CryptoSink"}
  <2>1. q \in LzmaSink_work(r, s)
    BY <1>2 DEF work, Hashes
  <2> QED BY <1>2, <2>1, EncoderShape
<1>3. CASE r.kind \in {"LzmaSource", "CryptoSource"}
  <2>1. q \in LzmaSource_work(r, s) \cup CryptoSource_work(r, s)
    BY <1>3 DEF work, Hashes
  <2> QED BY <1>3, <2>1, DecoderShape
<1>4. CASE r.kind = "BoundedSource"
  <2>1. q \in BoundedSource_work(r, s)
    BY <1>4 DEF work, Hashes
  <2> QED BY <1>4, <2>1, BoundedShape
<1>5. CASE r.kind \notin Hashes \cup {"ByteCounterSink", "LzmaSink", "CryptoSink",
                                      "LzmaSource", "CryptoSource", "BoundedSource"}
  <2>1. q = Ended(r, <<>>) \/ q = r
    BY <1>5 DEF work
  <2>2. SameBut(r, r)
    BY DEF SameBut
  <2> QED BY <1>5, <2>1, <2>2, EndedShape, NoSegments
<1> QED BY <1>1, <1>2, <1>3, <1>4, <1>5

-----------------------------------------------------------------------------
\* What an operation does to the Stream objects of the main thread, "live",
\* and the one that was destroyed last.

ReaderStack ==
    LET below == Append(Append(<<>>, source), bounded)
    IN  Append(IF Encrypted THEN Append(below, crypto) ELSE below, lzma)

IsPart(p) == \E i \in DOMAIN Files : p = <<"part", i>>

Constructs == {"construct", "construct_on", "construct_from"}
Uses == {"copy_to", "sync_write", "sync_read", "fill", "push",
         "flush", "stop", "join", "await"}
Others == {"start", "pipeline", "choose", "take", "throw"}

\* What a processor is constructed with.
ArgumentOK(kind, arg) ==
    /\ kind = "StdStreamSource" => IsSeq(arg)
    /\ kind = "BoundedSource" => arg \in Nat

ConstructOK(op) ==
    /\ op.do = "construct" =>
        /\ op.kind # "BoundedSource" /\ op.p[1] # "part" /\ ArgumentOK(op.kind, op.arg)
    /\ op.do = "construct_on" =>
        /\ op.kind \in SinkKinds /\ op.p[1] # "part"
    /\ op.do = "construct_from" =>
        /\ op.kind # "StdStreamSource" /\ ArgumentOK(op.kind, op.arg)
        /\ op.p[1] = "part" => /\ op.kind = "BoundedSource" /\ IsPart(op.p)
                               /\ op.arg = Len(Files[op.p[2]])

StackStep(s, op, t) ==
    \/ /\ op.do \in Constructs
       /\ ConstructOK(op)
       /\ op.p \notin Ran(s.live)
       /\ op.do = "construct_on" => op.sink \in Ran(s.live)
       /\ op.do = "construct_from" => op.source \in Ran(s.live)
       /\ t = [live |-> Append(s.live, op.p), left |-> None]
    \/ /\ op.do \in Uses
       /\ op.p \in Ran(s.live)
       /\ op.do = "copy_to" => op.sink \in Ran(s.live)
       /\ op.do \in {"push", "sync_write"} => IsSegment(op.segment)
       /\ t = [live |-> s.live, left |-> None]
    \/ /\ op.do \in {"destroy", "detach"}
       /\ s.live # <<>>
       /\ op.p = Last(s.live)
       /\ t = [live |-> Front(s.live), left |-> op.p]
    \/ /\ op.do \in Others
       /\ t = [live |-> s.live, left |-> None]
    \/ /\ op.do = "end"
       /\ op.result \in {"committed", "restored"}
       /\ t = [live |-> s.live, left |-> None]
    \/ /\ op.do \in {"part", "check_skip"}
       /\ s.live = ReaderStack
       /\ IsPart(<<"part", op.p[2]>>)
       /\ op.do = "check_skip" => op.p = <<"part", op.p[2]>> /\ s.left = op.p
       /\ t = [live |-> s.live, left |-> None]

-----------------------------------------------------------------------------
\* The writer of archive a: what each of its processors is there for.

Begins(s, t) == \E u : IsSeq(u) /\ t = s \o u

Encoders == {"LzmaSink", "CryptoSink"}
Numbered == {"counter", "crypto", "lzma", "counter2", "std", "hash"}
IsName(p) == p \in {file, overall} \/ (p[1] \in Numbered /\ p = <<p[1], p[2]>>)
IsSink(p) == p[1] \notin {"std", "hash"}

KindOf(p) ==
    CASE p[1] = "file" -> "StdStreamSink"
      [] p[1] = "overall" -> "HashSink"
      [] p[1] \in {"counter", "counter2"} -> "ByteCounterSink"
      [] p[1] = "crypto" -> "CryptoSink"
      [] p[1] = "lzma" -> "LzmaSink"
      [] p[1] = "std" -> "StdStreamSource"
      [] OTHER -> "HashSource"

\* The queue a processor reads from, and the processor that reads what it writes.
Feed(p) == IF p[1] = "hash" THEN <<"std", p[2]>> ELSE p
Reader(a, p) ==
    CASE p[1] = "overall" -> file
      [] p[1] = "counter" -> overall
      [] p[1] = "crypto" -> <<"counter", p[2]>>
      [] p[1] = "lzma" -> <<IF a.encrypted /\ p[2] # 3 THEN "crypto" ELSE "counter", p[2]>>
      [] p[1] = "counter2" -> <<"lzma", 2>>
      [] p[1] = "hash" -> <<"lzma", 1>>
      [] p[1] = "std" -> <<"hash", p[2]>>
      [] OTHER -> None
Target(a, p) == Feed(Reader(a, p))

\* All that goes into it, and what it makes of that.
SectionData(a, n) ==
    CASE n = 1 -> FlattenSeq(a.files)
      [] n = 2 -> FlattenSeq(a.objects)
      [] OTHER -> <<<<"manifest">>>>
SectionOf(a, n) ==
    CASE n = 1 -> Layout[a].files
      [] n = 2 -> Layout[a].objects
      [] OTHER -> Layout[a].manifest
Output(kind, d) ==
    IF kind \in Encoders /\ d # <<>> THEN Append(Encoded(kind, d), EndMark(kind)) ELSE d
In(a, p) ==
    CASE p[1] = "file" -> Image[a]
      [] p[1] = "overall" -> BeforeDigest[a]
      [] p[1] = "counter" -> SectionOf(a, p[2])
      [] p[1] = "crypto" -> Output("LzmaSink", SectionData(a, p[2]))
      [] p[1] = "lzma" -> SectionData(a, p[2])
      [] p[1] = "counter2" -> a.objects[p[2]]
      [] OTHER -> a.files[p[2]]
Out(a, p) == Output(KindOf(p), In(a, p))

\* What its reader has got before it comes.
FirstOf(s, n) == FlattenSeq(SubSeq(s, 1, n))
Before(a, p) ==
    CASE p[1] = "counter" ->
            Layout[a].keys \o (IF p[2] > 1 THEN Layout[a].files ELSE <<>>)
                           \o (IF p[2] > 2 THEN Layout[a].objects ELSE <<>>)
      [] p[1] = "hash" -> FirstOf(a.files, p[2] - 1)
      [] p[1] = "counter2" -> FirstOf(a.objects, p[2] - 1)
      [] OTHER -> <<>>

\* The result it leaves behind, and whether the main thread uses that.
HasResult(p) == KindOf(p) \in Hashes \cup {"ByteCounterSink"}
Takeable(p) ==
    p \in {overall, <<"counter", 2>>, <<"counter", 3>>} \/ p[1] \in {"hash", "counter2"}
Result(a, p) == IF KindOf(p) \in Hashes THEN In(a, p) ELSE Len(In(a, p))

-----------------------------------------------------------------------------
\* The names a writer has for its processors fit together.
Fits(a, p) ==
    /\ IsName(p) /\ IsSeq(In(a, p)) /\ IsSeq(Before(a, p))
    /\ p # file => Begins(Before(a, p) \o Out(a, p), In(a, Reader(a, p)))

\* The writer as a sequential program.  It knows its Stream objects ("stack"),
\* the sink that was constructed last ("top") and what it got so far from the
\* main thread and from processors that are gone ("sent"), where it is in the
\* life of the last one ("phase"), which one was destroyed last ("left") and
\* whether the digest of the archive has been taken ("summed").

State(stack, top, sent, phase, left, summed) ==
    [stack |-> stack, top |-> top, sent |-> sent, phase |-> phase, left |-> left, summed |-> summed]
Now(s, phase) == State(s.stack, s.top, s.sent, phase, s.left, s.summed)
Free(a, s, p) == \A w \in Ran(s.stack) : Reader(a, w) # p
Used(a, s) == \A w \in Ran(s.stack) : In(a, w) # <<>>
Gone(a, s, p) ==
    State(Front(s.stack),
          IF p = file THEN None ELSE IF IsSink(p) THEN Reader(a, p) ELSE s.top,
          IF p = file THEN <<>> ELSE IF p[1] = "std" THEN s.sent ELSE Before(a, p) \o Out(a, p),
          "open", IF p[1] = "std" THEN s.left ELSE p, s.summed)
Ready(a, s, p) == s.top = p /\ IsSink(p) /\ s.sent = In(a, p)
Removable(a, s, p) ==
    /\ s.stack # <<>> /\ p = Last(s.stack) /\ (IsSink(p) => Free(a, s, p))
    /\ p[1] = "std" => Reader(a, p) \notin Ran(s.stack)
    /\ p[1] = "hash" => s.top = Reader(a, p)
    /\ p = file => Front(s.stack) = <<>>
CanWrite(a, s, op) ==
    /\ op.p = Last(s.stack) /\ s.top = op.p /\ IsSink(op.p) /\ Free(a, s, op.p) /\ Used(a, s)
    /\ op.segment = Data(op.segment.data) /\ op.segment.data # <<>> /\ IsSeq(op.segment.data)
    /\ Begins(s.sent \o op.segment.data, In(a, op.p))

\* The last sink of the chain.
FileRule(a, s, op, t) ==
    /\ op.do = "construct" /\ op.p = file /\ op.kind = "StdStreamSink"
    /\ s.phase = "open" /\ s.stack = <<>> /\ s.left # file /\ Fits(a, file)
    /\ t = State(<<file>>, file, <<>>, "open", None, s.summed)
\* A file, and the digest of it.
StdRule(a, s, op, t) ==
    /\ op.do = "construct" /\ op.p[1] = "std" /\ Fits(a, op.p) /\ op.p \notin Ran(s.stack)
    /\ op.kind = "StdStreamSource" /\ op.arg = In(a, op.p)
    /\ s.phase = "open" /\ s.stack # <<>> /\ IsSink(Last(s.stack))
    /\ Reader(a, op.p) \notin Ran(s.stack) /\ Free(a, s, Reader(a, op.p))
    /\ t = State(Append(s.stack, op.p), s.top, s.sent, "opened", None, s.summed)
\* A sink on top of the last one, which has got all that comes before.
SinkRule(a, s, op, t) ==
    /\ op.do = "construct_on" /\ Fits(a, op.p) /\ IsSink(op.p) /\ op.p # file /\ op.p \notin Ran(s.stack)
    /\ op.kind = KindOf(op.p) /\ op.sink = Reader(a, op.p)
    /\ s.phase = "open" /\ s.stack # <<>> /\ op.sink = Last(s.stack) /\ s.top = op.sink
    /\ Free(a, s, op.sink) /\ s.sent = Before(a, op.p)
    /\ t = State(Append(s.stack, op.p), op.p, <<>>, "open", None, s.summed)
HashRule(a, s, op, t) ==
    /\ op.do = "construct_from" /\ op.p[1] = "hash" /\ Fits(a, op.p) /\ op.p \notin Ran(s.stack)
    /\ op.kind = "HashSource" /\ op.source = Feed(op.p)
    /\ s.phase = "opened" /\ s.stack # <<>> /\ op.source = Last(s.stack) /\ s.top = Reader(a, op.p)
    /\ Free(a, s, s.top) /\ s.sent = Before(a, op.p)
    /\ t = State(Append(s.stack, op.p), s.top, s.sent, "open", None, s.summed)
\* copy_to, which starts everything and joins the last.
CopyRule(a, s, op, t) ==
    /\ op.do = "copy_to" /\ op.p[1] = "hash" /\ s.stack # <<>> /\ op.p = Last(s.stack)
    /\ op.sink = Reader(a, op.p) /\ s.phase = "open" /\ Used(a, s)
    /\ t = Now(s, "joined")
StartRule(a, s, op, t) ==
    /\ op.do = "start" /\ s.stack # <<>> /\ s.phase = "linked" /\ Used(a, s)
    /\ t = Now(s, "running")
JoinRule(a, s, op, t) ==
    /\ op.do = "join" /\ s.stack # <<>> /\ op.p = Last(s.stack)
    /\ s.phase \in {"running", "closed", "joined"}
    /\ s.phase = "running" => ~IsSink(op.p)
    /\ t = Now(s, "joined")
\* Something written through a stream: the main thread pushes it.
WriteRule(a, s, op, t) ==
    /\ op.do = "sync_write" /\ s.phase = "open" /\ s.stack # <<>> /\ CanWrite(a, s, op)
    /\ t = State(s.stack, s.top, s.sent \o op.segment.data, "open", s.left, s.summed)
DataRule(a, s, op, t) ==
    /\ op.do = "push" /\ s.phase = "fed" /\ s.stack # <<>> /\ CanWrite(a, s, op)
    /\ t = State(s.stack, s.top, s.sent \o op.segment.data, "open", s.left, s.summed)
EofRule(a, s, op, t) ==
    /\ op.do = "push" /\ s.phase = "ending" /\ s.stack # <<>> /\ op.p = Last(s.stack)
    /\ op.segment = Eof /\ Ready(a, s, op.p) /\ Free(a, s, op.p)
    /\ t = Now(s, "closed")
\* A sink that has got everything is flushed: the main thread pushes an Eof.
FlushRule(a, s, op, t) ==
    /\ op.do = "flush" /\ s.phase = "open" /\ s.stack # <<>> /\ op.p = Last(s.stack)
    /\ Ready(a, s, op.p) /\ Free(a, s, op.p)
    /\ t = Now(s, "joined")
StopRule(a, s, op, t) ==
    /\ op.do = "stop" /\ s.stack # <<>> /\ op.p = Last(s.stack)
    /\ \/ s.phase = "joined" /\ op.p[1] # "std"
       \/ s.phase = "open" /\ op.p[1] = "hash" /\ In(a, op.p) = <<>>
       \/ s.phase = "open" /\ op.p[1] = "std" /\ Reader(a, op.p) \notin Ran(s.stack)
    /\ t = Now(s, "joined")
DetachRule(a, s, op, t) ==
    /\ op.do = "detach" /\ s.phase = "joined" /\ Removable(a, s, op.p)
    /\ t = Gone(a, s, op.p)
\* The destructor: flush, stop, join, detach.
DestroyRule(a, s, op, t) ==
    /\ op.do = "destroy" /\ Removable(a, s, op.p)
    /\ \/ s.phase = "open" /\ Ready(a, s, op.p)
       \/ s.phase = "open" /\ op.p[1] = "hash" /\ In(a, op.p) = <<>>
       \/ s.phase = "joined" /\ op.p[1] = "hash"
       \/ s.phase = "open" /\ op.p[1] = "std"
    /\ t = Gone(a, s, op.p)
\* A result is taken.
TakeRule(a, s, op, t) ==
    /\ op.do = "take" /\ s.phase = "open" /\ op.p = s.left /\ Takeable(op.p)
    /\ t = State(s.stack, s.top, s.sent, "open", s.left, s.summed \/ op.p = overall)
EndRule(a, s, op, t) ==
    /\ op.do = "end" /\ op.result = "committed" /\ s.phase = "open" /\ s.stack = <<>>
    /\ s.left = file /\ s.summed
    /\ t = Now(s, "over")

WriteStep(a, s, op, t) ==
    \/ FileRule(a, s, op, t) \/ StdRule(a, s, op, t)
    \/ SinkRule(a, s, op, t) \/ HashRule(a, s, op, t)
    \/ CopyRule(a, s, op, t) \/ StartRule(a, s, op, t)
    \/ JoinRule(a, s, op, t) \/ WriteRule(a, s, op, t)
    \/ DataRule(a, s, op, t) \/ EofRule(a, s, op, t)
    \/ FlushRule(a, s, op, t) \/ StopRule(a, s, op, t)
    \/ DetachRule(a, s, op, t) \/ DestroyRule(a, s, op, t)
    \/ TakeRule(a, s, op, t) \/ EndRule(a, s, op, t)

\* The rules of the proof about types, and those of the proof about data.
Stack == <<"stack", None>>
Writing(a) == <<"write", a>>

Step(rule, s, op, t) ==
    IF rule = Stack THEN StackStep(s, op, t) ELSE WriteStep(rule[2], s, op, t)

\* Operations that take s to t.
Path(rule, s, ops, t) ==
    \E c : /\ c[1] = s
           /\ c[Len(ops) + 1] = t
           /\ \A k \in 1 .. Len(ops) : Step(rule, c[k], ops[k], c[k + 1])

-----------------------------------------------------------------------------
\* Paths are composed.

LEMMA PathEmpty ==
    ASSUME NEW rule, NEW s
    PROVE  Path(rule, s, <<>>, s)
<1> DEFINE c == [k \in {1} |-> s]
           ops == <<>>
<1>1. c[1] = s /\ Len(ops) = 0
    BY SeqEmpty
<1> HIDE DEF c, ops
<1>2. Path(rule, s, ops, s)
    BY <1>1 DEF Path
<1> QED BY <1>2 DEF ops

LEMMA PathOne ==
    ASSUME NEW rule, NEW s, NEW op, NEW t, Step(rule, s, op, t)
    PROVE  Path(rule, s, <<op>>, t)
<1> DEFINE c == [k \in {1, 2} |-> IF k = 1 THEN s ELSE t]
           ops == <<op>>
<1>1. c[1] = s /\ c[2] = t
    OBVIOUS
<1>2. Len(ops) = 1 /\ ops[1] = op
    BY SeqSingle
<1> HIDE DEF c, ops
<1>3. \A k \in 1 .. Len(ops) : Step(rule, c[k], ops[k], c[k + 1])
    BY <1>1, <1>2
<1>4. Path(rule, s, ops, t)
    BY <1>1, <1>2, <1>3 DEF Path
<1> QED BY <1>4 DEF ops

LEMMA PathConcat ==
    ASSUME NEW rule, NEW s, NEW t, NEW u, NEW a, NEW b, IsSeq(a), IsSeq(b),
           Path(rule, s, a, t), Path(rule, t, b, u)
    PROVE  Path(rule, s, a \o b, u) /\ IsSeq(a \o b)
<1> DEFINE m == Len(a)
           n == Len(b)
           ab == a \o b
<1>1. m \in Nat /\ n \in Nat
    BY SeqFacts
<1>2. /\ IsSeq(ab) /\ Len(ab) = m + n
      /\ \A i \in 1 .. m + n : ab[i] = IF i <= m THEN a[i] ELSE b[i - m]
    BY SeqConcat
<1>3. PICK c : /\ c[1] = s /\ c[m + 1] = t
               /\ \A k \in 1 .. m : Step(rule, c[k], a[k], c[k + 1])
    BY DEF Path
<1>4. PICK d : /\ d[1] = t /\ d[n + 1] = u
               /\ \A k \in 1 .. n : Step(rule, d[k], b[k], d[k + 1])
    BY DEF Path
<1> DEFINE e == [k \in 1 .. m + n + 1 |-> IF k <= m + 1 THEN c[k] ELSE d[k - m]]
<1> HIDE DEF m, n, ab
<1>5. e[1] = s /\ e[m + n + 1] = u
  <2>1. e[1] = s
    BY <1>1, <1>3
  <2>2. CASE n = 0
    BY <1>1, <1>3, <1>4, <2>2
  <2>3. CASE n # 0
    <3>1. ~ (m + n + 1 <= m + 1) /\ (m + n + 1) - m = n + 1
      BY <1>1, <2>3
    <3> QED BY <1>1, <1>4, <2>1, <3>1
  <2> QED BY <2>1, <2>2, <2>3
<1>6. ASSUME NEW k \in 1 .. m + n PROVE Step(rule, e[k], ab[k], e[k + 1])
  <2>1. CASE k <= m
    <3>1. k \in 1 .. m /\ k <= m + 1 /\ k + 1 <= m + 1
      BY <1>1, <2>1
    <3>2. e[k] = c[k] /\ e[k + 1] = c[k + 1] /\ ab[k] = a[k]
      BY <1>1, <1>2, <3>1
    <3> QED BY <1>3, <3>1, <3>2
  <2>2. CASE ~ (k <= m)
    <3> DEFINE j == k - m
    <3>1. j \in 1 .. n /\ (k + 1) - m = j + 1 /\ ~ (k + 1 <= m + 1)
      BY <1>1, <2>2
    <3>2. ab[k] = b[j] /\ e[k + 1] = d[j + 1]
      BY <1>1, <1>2, <2>2, <3>1
    <3>3. e[k] = d[j]
      <4>1. CASE k = m + 1
        BY <1>1, <1>3, <1>4, <4>1
      <4>2. CASE k # m + 1
        BY <1>1, <2>2, <4>2
      <4> QED BY <4>1, <4>2
    <3> HIDE DEF j
    <3> QED BY <1>4, <3>1, <3>2, <3>3
  <2> QED BY <2>1, <2>2
<1> HIDE DEF e
<1>7. Path(rule, s, ab, u)
    BY <1>2, <1>5, <1>6 DEF Path
<1> QED BY <1>2, <1>7 DEF ab

\* The first operation, and the rest.
LEMMA PathTail ==
    ASSUME NEW rule, NEW s, NEW u, NEW ops, IsSeq(ops), ops # <<>>, Path(rule, s, ops, u)
    PROVE  /\ IsSeq(Tail(ops))
           /\ \E t : Step(rule, s, ops[1], t) /\ Path(rule, t, Tail(ops), u)
<1> DEFINE n == Len(ops)
           rest == Tail(ops)
<1>1. n \in Nat /\ n > 0
    BY SeqFacts
<1>2. IsSeq(rest) /\ Len(rest) = n - 1 /\ \A k \in 1 .. n - 1 : rest[k] = ops[k + 1]
    BY SeqTail
<1>3. PICK c : /\ c[1] = s /\ c[n + 1] = u
               /\ \A k \in 1 .. n : Step(rule, c[k], ops[k], c[k + 1])
    BY DEF Path
<1> DEFINE d == [k \in 1 .. n |-> c[k + 1]]
<1> HIDE DEF n, rest
<1>4. d[1] = c[2] /\ d[n] = u /\ Step(rule, s, ops[1], c[2])
    BY <1>1, <1>3
<1>5. ASSUME NEW k \in 1 .. n - 1 PROVE Step(rule, d[k], rest[k], d[k + 1])
  <2>1. k + 1 \in 1 .. n /\ k \in 1 .. n
    BY <1>1
  <2>2. d[k] = c[k + 1] /\ d[k + 1] = c[k + 1 + 1] /\ rest[k] = ops[k + 1]
    BY <1>2, <2>1
  <2> QED BY <1>3, <2>1, <2>2
<1>6. d[Len(rest) + 1] = u
    BY <1>1, <1>2, <1>4
<1> HIDE DEF d
<1>7. Path(rule, c[2], rest, u)
    BY <1>2, <1>4, <1>5, <1>6 DEF Path
<1> QED BY <1>2, <1>4, <1>7 DEF rest

\* Blocks of operations that follow each other, from J[1] to J[2] and so on.
LEMMA PathFlatten ==
    ASSUME NEW rule, NEW blocks, IsSeqs(blocks), NEW J,
           \A i \in 1 .. Len(blocks) : Path(rule, J[i], blocks[i], J[i + 1])
    PROVE  Path(rule, J[1], FlattenSeq(blocks), J[Len(blocks) + 1])
<1> DEFINE Whole(b) == \A i \in 1 .. Len(b) : Path(rule, J[i], b[i], J[i + 1])
           P(b) == Path(rule, J[1], FlattenSeq(b), J[Len(b) + 1])
           T == {n \in Nat : \A b : IsSeqs(b) /\ Len(b) = n /\ Whole(b) => P(b)}
<1>1. 0 \in T
  <2>1. ASSUME NEW b, IsSeqs(b), Len(b) = 0 PROVE P(b)
    <3>1. b = <<>>
      BY <2>1, SeqFacts DEF IsSeqs
    <3> QED BY <2>1, <3>1, PathEmpty, FlattenEmpty
  <2> QED BY <2>1
<1>2. ASSUME NEW n \in Nat, n \in T PROVE n + 1 \in T
  <2>1. ASSUME NEW b, IsSeqs(b), Len(b) = n + 1, Whole(b) PROVE P(b)
    <3>1. IsSeq(b) /\ b # <<>>
      BY <2>1, SeqFacts DEF IsSeqs
    <3> DEFINE f == Front(b)
               l == Last(b)
    <3>2. IsSeqs(f) /\ IsSeq(l) /\ b = Append(f, l) /\ l = b[n + 1]
      BY <2>1, <3>1, FrontOfSeqs DEF Last
    <3>3. Len(f) = n /\ \A i \in 1 .. n : f[i] = b[i]
      <4>1. Len(f) = Len(b) - 1 /\ \A i \in 1 .. Len(b) - 1 : f[i] = b[i]
        BY <3>1, SeqFront
      <4>2. Len(b) - 1 = n
        BY <2>1
      <4> QED BY <4>1, <4>2
    <3> HIDE DEF f, l
    <3>4. \A i \in 1 .. n + 1 : Path(rule, J[i], b[i], J[i + 1])
      BY <2>1
    <3>5. Whole(f)
      BY <3>3, <3>4
    <3>6. Path(rule, J[1], FlattenSeq(f), J[n + 1])
      BY <1>2, <3>2, <3>3, <3>5
    <3>7. Path(rule, J[n + 1], l, J[n + 1 + 1])
      <4>1. n + 1 \in 1 .. n + 1
        OBVIOUS
      <4>2. Path(rule, J[n + 1], b[n + 1], J[n + 1 + 1])
        BY <3>4, <4>1
      <4> QED BY <3>2, <4>2
    <3>8. FlattenSeq(b) = FlattenSeq(f) \o l /\ IsSeq(FlattenSeq(f))
      <4>1. IsSeq(f)
        BY <3>2 DEF IsSeqs
      <4>2. FlattenSeq(Append(f, l)) = FlattenSeq(f) \o l
        BY <3>2, <4>1, FlattenAppend
      <4>3. IsSeq(FlattenSeq(f))
        BY <3>2, FlattenIsSeq
      <4>4. FlattenSeq(b) = FlattenSeq(Append(f, l))
        BY <3>2
      <4> QED BY <4>2, <4>3, <4>4
    <3> DEFINE g == FlattenSeq(f)
    <3>a. IsSeq(g) /\ IsSeq(l) /\ Path(rule, J[1], g, J[n + 1])
      BY <3>2, <3>6, <3>8
    <3> HIDE DEF g
    <3>b. Path(rule, J[1], g \o l, J[n + 1 + 1])
      BY <3>7, <3>a, PathConcat
    <3>9. Path(rule, J[1], FlattenSeq(f) \o l, J[n + 1 + 1])
      BY <3>b DEF g
    <3> QED BY <2>1, <3>8, <3>9
  <2> HIDE DEF P, Whole
  <2> QED BY <2>1
<1>3. Nat \subseteq T
  <2> HIDE DEF T
  <2> QED BY <1>1, <1>2, NatSet
<1>4. Len(blocks) \in Nat
    BY SeqFacts DEF IsSeqs
<1> QED BY <1>3, <1>4

-----------------------------------------------------------------------------
\* The processors and their queues.

QueueShape(q) ==
    /\ DOMAIN q = {"items", "putback", "source"}
    /\ AreSegments(q.items) /\ Len(q.items) <= capacity
    /\ AreSegments(q.putback)
    /\ q.source \in BOOLEAN

QueuesOK == \A q \in DOMAIN queue : QueueShape(queue[q])

ProcsOK == \A p \in DOMAIN proc : ProcShape(proc[p]) /\ proc[p].state \in States

Distinct(s) == \A i, j \in 1 .. Len(s) : s[i] = s[j] => i = j

\* A processor reads from a queue of its own or of an older one.
SourcesOlder ==
    \A i \in 1 .. Len(live) :
        \/ Source(live[i]) = NoQueue
        \/ \E j \in 1 .. i : live[j] = Source(live[i]) /\ live[j] \in DOMAIN queue

\* The BoundedSources of the parts of the archive, and what they leave behind.
PartsOK ==
    /\ \A p \in DOMAIN proc : IsPart(p) =>
          proc[p].kind = "BoundedSource" /\ proc[p].arg = Len(Files[p[2]])
    /\ \A p \in DOMAIN results : IsPart(p) => results[p] \in 0 .. Len(Files[p[2]])

LiveOK ==
    /\ IsSeq(live) /\ Distinct(live)
    /\ DOMAIN proc = Ran(live)
    /\ DOMAIN queue \subseteq Ran(live)

PipelineOK == LiveOK /\ QueuesOK /\ ProcsOK /\ SourcesOlder /\ PartsOK

-----------------------------------------------------------------------------
\* Workers.

\* A worker changes one processor, and no more of it than this.
Becomes(r, q) ==
    /\ ProcShape(q) /\ q.state \in States
    /\ q.kind = r.kind /\ q.arg = r.arg /\ q.source_queue = r.source_queue

LEMMA Appended ==
    ASSUME NEW q, QueueShape(q), Len(q.items) < capacity, NEW s, IsSegment(s)
    PROVE  QueueShape([q EXCEPT !.items = Append(@, s)])
<1> DEFINE i == Append(q.items, s)
<1>1. AreSegments(q.items) /\ Len(q.items) \in Nat
    BY SeqFacts DEF QueueShape, AreSegments
<1>2. AreSegments(i) /\ Len(i) = Len(q.items) + 1
    BY <1>1, AppendSegment
<1>3. Len(i) <= capacity
    BY <1>1, <1>2, CapacityAssumption
<1> HIDE DEF i
<1>4. QueueShape([q EXCEPT !.items = i])
    BY <1>2, <1>3 DEF QueueShape
<1> QED BY <1>4 DEF i

LEMMA PoppedShape ==
    ASSUME NEW q, QueueShape(q), q.putback # <<>> \/ q.items # <<>>
    PROVE  QueueShape(Popped(q))
<1>1. AreSegments(q.items) /\ AreSegments(q.putback) /\ Len(q.items) \in Nat
    BY SeqFacts DEF QueueShape, AreSegments
<1>2. CASE q.putback # <<>>
  <2> DEFINE f == Front(q.putback)
  <2>1. AreSegments(f)
    BY <1>1, <1>2, FrontOfSegments
  <2>2. Popped(q) = [q EXCEPT !.putback = f]
    BY <1>2 DEF Popped
  <2> HIDE DEF f
  <2> QED BY <2>1, <2>2 DEF QueueShape
<1>3. CASE ~ (q.putback # <<>>)
  <2> DEFINE t == Tail(q.items)
  <2>1. AreSegments(t) /\ Len(t) = Len(q.items) - 1
    BY <1>1, <1>3, TailOfSegments
  <2>2. Popped(q) = [q EXCEPT !.items = t]
    BY <1>3 DEF Popped
  <2>3. Len(t) <= capacity
    <3>1. Len(q.items) <= capacity
      BY DEF QueueShape
    <3> QED BY <1>1, <2>1, <3>1, CapacityAssumption
  <2> HIDE DEF t
  <2> QED BY <2>1, <2>2, <2>3 DEF QueueShape
<1> QED BY <1>2, <1>3

\* What is there to be read, when something is.
LEMMA InputShape ==
    ASSUME PipelineOK, NEW p \in DOMAIN proc
    PROVE  /\ Source(p) # NoQueue => Source(p) \in DOMAIN queue
           /\ HasInput(p) => /\ Source(p) \in DOMAIN queue /\ QueueShape(queue[Source(p)])
                             /\ QueueShape(Popped(queue[Source(p)]))
           /\ IsSegment(NextSegment(p))
<1>1. Source(p) # NoQueue => Source(p) \in DOMAIN queue
  <2>1. PICK i \in 1 .. Len(live) : p = live[i]
    BY DEF PipelineOK, LiveOK, Ran
  <2> QED BY <2>1 DEF PipelineOK, SourcesOlder
<1>2. ASSUME HasInput(p)
      PROVE  /\ Source(p) \in DOMAIN queue /\ QueueShape(queue[Source(p)])
             /\ queue[Source(p)].putback # <<>> \/ queue[Source(p)].items # <<>>
  <2>1. Source(p) \in DOMAIN queue
    BY <1>1, <1>2 DEF HasInput
  <2>2. QueueShape(queue[Source(p)])
    BY <2>1 DEF PipelineOK, QueuesOK
  <2>3. queue[Source(p)].putback # <<>> \/ queue[Source(p)].items # <<>>
    <3>1. <<>> \o <<>> = <<>>
      BY SeqEmpty
    <3> QED BY <1>2, <3>1 DEF HasInput
  <2> QED BY <2>1, <2>2, <2>3
<1>3. HasInput(p) => QueueShape(Popped(queue[Source(p)]))
    BY <1>2, PoppedShape
<1>4. IsSegment(NextSegment(p))
  <2>1. CASE ~HasInput(p)
    BY <2>1, Segment DEF NextSegment
  <2>2. CASE HasInput(p)
    <3> DEFINE q == queue[Source(p)]
    <3>1. AreSegments(q.putback) /\ AreSegments(q.items) /\ (q.putback # <<>> \/ q.items # <<>>)
      BY <1>2, <2>2 DEF QueueShape
    <3>2. NextSegment(p) = IF q.putback # <<>> THEN Last(q.putback) ELSE q.items[1]
      BY <2>2 DEF NextSegment
    <3> HIDE DEF q
    <3> QED BY <3>1, <3>2, FrontOfSegments, TailOfSegments
  <2> QED BY <2>1, <2>2
<1> QED BY <1>1, <1>2, <1>3, <1>4

\* A step of a worker that changes processor p to r, the queues, and the
\* result of p.
LEMMA WorkerKeeps ==
    ASSUME PipelineOK, NEW p \in DOMAIN proc, NEW r, Becomes(proc[p], r),
           DOMAIN proc' = DOMAIN proc,
           \A x \in DOMAIN proc : proc'[x] = IF x = p THEN r ELSE proc[x],
           live' = live, archive' = archive,
           DOMAIN queue' = DOMAIN queue, QueuesOK',
           \/ results' = results
           \/ proc[p].kind # "BoundedSource" /\ \E x : results' = With(results, p, x)
    PROVE  PipelineOK'
<1>1. /\ DOMAIN proc' = DOMAIN proc
      /\ \A x \in DOMAIN proc : proc'[x] = IF x = p THEN r ELSE proc[x]
    OBVIOUS
<1>2. \A x \in DOMAIN proc : /\ proc'[x].kind = proc[x].kind /\ proc'[x].arg = proc[x].arg
                             /\ proc'[x].source_queue = proc[x].source_queue
    BY <1>1 DEF Becomes
<1>3. LiveOK'
    BY <1>1 DEF PipelineOK, LiveOK, Distinct, Ran
<1>4. ProcsOK'
    BY <1>1 DEF PipelineOK, ProcsOK, Becomes
<1>5. SourcesOlder'
  <2>1. \A i \in 1 .. Len(live) : live[i] \in DOMAIN proc
    BY SeqFacts DEF PipelineOK, LiveOK, Ran
  <2>2. \A i \in 1 .. Len(live) : proc'[live[i]].source_queue = Source(live[i])
    BY <1>2, <2>1 DEF Source
  <2> QED BY <2>2 DEF PipelineOK, SourcesOlder, Source
<1>6. PartsOK'
  <2>1. \A p_1 : IsPart(p_1)' <=> IsPart(p_1)
    BY DEF IsPart, Files
  <2>2. \A x \in DOMAIN proc' : IsPart(x) =>
            proc'[x].kind = "BoundedSource" /\ proc'[x].arg = Len(Files[x[2]])
    BY <1>1, <1>2 DEF PipelineOK, PartsOK
  <2>3. \A x \in DOMAIN results' : IsPart(x) => results'[x] \in 0 .. Len(Files[x[2]])
    <3>1. CASE results' = results
      BY <3>1 DEF PipelineOK, PartsOK
    <3>2. CASE proc[p].kind # "BoundedSource" /\ \E x : results' = With(results, p, x)
      <4>1. ~IsPart(p)
        BY <3>2 DEF PipelineOK, PartsOK
      <4>2. DOMAIN results' = DOMAIN results \cup {p}
            /\ \A x \in DOMAIN results : x # p => results'[x] = results[x]
        BY <3>2 DEF With
      <4> QED BY <4>1, <4>2 DEF PipelineOK, PartsOK
    <3> QED BY <3>1, <3>2
  <2> QED BY <2>1, <2>2, <2>3 DEF PartsOK, Files
<1> QED BY <1>3, <1>4, <1>5, <1>6 DEF PipelineOK

\* A processor that changes in a way its work does not depend on.
LEMMA BecomesSame ==
    ASSUME NEW r, ProcShape(r), NEW q, DOMAIN q = ProcFields,
           SameBut(r, [q EXCEPT !.state = r.state, !.ready = r.ready]), q.ready \in BOOLEAN, q.state \in States, q.done \in BOOLEAN,
           q.buffer = r.buffer, q.out = r.out, q.bytes = r.bytes
    PROVE  Becomes(r, q)
<1>1. /\ q.kind = r.kind /\ q.arg = r.arg /\ q.source_queue = r.source_queue
      /\ q.sink_queue = r.sink_queue /\ q.pass_eof = r.pass_eof
      /\ q.stop_requested = r.stop_requested /\ q.bytes_written = r.bytes_written
    BY DEF SameBut, ProcFields
<1>2. WithinBound(q)
    BY <1>1 DEF ProcShape, WithinBound
<1> QED BY <1>1, <1>2 DEF ProcShape, Becomes

\* The segments of a file.
LEMMA SegmentsShape ==
    ASSUME NEW d, IsSeq(d)
    PROVE  AreSegments(Segments(d))
<1> DEFINE n == (Len(d) + SegmentSize - 1) \div SegmentSize
           from(i) == (i - 1) * SegmentSize + 1
           to(i) == IF i * SegmentSize > Len(d) THEN Len(d) ELSE i * SegmentSize
           s == Segments(d)
<1>1. Len(d) \in Nat /\ SegmentSize \in Nat \ {0}
    BY SeqFacts, SizesAssumption
<1>2. n \in Nat
    BY <1>1
<1>3. \A i \in 1 .. n : from(i) \in Nat \ {0} /\ to(i) \in 0 .. Len(d)
  <2>1. ASSUME NEW i \in 1 .. n PROVE from(i) \in Nat \ {0} /\ to(i) \in 0 .. Len(d)
    <3>1. i \in Nat /\ i - 1 \in Nat
      BY <1>2
    <3> HIDE DEF n
    <3>2. \A a, b \in Nat : a * b \in Nat
      OBVIOUS
    <3>3. i * SegmentSize \in Nat /\ (i - 1) * SegmentSize \in Nat
      BY <1>1, <3>1, <3>2
    <3> QED BY <1>1, <3>3
  <2> QED BY <2>1
<1>4. s = [i \in 1 .. n |-> Data(SubSeq(d, from(i), to(i)))]
    BY DEF Segments
<1> HIDE DEF n, from, to, s
<1>5. \A i \in 1 .. n : s[i] = Data(SubSeq(d, from(i), to(i)))
    BY <1>4
<1>6. IsSeq(s) /\ Len(s) = n
    BY <1>2, <1>4, SeqMake
<1>7. ASSUME NEW i \in 1 .. n PROVE IsSegment(s[i])
  <2> DEFINE x == SubSeq(d, from(i), to(i))
  <2>1. IsSeq(x)
    BY <1>3, SeqSub
  <2>2. s[i] = Data(x)
    BY <1>5
  <2> HIDE DEF x
  <2> QED BY <2>1, <2>2, Segment
<1> QED BY <1>6, <1>7 DEF AreSegments, s

LEMMA BeginWorkKeeps ==
    ASSUME PipelineOK, NEW p \in DOMAIN proc, BeginWork(p), archive' = archive
    PROVE  PipelineOK'
<1> DEFINE r == [proc[p] EXCEPT !.state = "Running"]
           o == Append(Segments(r.arg), Eof)
           q == CASE r.kind = "StdStreamSource" -> Ended(r, o)
                  [] r.kind = "BoundedSource" /\ r.arg = 0 -> Ended(r, <<Eof>>)
                  [] OTHER -> r
<1>1. ProcShape(proc[p])
    BY DEF PipelineOK, ProcsOK
<1>2. Becomes(proc[p], r) /\ ProcShape(r) /\ r.state \in States
  <2>1. /\ DOMAIN r = ProcFields
        /\ SameBut(proc[p], [r EXCEPT !.state = proc[p].state, !.ready = proc[p].ready])
    BY <1>1 DEF ProcShape, ProcFields, SameBut
  <2>2. /\ r.ready \in BOOLEAN /\ r.state \in States /\ r.done \in BOOLEAN
        /\ r.buffer = proc[p].buffer /\ r.out = proc[p].out /\ r.bytes = proc[p].bytes
    BY <1>1 DEF ProcShape, ProcFields, States
  <2> HIDE DEF r
  <2>3. Becomes(proc[p], r)
    BY <1>1, <2>1, <2>2, BecomesSame
  <2> QED BY <2>3 DEF Becomes
<1> HIDE DEF r
<1>3. Becomes(proc[p], q)
  <2>1. CASE r.kind = "StdStreamSource"
    <3>1. AreSegments(o)
      <4>1. IsSeq(r.arg)
        BY <1>2, <2>1 DEF ProcShape
      <4> QED BY <4>1, SegmentsShape, AppendSegment, Segment
    <3>2. q = Ended(r, o)
      BY <2>1
    <3> HIDE DEF o, q
    <3>3. ProcShape(q) /\ q.kind = r.kind /\ q.arg = r.arg /\ q.source_queue = r.source_queue
      BY <1>2, <2>1, <3>1, <3>2, EndedShape DEF SameBut
    <3>4. q.state = r.state
      BY <1>2, <3>2 DEF Ended, ProcShape, ProcFields
    <3> QED BY <1>2, <3>3, <3>4 DEF Becomes
  <2>2. CASE r.kind = "BoundedSource" /\ r.arg = 0
    <3> DEFINE e == <<Eof>>
    <3>1. AreSegments(e) /\ e # <<>> /\ Len(e) = 1 /\ e[1] = Eof /\ Len(Eof.data) = 0
      BY Segment, OneSegment, SeqEmpty
    <3>2. q = Ended(r, e)
      BY <2>2
    <3> HIDE DEF e, q
    <3>3. /\ DOMAIN q = ProcFields /\ q.done = TRUE /\ q.out = e /\ SameBut(r, q)
          /\ q.buffer = r.buffer /\ q.bytes = r.bytes /\ q.state = r.state
      BY <1>2, <3>2 DEF Ended, ProcShape, ProcFields, SameBut
    <3>4. r.bytes \in Nat /\ r.bytes_written \in Nat /\ IsSeq(r.buffer)
          /\ r.arg \in Nat /\ r.bytes <= r.arg
      BY <1>2, <2>2 DEF ProcShape, WithinBound
    <3>5. r.bytes_written <= r.bytes
      <4>1. CASE r.out = <<>>
        BY <1>2, <2>2, <4>1 DEF ProcShape, WithinBound
      <4>2. CASE r.out # <<>>
        <5>1. r.bytes_written + Len(r.out[1].data) <= r.bytes
          BY <1>2, <2>2, <4>2 DEF ProcShape, WithinBound
        <5>2. Len(r.out[1].data) \in Nat
          BY <1>2, <4>2, TailOfSegments, SegmentFacts DEF ProcShape
        <5> QED BY <3>4, <5>1, <5>2
      <4> QED BY <4>1, <4>2
    <3>6. WithinBound(q)
      <4>1. q.arg \in Nat /\ q.bytes <= q.arg /\ q.bytes_written + 0 <= q.bytes
        BY <3>3, <3>4, <3>5 DEF SameBut
      <4>2. \A i \in 2 .. Len(e) : e[i] = Eof
        <5>1. 2 .. 1 = {}
          OBVIOUS
        <5> QED BY <3>1, <5>1
      <4> QED BY <3>1, <3>3, <4>1, <4>2, BoundHolds
    <3>7. ProcShape(q)
      BY <1>2, <3>1, <3>3, <3>4, <3>6, ShapeOf
    <3> QED BY <1>2, <3>3, <3>7 DEF Becomes, SameBut
  <2>3. CASE r.kind # "StdStreamSource" /\ ~ (r.kind = "BoundedSource" /\ r.arg = 0)
    BY <1>2, <2>3
  <2>4. r.kind = proc[p].kind /\ r.arg = proc[p].arg /\ r.source_queue = proc[p].source_queue
    BY <1>2 DEF Becomes
  <2> HIDE DEF q, o
  <2> QED BY <2>1, <2>2, <2>3
<1>4. proc' = [proc EXCEPT ![p] = q]
    BY DEF BeginWork, r
<1> HIDE DEF q
<1>5. QueuesOK'
    BY DEF BeginWork, PipelineOK, QueuesOK
<1> QED BY <1>3, <1>4, <1>5, WorkerKeeps DEF BeginWork

\* The queue a processor reads from, after it has read.
LEMMA QueuePopped ==
    ASSUME PipelineOK, NEW p \in DOMAIN proc, HasInput(p),
           queue' = [queue EXCEPT ![Source(p)] = Popped(@)]
    PROVE  DOMAIN queue' = DOMAIN queue /\ QueuesOK'
<1>1. QueueShape(Popped(queue[Source(p)]))
    BY InputShape
<1> QED BY <1>1 DEF PipelineOK, QueuesOK

LEMMA ReadKeeps ==
    ASSUME PipelineOK, NEW p \in DOMAIN proc, Read(p), archive' = archive
    PROVE  PipelineOK'
<1> DEFINE s == NextSegment(p)
           o == proc[p]
<1>1. ProcShape(o) /\ o.out = <<>> /\ IsSegment(s) /\ o.state = "Running"
    BY InputShape DEF PipelineOK, ProcsOK, Read, CanRead, Working
<1>2. PICK r \in work(o, s) :
          LET throws == r.state = "Throwing"
              put_back == r.kind = "BoundedSource" /\ r.buffer # <<>>
              popped == Popped(queue[Source(p)])
          IN  /\ proc' = [proc EXCEPT ![p] = [r EXCEPT !.state = IF throws THEN "Completed" ELSE @]]
              /\ results' = IF LeavesResult(r) THEN With(results, p, ResultOf(r)) ELSE results
              /\ queue' = IF ~HasInput(p) THEN queue
                          ELSE [queue EXCEPT ![Source(p)] =
                                IF put_back THEN [popped EXCEPT !.putback = Append(@, Data(r.buffer))]
                                ELSE popped]
    BY DEF Read
<1> HIDE DEF s, o
<1>3. ProcShape(r) /\ SameBut(o, r)
    BY <1>1, WorkShape
<1> DEFINE q == [r EXCEPT !.state = IF r.state = "Throwing" THEN "Completed" ELSE @]
<1>4. Becomes(o, q)
  <2>1. r.state \in {"Running", "Throwing"}
    BY <1>1, <1>3 DEF SameBut
  <2>2. /\ DOMAIN q = ProcFields /\ q.state \in States
        /\ SameBut(r, [q EXCEPT !.state = r.state, !.ready = r.ready])
        /\ q.ready \in BOOLEAN /\ q.done \in BOOLEAN
        /\ q.buffer = r.buffer /\ q.out = r.out /\ q.bytes = r.bytes
    BY <1>3, <2>1 DEF ProcShape, ProcFields, SameBut, States
  <2> HIDE DEF q
  <2>3. Becomes(r, q)
    BY <1>3, <2>2, BecomesSame
  <2> QED BY <1>3, <2>3 DEF Becomes, SameBut
<1>5. DOMAIN queue' = DOMAIN queue /\ QueuesOK'
  <2>1. CASE ~HasInput(p)
    BY <1>2, <2>1 DEF PipelineOK, QueuesOK
  <2>2. CASE HasInput(p)
    <3> DEFINE popped == Popped(queue[Source(p)])
               pb == Append(popped.putback, Data(r.buffer))
               new == [popped EXCEPT !.putback = pb]
    <3>1. QueueShape(popped)
      BY <2>2, InputShape
    <3>2. QueueShape(new)
      <4>1. AreSegments(popped.putback) /\ IsSeq(r.buffer)
        BY <1>3, <3>1 DEF QueueShape, ProcShape
      <4>2. AreSegments(pb)
        BY <4>1, AppendSegment, Segment
      <4> HIDE DEF popped, pb
      <4> QED BY <3>1, <4>2 DEF QueueShape
    <3>3. \E x \in {popped, new} : queue' = [queue EXCEPT ![Source(p)] = x]
      BY <1>2, <2>2
    <3> HIDE DEF popped, new
    <3> QED BY <3>1, <3>2, <3>3 DEF PipelineOK, QueuesOK
  <2> QED BY <2>1, <2>2
<1>6. \/ results' = results
      \/ o.kind # "BoundedSource" /\ \E x : results' = With(results, p, x)
  <2>1. LeavesResult(r) => o.kind # "BoundedSource"
    BY <1>3 DEF LeavesResult, Hashes, SameBut
  <2> QED BY <1>2, <2>1
<1>7. proc' = [proc EXCEPT ![p] = q] /\ live' = live
    BY <1>2 DEF Read
<1> HIDE DEF q
<1> QED BY <1>4, <1>5, <1>6, <1>7, WorkerKeeps DEF o

LEMMA ReadFlushKeeps ==
    ASSUME PipelineOK, NEW p \in DOMAIN proc, ReadFlush(p), archive' = archive
    PROVE  PipelineOK'
<1> DEFINE q == [proc[p] EXCEPT !.ready = TRUE]
<1>1. Becomes(proc[p], q)
  <2>1. ProcShape(proc[p]) /\ proc[p].state \in States
    BY DEF PipelineOK, ProcsOK
  <2>2. /\ DOMAIN q = ProcFields /\ q.state \in States
        /\ SameBut(proc[p], [q EXCEPT !.state = proc[p].state, !.ready = proc[p].ready])
        /\ q.ready \in BOOLEAN /\ q.done \in BOOLEAN
        /\ q.buffer = proc[p].buffer /\ q.out = proc[p].out /\ q.bytes = proc[p].bytes
    BY <2>1 DEF ProcShape, ProcFields, SameBut
  <2> HIDE DEF q
  <2> QED BY <2>1, <2>2, BecomesSame
<1>2. proc' = [proc EXCEPT ![p] = q] /\ live' = live /\ results' = results
    BY DEF ReadFlush
<1>3. DOMAIN queue' = DOMAIN queue /\ QueuesOK'
    BY QueuePopped DEF ReadFlush
<1> HIDE DEF q
<1> QED BY <1>1, <1>2, <1>3, WorkerKeeps

\* The end of the work of a processor.
LEMMA CompletedBecomes ==
    ASSUME PipelineOK, NEW p \in DOMAIN proc
    PROVE  Becomes(proc[p], [proc[p] EXCEPT !.state = "Completed"])
<1> DEFINE q == [proc[p] EXCEPT !.state = "Completed"]
<1>1. ProcShape(proc[p]) /\ proc[p].state \in States
    BY DEF PipelineOK, ProcsOK
<1>2. /\ DOMAIN q = ProcFields /\ q.state \in States
      /\ SameBut(proc[p], [q EXCEPT !.state = proc[p].state, !.ready = proc[p].ready])
      /\ q.ready \in BOOLEAN /\ q.done \in BOOLEAN
      /\ q.buffer = proc[p].buffer /\ q.out = proc[p].out /\ q.bytes = proc[p].bytes
    BY <1>1 DEF ProcShape, ProcFields, SameBut, States
<1> HIDE DEF q
<1>3. Becomes(proc[p], q)
    BY <1>1, <1>2, BecomesSame
<1> QED BY <1>3 DEF q

LEMMA EndWorkKeeps ==
    ASSUME PipelineOK, NEW p \in DOMAIN proc, EndWork(p), archive' = archive
    PROVE  PipelineOK'
<1> DEFINE q == [proc[p] EXCEPT !.state = "Completed"]
<1>1. proc' = [proc EXCEPT ![p] = q] /\ live' = live /\ results' = results /\ queue' = queue
    BY DEF EndWork
<1>2. Becomes(proc[p], q)
    BY CompletedBecomes
<1> HIDE DEF q
<1>3. QueuesOK'
    BY <1>1 DEF PipelineOK, QueuesOK
<1> QED BY <1>1, <1>2, <1>3, WorkerKeeps

LEMMA FailKeeps ==
    ASSUME PipelineOK, NEW p \in DOMAIN proc, Fail(p), archive' = archive
    PROVE  PipelineOK'
<1> DEFINE q == [proc[p] EXCEPT !.state = "Completed"]
<1>1. proc' = [proc EXCEPT ![p] = q] /\ live' = live /\ results' = results
    BY DEF Fail
<1>2. Becomes(proc[p], q)
    BY CompletedBecomes
<1>3. DOMAIN queue' = DOMAIN queue /\ QueuesOK'
    BY QueuePopped DEF Fail
<1> HIDE DEF q
<1> QED BY <1>1, <1>2, <1>3, WorkerKeeps

LEMMA LoseDataKeeps ==
    ASSUME PipelineOK, NEW p \in DOMAIN proc, LoseData(p), archive' = archive
    PROVE  PipelineOK'
<1> DEFINE q == proc[p]
<1>1. proc' = proc /\ live' = live /\ results' = results
    BY DEF LoseData
<1>2. Becomes(proc[p], q)
    BY DEF PipelineOK, ProcsOK, Becomes
<1>3. DOMAIN queue' = DOMAIN queue /\ QueuesOK'
    BY QueuePopped DEF LoseData
<1> QED BY <1>1, <1>2, <1>3, WorkerKeeps

LEMMA WriteKeeps ==
    ASSUME PipelineOK, NEW p \in DOMAIN proc, Write(p), archive' = archive
    PROVE  PipelineOK'
<1> DEFINE r == proc[p]
           s == r.out[1]
           k == r.sink_queue
           dropped == s = Eof /\ ~r.pass_eof
           room == k # NoQueue /\ Len(queue[k].items) < capacity
           rest == Tail(r.out)
           n == IF room THEN r.bytes_written + Len(s.data) ELSE r.bytes_written
           st == IF ~dropped /\ r.stop_requested THEN "Completed" ELSE r.state
           q == proc'[p]
<1>1. ProcShape(r) /\ r.state \in States /\ r.out # <<>>
    BY DEF PipelineOK, ProcsOK, Write
<1>2. AreSegments(r.out) /\ AreSegments(rest) /\ IsSegment(s) /\ Len(s.data) \in Nat
      /\ r.bytes_written \in Nat
    BY <1>1, TailOfSegments, SegmentFacts DEF ProcShape
<1>3. proc' = [proc EXCEPT ![p] =
                [r EXCEPT !.out = Tail(@),
                          !.bytes_written = IF room THEN @ + Len(s.data) ELSE @,
                          !.state = IF ~dropped /\ r.stop_requested THEN "Completed" ELSE @]]
    BY Zenon DEF Write
<1>a. live' = live /\ results' = results
    BY DEF Write
<1>b. DOMAIN proc' = DOMAIN proc /\ \A x \in DOMAIN proc : x # p => proc'[x] = proc[x]
    BY <1>3
<1>4. DOMAIN queue' = DOMAIN queue /\ QueuesOK'
  <2>1. CASE dropped \/ ~room
    BY <2>1 DEF Write, PipelineOK, QueuesOK
  <2>2. CASE ~ (dropped \/ ~room)
    <3>1. queue' = [queue EXCEPT ![k].items = Append(@, s)]
      BY <2>2 DEF Write
    <3>2. k \in DOMAIN queue => QueueShape([queue[k] EXCEPT !.items = Append(@, s)])
      <4>1. k \in DOMAIN queue => QueueShape(queue[k])
        BY DEF PipelineOK, QueuesOK
      <4>2. Len(queue[k].items) < capacity
        BY <2>2
      <4> HIDE DEF s, k
      <4> QED BY <1>2, <4>1, <4>2, Appended
    <3> HIDE DEF s, k
    <3> QED BY <3>1, <3>2 DEF PipelineOK, QueuesOK
  <2> QED BY <2>1, <2>2
<1>5. n \in Nat /\ st \in States
    BY <1>1, <1>2 DEF States
<1>6. /\ n = r.bytes_written \/ n = r.bytes_written + Len(s.data)
    OBVIOUS
<1> HIDE DEF room, dropped, s
<1>7. /\ DOMAIN q = ProcFields /\ q.kind = r.kind /\ q.arg = r.arg
      /\ q.source_queue = r.source_queue /\ q.out = rest /\ q.bytes_written = n
      /\ q.state = st /\ q.bytes = r.bytes /\ q.buffer = r.buffer /\ q.pass_eof = r.pass_eof
      /\ q.stop_requested = r.stop_requested /\ q.ready = r.ready /\ q.done = r.done
  <2>1. DOMAIN r = ProcFields
    BY <1>1 DEF ProcShape
  <2>2. q = [r EXCEPT !.out = Tail(@),
                      !.bytes_written = IF room THEN @ + Len(s.data) ELSE @,
                      !.state = IF ~dropped /\ r.stop_requested THEN "Completed" ELSE @]
    BY <1>3
  <2>3. DOMAIN q = ProcFields
    BY <2>1, <2>2
  <2>4. q.kind = r.kind /\ q.arg = r.arg /\ q.source_queue = r.source_queue
        /\ q.bytes = r.bytes /\ q.buffer = r.buffer /\ q.pass_eof = r.pass_eof
        /\ q.stop_requested = r.stop_requested /\ q.ready = r.ready /\ q.done = r.done
    BY <2>1, <2>2 DEF ProcFields
  <2>5. q.bytes_written = n
    BY <2>1, <2>2 DEF ProcFields
  <2>6. q.state = st
    BY <2>1, <2>2 DEF ProcFields
  <2>7. q.out = rest
    BY <2>1, <2>2 DEF ProcFields
  <2> QED BY <2>3, <2>4, <2>5, <2>6, <2>7
<1> HIDE DEF q, n, st
<1>8. WithinBound(q)
  <2> SUFFICES ASSUME r.kind = "BoundedSource" PROVE WithinBound(q)
    BY <1>7 DEF WithinBound
  <2>1. /\ r.arg \in Nat /\ r.bytes <= r.arg /\ r.bytes_written + Len(s.data) <= r.bytes
        /\ \A i \in 2 .. Len(r.out) : r.out[i] = Eof
    BY <1>1 DEF ProcShape, WithinBound, s
  <2>2. r.bytes \in Nat
    BY <1>1 DEF ProcShape
  <2>3. n <= r.bytes
    BY <1>2, <1>6, <2>1, <2>2
  <2>4. CASE rest = <<>>
    BY <1>7, <2>1, <2>3, <2>4 DEF WithinBound
  <2>5. CASE rest # <<>>
    <3>1. IsSeq(r.out) /\ Len(r.out) \in Nat
      BY <1>2, SeqFacts DEF AreSegments
    <3>2. IsSeq(rest) /\ Len(rest) = Len(r.out) - 1
          /\ \A i \in 1 .. Len(r.out) - 1 : rest[i] = r.out[i + 1]
      BY <1>1, <3>1, SeqTail
    <3>3. Len(rest) \in Nat /\ Len(rest) > 0
      BY <2>5, <3>2, SeqFacts
    <3> DEFINE l == Len(r.out)
    <3> HIDE DEF rest, l
    <3>4. \A i \in 1 .. Len(rest) : rest[i] = Eof
      <4>1. ASSUME NEW i \in 1 .. Len(rest) PROVE rest[i] = Eof
        <5>1. i \in 1 .. l - 1 /\ i + 1 \in 2 .. l
          BY <3>1, <3>2, <3>3 DEF l
        <5>2. rest[i] = r.out[i + 1]
          BY <3>2, <5>1 DEF l
        <5>3. r.out[i + 1] = Eof
          BY <2>1, <5>1 DEF l
        <5> QED BY <5>2, <5>3
      <4> QED BY <4>1
    <3>5. rest[1] = Eof /\ \A i \in 2 .. Len(rest) : rest[i] = Eof
      BY <3>3, <3>4
    <3>6. Len(rest[1].data) = 0
      BY <3>5, Segment, SeqEmpty
    <3>7. q.bytes_written + 0 <= q.bytes /\ q.arg \in Nat /\ q.bytes <= q.arg
      BY <1>5, <1>7, <2>1, <2>2, <2>3
    <3> QED BY <1>7, <2>5, <3>5, <3>6, <3>7, BoundHolds
  <2> QED BY <2>4, <2>5
<1>9. Becomes(r, q)
    BY <1>1, <1>2, <1>5, <1>7, <1>8 DEF ProcShape, Becomes
<1>10. \A x \in DOMAIN proc : proc'[x] = IF x = p THEN q ELSE proc[x]
    BY <1>b DEF q
<1> QED BY <1>a, <1>b, <1>4, <1>9, <1>10, WorkerKeeps

LEMMA WorkerOK ==
    ASSUME PipelineOK, NEW p \in DOMAIN proc, Worker(p), archive' = archive
    PROVE  PipelineOK'
BY BeginWorkKeeps, ReadKeeps, ReadFlushKeeps, CompletedBecomes, EndWorkKeeps, FailKeeps,
   LoseDataKeeps, WriteKeeps DEF Worker

-----------------------------------------------------------------------------
\* The main thread: what it has left to do makes sense for its Stream objects.

After(s) ==
    \E u : IsSeq(Tail(program)) /\ Path(Stack, s, Tail(program), u)

PathOK ==
    /\ IsSeq(program)
    /\ \E left, s, ops, u :
          /\ s = [live |-> live, left |-> left] /\ ops = program
          /\ Path(Stack, s, ops, u)
          /\ IsPart(left) => left \in DOMAIN results

LEMMA PathSame ==
    ASSUME archive' = archive, NEW s, NEW ops, NEW t
    PROVE  Path(Stack, s, ops, t)' <=> Path(Stack, s, ops, t)
<1>1. ASSUME NEW a, NEW op, NEW b
      PROVE  Step(Stack, a, op, b)' <=> Step(Stack, a, op, b)
    BY DEF Step, Stack, StackStep, ConstructOK, ArgumentOK, IsPart, ReaderStack, Files, Encrypted
<1> QED BY <1>1 DEF Path

LEMMA PathTwo ==
    ASSUME NEW rule, NEW s, NEW a, NEW t, NEW b, NEW u, Step(rule, s, a, t), Step(rule, t, b, u)
    PROVE  Path(rule, s, <<a, b>>, u) /\ IsSeq(<<a, b>>)
<1>1. Path(rule, s, <<a>>, t) /\ Path(rule, t, <<b>>, u)
    BY PathOne
<1>2. Path(rule, s, <<a>> \o <<b>>, u) /\ IsSeq(<<a>> \o <<b>>)
    BY <1>1, SeqSingle, PathConcat
<1>3. <<a>> \o <<b>> = <<a, b>>
  <2> DEFINE c == <<a>>
             d == <<b>>
             e == <<a, b>>
  <2>1. c \in Seq({a, b}) /\ d \in Seq({a, b}) /\ e \in Seq({a, b})
        /\ Len(c) = 1 /\ Len(d) = 1 /\ Len(e) = 2
        /\ c[1] = a /\ d[1] = b /\ e[1] = a /\ e[2] = b
    OBVIOUS
  <2> HIDE DEF c, d, e
  <2>2. IsSeq(c) /\ IsSeq(d) /\ IsSeq(e)
    BY <2>1, SeqFrom
  <2> DEFINE f == c \o d
  <2>3. /\ IsSeq(f) /\ Len(f) = 2
        /\ \A i \in 1 .. 2 : f[i] = IF i <= 1 THEN c[i] ELSE d[i - 1]
    <3>1. /\ IsSeq(f) /\ Len(f) = Len(c) + Len(d)
          /\ \A i \in 1 .. Len(c) + Len(d) : f[i] = IF i <= Len(c) THEN c[i] ELSE d[i - Len(c)]
      BY <2>2, SeqConcat
    <3>2. Len(c) + Len(d) = 2
      BY <2>1
    <3> HIDE DEF f
    <3> QED BY <2>1, <3>1, <3>2
  <2>4. IsSeq(f) /\ Len(f) = 2 /\ f[1] = a /\ f[2] = b
    BY <2>1, <2>3
  <2> HIDE DEF f
  <2>5. f = e
    BY <2>1, <2>2, <2>4, SeqExt
  <2> QED BY <2>5 DEF c, d, e, f
<1> QED BY <1>2, <1>3

\* The operation at hand.
LEMMA Current ==
    ASSUME PathOK, program # <<>>
    PROVE  \E left, t : /\ IsPart(left) => left \in DOMAIN results
                        /\ StackStep([live |-> live, left |-> left], program[1], t)
                        /\ After(t)
<1>1. PICK left, s, ops, u :
          /\ s = [live |-> live, left |-> left] /\ ops = program
          /\ Path(Stack, s, ops, u)
          /\ IsPart(left) => left \in DOMAIN results
    BY DEF PathOK
<1>2. IsSeq(ops) /\ ops # <<>>
    BY <1>1 DEF PathOK
<1>3. PICK t : Step(Stack, s, ops[1], t) /\ Path(Stack, t, Tail(ops), u) /\ IsSeq(Tail(ops))
    BY <1>1, <1>2, PathTail
<1>4. StackStep([live |-> live, left |-> left], program[1], t)
    BY <1>1, <1>3 DEF Step, Stack
<1>5. After(t)
    BY <1>1, <1>3 DEF After
<1> QED BY <1>1, <1>4, <1>5

LEMMA UseNow ==
    ASSUME PathOK, program # <<>>, program[1].do \in Uses
    PROVE  /\ Argument \in Ran(live)
           /\ program[1].do = "copy_to" => program[1].sink \in Ran(live)
           /\ program[1].do \in {"push", "sync_write"} => IsSegment(program[1].segment)
           /\ After([live |-> live, left |-> None])
BY Current DEF StackStep, Uses, Constructs, Others, Argument

LEMMA OtherNow ==
    ASSUME PathOK, program # <<>>, program[1].do \in Others
    PROVE  After([live |-> live, left |-> None])
BY Current DEF StackStep, Uses, Constructs, Others

LEMMA EndNow ==
    ASSUME PathOK, program # <<>>, program[1].do = "end"
    PROVE  /\ program[1].result \in {"committed", "restored"}
           /\ After([live |-> live, left |-> None])
BY Current DEF StackStep, Uses, Constructs, Others

LEMMA LastNow ==
    ASSUME PathOK, program # <<>>, program[1].do \in {"destroy", "detach"}
    PROVE  /\ live # <<>> /\ Argument = Last(live)
           /\ After([live |-> Front(live), left |-> Argument])
BY Current DEF StackStep, Uses, Constructs, Others, Argument

LEMMA ConstructNow ==
    ASSUME PathOK, program # <<>>, program[1].do \in Constructs
    PROVE  /\ ConstructOK(program[1])
           /\ Argument \notin Ran(live)
           /\ program[1].do = "construct_on" => program[1].sink \in Ran(live)
           /\ program[1].do = "construct_from" => program[1].source \in Ran(live)
           /\ After([live |-> Append(live, Argument), left |-> None])
BY Current DEF StackStep, Uses, Constructs, Others, Argument

LEMMA PartNow ==
    ASSUME PathOK, program # <<>>, program[1].do \in {"part", "check_skip"}
    PROVE  /\ live = ReaderStack
           /\ IsPart(<<"part", Argument[2]>>)
           /\ program[1].do = "check_skip" =>
                Argument = <<"part", Argument[2]>> /\ Argument \in DOMAIN results
           /\ After([live |-> live, left |-> None])
BY Current DEF StackStep, Uses, Constructs, Others, Argument

\* After the operation.
LEMMA Continues ==
    ASSUME NEW l, NEW v, v = live', After([live |-> v, left |-> l]), archive' = archive,
           program' = Tail(program), IsPart(l) => l \in DOMAIN results'
    PROVE  PathOK'
<1>1. PICK s, ops, u : /\ s = [live |-> v, left |-> l] /\ ops = Tail(program)
                       /\ IsSeq(ops) /\ Path(Stack, s, ops, u)
    BY DEF After
<1>2. Path(Stack, s, ops, u)'
    BY <1>1, PathSame
<1>3. s = [live |-> live', left |-> l] /\ ops = program' /\ IsSeq(program')
    BY <1>1
<1>4. IsPart(l)' => l \in DOMAIN results'
    BY DEF IsPart, Files
<1> QED BY <1>2, <1>3, <1>4 DEF PathOK

\* The operation is replaced by others.
LEMMA Expands ==
    ASSUME NEW t, After(t), NEW ops, IsSeq(ops),
           Path(Stack, [live |-> live, left |-> None], ops, t),
           live' = live, archive' = archive, program' = ops \o Tail(program)
    PROVE  PathOK'
<1> DEFINE m == [live |-> live, left |-> None]
           rest == Tail(program)
<1>1. PICK u : IsSeq(rest) /\ Path(Stack, t, rest, u)
    BY DEF After
<1> HIDE DEF rest, m
<1>2. IsSeq(ops \o rest) /\ Path(Stack, m, ops \o rest, u)
    BY <1>1, PathConcat DEF m
<1>3. PICK s, all : s = m /\ all = ops \o rest /\ IsSeq(all) /\ Path(Stack, s, all, u)
    BY <1>2
<1>4. Path(Stack, s, all, u)'
    BY <1>3, PathSame
<1>5. s = [live |-> live', left |-> None] /\ all = program' /\ IsSeq(program')
    BY <1>3 DEF m, rest
<1>6. ~IsPart(None)'
    BY DEF IsPart, None
<1> QED BY <1>4, <1>5, <1>6 DEF PathOK

-----------------------------------------------------------------------------
\* The main thread: what its operations do to the processors.

\* A processor is as it was, or reads from queue x now.
Keeps(r, q, x) ==
    /\ ProcShape(q) /\ q.state \in States /\ q.kind = r.kind /\ q.arg = r.arg
    /\ q.source_queue \in {r.source_queue, x}

LEMMA PartsKeep ==
    ASSUME PipelineOK, archive' = archive, NEW p,
           DOMAIN proc' \subseteq DOMAIN proc \cup {p},
           \A x \in DOMAIN proc' : x \in DOMAIN proc => \E y : Keeps(proc[x], proc'[x], y),
           p \in DOMAIN proc' /\ p \notin DOMAIN proc /\ IsPart(p) =>
                proc'[p].kind = "BoundedSource" /\ proc'[p].arg = Len(Files[p[2]]),
           \A x \in DOMAIN results' : IsPart(x) =>
                \/ x \in DOMAIN results /\ results'[x] = results[x]
                \/ results'[x] \in 0 .. Len(Files[x[2]])
    PROVE  PartsOK'
<1>1. \A x : IsPart(x)' <=> IsPart(x)
    BY DEF IsPart, Files
<1>2. \A x \in DOMAIN proc' : IsPart(x) =>
            proc'[x].kind = "BoundedSource" /\ proc'[x].arg = Len(Files[x[2]])
    BY DEF PipelineOK, PartsOK, Keeps
<1>3. \A x \in DOMAIN results' : IsPart(x) => results'[x] \in 0 .. Len(Files[x[2]])
    BY DEF PipelineOK, PartsOK
<1> QED BY <1>1, <1>2, <1>3 DEF PartsOK, Files

\* Nothing is constructed and nothing destroyed.
LEMMA SameObjects ==
    ASSUME PipelineOK, live' = live, archive' = archive, results' = results,
           DOMAIN proc' = DOMAIN proc, DOMAIN queue \subseteq DOMAIN queue',
           DOMAIN queue' \subseteq Ran(live), QueuesOK',
           \A x \in DOMAIN proc :
              \/ Keeps(proc[x], proc'[x], NoQueue)
              \/ x \in DOMAIN queue' /\ Keeps(proc[x], proc'[x], x)
    PROVE  PipelineOK'
<1>1. LiveOK'
    BY DEF PipelineOK, LiveOK, Distinct, Ran
<1>2. ProcsOK'
    BY DEF ProcsOK, Keeps
<1>3. SourcesOlder'
  <2>1. \A i \in 1 .. Len(live) : live[i] \in DOMAIN proc
    BY SeqFacts DEF PipelineOK, LiveOK, Ran
  <2>2. Len(live) \in Nat
    BY SeqFacts DEF PipelineOK, LiveOK
  <2>3. ASSUME NEW i \in 1 .. Len(live)
        PROVE  \/ proc'[live[i]].source_queue = NoQueue
               \/ \E j \in 1 .. i : live[j] = proc'[live[i]].source_queue /\ live[j] \in DOMAIN queue'
    <3>1. i \in 1 .. i
      BY <2>2
    <3>2. \/ proc[live[i]].source_queue = NoQueue
          \/ \E j \in 1 .. i : live[j] = proc[live[i]].source_queue /\ live[j] \in DOMAIN queue
      BY DEF PipelineOK, SourcesOlder, Source
    <3>3. \/ proc'[live[i]].source_queue \in {proc[live[i]].source_queue, NoQueue}
          \/ live[i] \in DOMAIN queue' /\ proc'[live[i]].source_queue \in {proc[live[i]].source_queue, live[i]}
      BY <2>1 DEF Keeps
    <3> QED BY <3>1, <3>2, <3>3
  <2> QED BY <2>3 DEF SourcesOlder, Source
<1>4. PartsOK'
    BY PartsKeep
<1> QED BY <1>1, <1>2, <1>3, <1>4 DEF PipelineOK

LEMMA AppendedAtEnd ==
    ASSUME NEW s, IsSeq(s), NEW x, NEW t, t = Append(s, x)
    PROVE  /\ IsSeq(t) /\ Len(t) = Len(s) + 1 /\ t[Len(s) + 1] = x
           /\ \A i \in 1 .. Len(s) : t[i] = s[i]
           /\ Ran(t) = Ran(s) \cup {x}
<1>1. IsSeq(t) /\ Len(t) = Len(s) + 1 /\ t[Len(s) + 1] = x /\ \A i \in 1 .. Len(s) : t[i] = s[i]
    BY SeqAppend
<1>2. DOMAIN t = 1 .. Len(t) /\ DOMAIN s = 1 .. Len(s) /\ Len(s) \in Nat
    BY <1>1, SeqFacts
<1>3. Ran(t) = Ran(s) \cup {x}
    BY <1>1, <1>2 DEF Ran
<1> QED BY <1>1, <1>3

LEMMA LiveAppended ==
    ASSUME PipelineOK, NEW p
    PROVE  \E l, n : /\ l = Append(live, p) /\ n = Len(live) /\ n \in Nat /\ IsSeq(live)
                     /\ DOMAIN proc = Ran(live) /\ DOMAIN live = 1 .. n
                     /\ IsSeq(l) /\ Len(l) = n + 1 /\ l[n + 1] = p
                     /\ \A i \in 1 .. n : l[i] = live[i]
                     /\ DOMAIN l = 1 .. n + 1 /\ Ran(l) = Ran(live) \cup {p}
<1>1. IsSeq(live) /\ Len(live) \in Nat /\ DOMAIN proc = Ran(live) /\ DOMAIN live = 1 .. Len(live)
    BY SeqFacts DEF PipelineOK, LiveOK
<1>2. PICK l : l = Append(live, p)
    OBVIOUS
<1>3. /\ IsSeq(l) /\ Len(l) = Len(live) + 1 /\ l[Len(live) + 1] = p
      /\ \A i \in 1 .. Len(live) : l[i] = live[i]
      /\ Ran(l) = Ran(live) \cup {p}
  <2>1. IsSeq(live) /\ l = Append(live, p)
    BY <1>1, <1>2
  <2>2. l[Len(live) + 1] = p
    BY <2>1, AppendedAtEnd
  <2>3. \A i \in 1 .. Len(live) : l[i] = live[i]
    BY <2>1, AppendedAtEnd
  <2>4. IsSeq(l) /\ Len(l) = Len(live) + 1 /\ Ran(l) = Ran(live) \cup {p}
    BY <2>1, AppendedAtEnd
  <2> QED BY <2>2, <2>3, <2>4
<1>4. DOMAIN l = 1 .. Len(live) + 1
    BY <1>3, SeqFacts
<1> QED BY <1>1, <1>2, <1>3, <1>4

\* p is constructed.
LEMMA OneMore ==
    ASSUME PipelineOK, NEW p, p \notin Ran(live), live' = Append(live, p), archive' = archive,
           DOMAIN proc' = DOMAIN proc \cup {p}, DOMAIN queue \subseteq DOMAIN queue',
           DOMAIN queue' \subseteq Ran(live), QueuesOK',
           \A x \in DOMAIN proc :
              \/ Keeps(proc[x], proc'[x], NoQueue)
              \/ x \in DOMAIN queue' /\ Keeps(proc[x], proc'[x], x),
           ProcShape(proc'[p]), proc'[p].state \in States,
           proc'[p].source_queue \in DOMAIN queue' \cup {NoQueue},
           IsPart(p) => proc'[p].kind = "BoundedSource" /\ proc'[p].arg = Len(Files[p[2]]),
           \A x \in DOMAIN results' : IsPart(x) => x \in DOMAIN results /\ results'[x] = results[x]
    PROVE  PipelineOK'
<1>1. PICK l, n : /\ l = Append(live, p) /\ n = Len(live) /\ n \in Nat /\ IsSeq(live)
                  /\ DOMAIN proc = Ran(live) /\ DOMAIN live = 1 .. n
                  /\ IsSeq(l) /\ Len(l) = n + 1 /\ l[n + 1] = p
                  /\ \A i \in 1 .. n : l[i] = live[i]
                  /\ DOMAIN l = 1 .. n + 1 /\ Ran(l) = Ran(live) \cup {p}
    BY LiveAppended, Zenon
<1>2. live' = l
    BY <1>1
<1>5. LiveOK'
  <2>1. Distinct(l)
    <3>1. \A i, j \in 1 .. n : live[i] = live[j] => i = j
      BY <1>1 DEF PipelineOK, LiveOK, Distinct
    <3>2. \A i \in 1 .. n : live[i] # p
      BY <1>1 DEF Ran
    <3>3. \A i \in 1 .. n + 1 : i = n + 1 \/ i \in 1 .. n
      BY <1>1
    <3> QED BY <1>1, <3>1, <3>2, <3>3 DEF Distinct
  <2> QED BY <1>1, <1>2, <2>1 DEF LiveOK, Distinct, IsSeq, Ran
<1>6. ProcsOK'
    BY DEF ProcsOK, Keeps
<1>7. SourcesOlder'
  <2>1. ASSUME NEW i \in 1 .. n + 1
        PROVE  \/ proc'[l[i]].source_queue = NoQueue
               \/ \E j \in 1 .. i : l[j] = proc'[l[i]].source_queue /\ l[j] \in DOMAIN queue'
    <3>1. CASE i = n + 1
      <4>1. \A x \in DOMAIN queue' : \E j \in 1 .. n : live[j] = x
        BY <1>1 DEF Ran
      <4>2. \A j \in 1 .. n : j \in 1 .. i
        BY <1>1, <3>1
      <4> QED BY <1>1, <3>1, <4>1, <4>2
    <3>2. CASE i # n + 1
      <4>1. i \in 1 .. n
        BY <1>1, <3>2
      <4>2. live[i] \in DOMAIN proc /\ l[i] = live[i]
        BY <1>1, <4>1 DEF Ran
      <4>3. \/ proc[live[i]].source_queue = NoQueue
            \/ \E j \in 1 .. i : live[j] = proc[live[i]].source_queue /\ live[j] \in DOMAIN queue
        BY <1>1, <4>1 DEF PipelineOK, SourcesOlder, Source
      <4>4. \/ proc'[live[i]].source_queue \in {proc[live[i]].source_queue, NoQueue}
            \/ live[i] \in DOMAIN queue' /\ proc'[live[i]].source_queue \in {proc[live[i]].source_queue, live[i]}
        BY <4>2 DEF Keeps
      <4>5. i \in 1 .. i /\ \A j \in 1 .. i : j \in 1 .. n
        BY <1>1, <4>1
      <4> QED BY <1>1, <4>2, <4>3, <4>4, <4>5
    <3> QED BY <3>1, <3>2
  <2> QED BY <1>1, <1>2, <2>1 DEF SourcesOlder, Source
<1>8. PartsOK'
    BY PartsKeep
<1> QED BY <1>5, <1>6, <1>7, <1>8 DEF PipelineOK

\* The processor a constructor makes, or one that is connected.
LEMMA NewShape ==
    ASSUME NEW kind, NEW arg, ArgumentOK(kind, arg)
    PROVE  /\ ProcShape(NewProcessor(kind, arg)) /\ NewProcessor(kind, arg).state \in States
           /\ NewProcessor(kind, arg).source_queue = NoQueue
           /\ NewProcessor(kind, arg).kind = kind /\ NewProcessor(kind, arg).arg = arg
<1> DEFINE r == NewProcessor(kind, arg)
           e == <<>>
<1>1. /\ DOMAIN r = ProcFields /\ r.kind = kind /\ r.arg = arg /\ r.state = "Uninitialized"
      /\ r.source_queue = NoQueue /\ r.pass_eof = TRUE /\ r.stop_requested = FALSE
      /\ r.ready = FALSE /\ r.done = FALSE /\ r.buffer = e /\ r.out = e
      /\ r.bytes = 0 /\ r.bytes_written = 0
    BY DEF NewProcessor, ProcFields
<1>2. IsSeq(e) /\ AreSegments(e)
    BY SeqEmpty, NoSegments
<1> HIDE DEF r
<1>3. WithinBound(r)
    BY <1>1 DEF WithinBound, ArgumentOK
<1> HIDE DEF e
<1>a. r.pass_eof \in BOOLEAN /\ r.stop_requested \in BOOLEAN /\ r.ready \in BOOLEAN
      /\ r.done \in BOOLEAN
    BY <1>1
<1>b. IsSeq(r.buffer) /\ AreSegments(r.out) /\ r.bytes \in Nat /\ r.bytes_written \in Nat
      /\ DOMAIN r = ProcFields /\ (r.kind = "StdStreamSource" => IsSeq(r.arg))
    BY <1>1, <1>2 DEF ArgumentOK
<1>4. ProcShape(r)
    BY <1>a, <1>b, <1>3 DEF ProcShape
<1> QED BY <1>1, <1>4 DEF r, States

\* Connections, and what else the main thread sets.
LEMMA Reset ==
    ASSUME NEW r, ProcShape(r), NEW q, DOMAIN q = ProcFields,
           q.pass_eof \in BOOLEAN, q.stop_requested \in BOOLEAN,
           q.kind = r.kind, q.arg = r.arg, q.ready = r.ready, q.buffer = r.buffer,
           q.bytes = r.bytes, q.bytes_written = r.bytes_written, q.out = r.out, q.done = r.done
    PROVE  ProcShape(q)
<1>1. WithinBound(q)
    BY DEF ProcShape, WithinBound
<1> QED BY <1>1 DEF ProcShape

LEMMA JoinedQueues ==
    ASSUME PipelineOK, NEW x \in Ran(live),
           NEW j \in {Joined(x), [Joined(x) EXCEPT ![x].source = FALSE]}
    PROVE  /\ DOMAIN queue \subseteq DOMAIN j /\ DOMAIN j \subseteq Ran(live) /\ x \in DOMAIN j
           /\ \A q \in DOMAIN j : QueueShape(j[q])
<1> DEFINE c == [items |-> IF x \in DOMAIN queue THEN queue[x].items ELSE <<>>,
                 putback |-> IF x \in DOMAIN queue THEN queue[x].putback ELSE <<>>,
                 source |-> TRUE]
<1>1. QueueShape(c) /\ QueueShape([c EXCEPT !.source = FALSE])
  <2>1. CASE x \in DOMAIN queue
    <3>1. QueueShape(queue[x])
      BY <2>1 DEF PipelineOK, QueuesOK
    <3> QED BY <2>1, <3>1 DEF QueueShape
  <2>2. CASE x \notin DOMAIN queue
    <3> DEFINE e == <<>>
    <3>1. AreSegments(e) /\ Len(e) <= capacity
      BY NoSegments, SeqEmpty, CapacityAssumption
    <3>2. c = [items |-> e, putback |-> e, source |-> TRUE]
      BY <2>2
    <3> HIDE DEF e, c
    <3> QED BY <3>1, <3>2 DEF QueueShape
  <2> QED BY <2>1, <2>2
<1>2. /\ DOMAIN Joined(x) = DOMAIN queue \cup {x} /\ Joined(x)[x] = c
      /\ \A q \in DOMAIN queue : q # x => Joined(x)[q] = queue[q]
    BY DEF Joined, With
<1>3. DOMAIN queue \cup {x} \subseteq Ran(live)
    BY DEF PipelineOK, LiveOK
<1> HIDE DEF c
<1>4. DOMAIN j = DOMAIN queue \cup {x} /\ j[x] \in {c, [c EXCEPT !.source = FALSE]}
      /\ \A q \in DOMAIN queue : q # x => j[q] = queue[q]
    BY <1>2
<1>5. \A q \in DOMAIN j : QueueShape(j[q])
    BY <1>1, <1>4 DEF PipelineOK, QueuesOK
<1> QED BY <1>3, <1>4, <1>5

\* What is at hand, when it is of this kind.
LEMMA DoingNow ==
    ASSUME NEW do, Doing(do)
    PROVE  program # <<>> /\ program[1].do = do
BY DEF Doing

LEMMA KeepsSame ==
    ASSUME PipelineOK, NEW x \in DOMAIN proc, NEW y
    PROVE  Keeps(proc[x], proc[x], y)
BY DEF PipelineOK, ProcsOK, Keeps

\* Of the names of processors, those of parts are made for parts alone.
LEMMA NoPart ==
    ASSUME NEW p, IsPart(p)
    PROVE  p[1] = "part"
BY DEF IsPart

LEMMA ConstructAloneKeeps ==
    ASSUME PipelineOK, PathOK, ConstructAlone, archive' = archive
    PROVE  PipelineOK' /\ PathOK'
<1> DEFINE kind == program[1].kind
           arg == program[1].arg
           p == Argument
           new == NewProcessor(kind, arg)
<1>1. program # <<>> /\ program[1].do = "construct"
    BY DEF ConstructAlone, Doing
<1>2. /\ kind # "BoundedSource" /\ p[1] # "part" /\ ArgumentOK(kind, arg)
      /\ p \notin Ran(live) /\ After([live |-> Append(live, p), left |-> None])
    BY <1>1, ConstructNow DEF Constructs, ConstructOK, Argument
<1>3. /\ proc' = With(proc, p, new) /\ live' = Append(live, p) /\ program' = Tail(program)
      /\ queue' = queue /\ results' = results
    BY DEF ConstructAlone, Continue
<1> HIDE DEF new
<1>4. /\ DOMAIN proc' = DOMAIN proc \cup {p} /\ proc'[p] = new
      /\ \A x \in DOMAIN proc : x # p => proc'[x] = proc[x]
    BY <1>3 DEF With
<1>5. ~IsPart(p)
    BY <1>2, NoPart
<1>6. PathOK'
  <2>1. PICK v : v = live' /\ v = Append(live, p)
    BY <1>3
  <2>2. ~IsPart(None)
    BY DEF IsPart, None
  <2> QED BY <1>2, <1>3, <2>1, <2>2, Continues
<1> HIDE DEF p, kind, arg
<1>7. ProcShape(new) /\ new.state \in States /\ new.source_queue = NoQueue
    BY <1>2, NewShape DEF new
<1>8. PipelineOK'
  <2>1. p \notin DOMAIN proc /\ DOMAIN queue \subseteq Ran(live) /\ QueuesOK
    BY <1>2 DEF PipelineOK, LiveOK
  <2>2. QueuesOK'
    BY <1>3, <2>1 DEF QueuesOK
  <2>3. \A x \in DOMAIN proc : Keeps(proc[x], proc'[x], NoQueue)
    BY <1>4, <2>1, KeepsSame
  <2> QED BY <1>2, <1>3, <1>4, <1>5, <1>7, <2>1, <2>2, <2>3, OneMore
<1> QED BY <1>6, <1>8

\* Two processors are connected.
LEMMA ConnectedKeeps ==
    ASSUME NEW procs, NEW a \in DOMAIN procs, NEW b \in DOMAIN procs, NEW q,
           \A x \in DOMAIN procs : ProcShape(procs[x]) /\ procs[x].state \in States
    PROVE  /\ DOMAIN Connected(procs, a, b, q) = DOMAIN procs
           /\ \A x \in DOMAIN procs : Keeps(procs[x], Connected(procs, a, b, q)[x], q)
           /\ Connected(procs, a, b, q)[b].source_queue = q
           /\ \A x \in DOMAIN procs : x # b =>
                Connected(procs, a, b, q)[x].source_queue = procs[x].source_queue
<1> DEFINE c == Connected(procs, a, b, q)
           d == [procs EXCEPT ![a].sink_queue = q]
<1>1. c = [d EXCEPT ![b].source_queue = q]
    BY DEF Connected
<1>2. /\ DOMAIN d = DOMAIN procs /\ d[a] = [procs[a] EXCEPT !.sink_queue = q]
      /\ \A x \in DOMAIN procs : x # a => d[x] = procs[x]
    OBVIOUS
<1>3. \A x \in DOMAIN procs : DOMAIN procs[x] = ProcFields
    BY DEF ProcShape
<1>4. ASSUME NEW x \in DOMAIN procs
      PROVE  /\ ProcShape(d[x]) /\ d[x].state = procs[x].state /\ d[x].kind = procs[x].kind
             /\ d[x].arg = procs[x].arg /\ d[x].source_queue = procs[x].source_queue
  <2>1. CASE x = a
    <3> DEFINE r == procs[a]
               e == d[x]
    <3>1. ProcShape(r) /\ DOMAIN r = ProcFields
      BY <1>3
    <3>2. e = [r EXCEPT !.sink_queue = q]
      BY <1>2, <2>1
    <3> HIDE DEF d, r, e
    <3>3. /\ DOMAIN e = ProcFields /\ e.pass_eof = r.pass_eof
          /\ e.stop_requested = r.stop_requested
          /\ e.kind = r.kind /\ e.arg = r.arg /\ e.ready = r.ready /\ e.buffer = r.buffer
          /\ e.bytes = r.bytes /\ e.bytes_written = r.bytes_written /\ e.out = r.out
          /\ e.done = r.done /\ e.state = r.state /\ e.source_queue = r.source_queue
      BY <3>1, <3>2 DEF ProcFields
    <3>4. ProcShape(e)
      BY <3>1, <3>3, Reset DEF ProcShape
    <3> QED BY <2>1, <3>3, <3>4 DEF e, r
  <2>2. CASE x # a
    BY <1>2, <2>2
  <2> QED BY <2>1, <2>2
<1> HIDE DEF d
<1>5. DOMAIN c = DOMAIN procs /\ c[b] = [d[b] EXCEPT !.source_queue = q]
      /\ \A x \in DOMAIN procs : x # b => c[x] = d[x]
    BY <1>1, <1>2
<1> HIDE DEF c
<1>6. ASSUME NEW x \in DOMAIN procs
      PROVE  /\ Keeps(procs[x], c[x], q)
             /\ c[x].source_queue = IF x = b THEN q ELSE procs[x].source_queue
  <2>1. CASE x = b
    <3> DEFINE r == d[b]
               e == c[x]
    <3>1. ProcShape(r) /\ DOMAIN r = ProcFields /\ r.state \in States
      BY <1>4 DEF ProcShape
    <3>2. e = [r EXCEPT !.source_queue = q]
      BY <1>5, <2>1
    <3> HIDE DEF r, e
    <3>3. /\ DOMAIN e = ProcFields /\ e.pass_eof = r.pass_eof
          /\ e.stop_requested = r.stop_requested
          /\ e.kind = r.kind /\ e.arg = r.arg /\ e.ready = r.ready /\ e.buffer = r.buffer
          /\ e.bytes = r.bytes /\ e.bytes_written = r.bytes_written /\ e.out = r.out
          /\ e.done = r.done /\ e.state = r.state /\ e.source_queue = q
      BY <3>1, <3>2 DEF ProcFields
    <3>4. ProcShape(e)
      BY <3>1, <3>3, Reset DEF ProcShape
    <3>5. r.kind = procs[x].kind /\ r.arg = procs[x].arg
      BY <1>4, <2>1 DEF r
    <3> QED BY <2>1, <3>1, <3>3, <3>4, <3>5 DEF e, Keeps
  <2>2. CASE x # b
    BY <1>4, <1>5, <2>2 DEF Keeps
  <2> QED BY <2>1, <2>2
<1> QED BY <1>5, <1>6 DEF c

LEMMA ConstructSinkKeeps ==
    ASSUME PipelineOK, PathOK, ConstructSink, archive' = archive
    PROVE  PipelineOK' /\ PathOK'
<1> DEFINE kind == program[1].kind
           p == Argument
           sink == program[1].sink
           new == [NewProcessor(kind, 0) EXCEPT !.pass_eof = FALSE]
           procs == With(proc, p, new)
<1>1. program # <<>> /\ program[1].do = "construct_on"
    BY DEF ConstructSink, Doing
<1>2. /\ kind \in SinkKinds /\ p[1] # "part" /\ sink \in Ran(live)
      /\ p \notin Ran(live) /\ After([live |-> Append(live, p), left |-> None])
    BY <1>1, ConstructNow DEF Constructs, ConstructOK, Argument
<1>3. /\ proc' = Connected(procs, p, sink, sink) /\ live' = Append(live, p)
      /\ program' = Tail(program) /\ queue' = Joined(sink)
      /\ results' \in {results, With(results, p, 0)}
    BY DEF ConstructSink, Continue
<1>4. ~IsPart(p)
    BY <1>2, NoPart
<1>5. PathOK'
  <2>1. PICK v : v = live' /\ v = Append(live, p)
    BY <1>3
  <2>2. ~IsPart(None)
    BY DEF IsPart, None
  <2> QED BY <1>2, <1>3, <2>1, <2>2, Continues
<1> HIDE DEF p, kind, sink
<1>6. ProcShape(new) /\ new.state \in States /\ new.source_queue = NoQueue
  <2> DEFINE r == NewProcessor(kind, 0)
  <2>1. ArgumentOK(kind, 0)
    BY <1>2 DEF ArgumentOK, SinkKinds
  <2>2. ProcShape(r) /\ r.state \in States /\ r.source_queue = NoQueue
    BY <2>1, NewShape
  <2> HIDE DEF r
  <2>3. DOMAIN r = ProcFields
    BY <2>2 DEF ProcShape
  <2> DEFINE e == [r EXCEPT !.pass_eof = FALSE]
  <2>4. /\ DOMAIN e = ProcFields /\ e.pass_eof = FALSE
        /\ e.stop_requested = r.stop_requested
        /\ e.kind = r.kind /\ e.arg = r.arg /\ e.ready = r.ready /\ e.buffer = r.buffer
        /\ e.bytes = r.bytes /\ e.bytes_written = r.bytes_written /\ e.out = r.out
        /\ e.done = r.done /\ e.state = r.state /\ e.source_queue = r.source_queue
    BY <2>3 DEF ProcFields
  <2>5. new = e
    BY DEF r
  <2> HIDE DEF e, new
  <2>6. ProcShape(e)
    BY <2>2, <2>4, Reset DEF ProcShape
  <2> QED BY <2>2, <2>4, <2>5, <2>6
<1> HIDE DEF new
<1>7. /\ DOMAIN procs = DOMAIN proc \cup {p} /\ procs[p] = new
      /\ \A x \in DOMAIN proc : x # p => procs[x] = proc[x]
    BY DEF With
<1> HIDE DEF procs
<1>8. p \notin DOMAIN proc /\ sink \in DOMAIN proc /\ sink # p
    BY <1>2 DEF PipelineOK, LiveOK
<1>9. \A x \in DOMAIN procs : ProcShape(procs[x]) /\ procs[x].state \in States
    BY <1>6, <1>7, <1>8 DEF PipelineOK, ProcsOK
<1>10. /\ DOMAIN proc' = DOMAIN procs
       /\ \A x \in DOMAIN procs : Keeps(procs[x], proc'[x], sink)
       /\ \A x \in DOMAIN procs : x # sink => proc'[x].source_queue = procs[x].source_queue
  <2> DEFINE c == Connected(procs, p, sink, sink)
  <2>1. p \in DOMAIN procs /\ sink \in DOMAIN procs
    BY <1>7, <1>8
  <2>2. /\ DOMAIN c = DOMAIN procs
        /\ \A x \in DOMAIN procs : Keeps(procs[x], c[x], sink)
        /\ \A x \in DOMAIN procs : x # sink => c[x].source_queue = procs[x].source_queue
    BY <1>9, <2>1, ConnectedKeeps
  <2>3. proc' = c
    BY <1>3
  <2> HIDE DEF c
  <2> QED BY <2>2, <2>3
<1>11. /\ DOMAIN queue \subseteq DOMAIN queue' /\ DOMAIN queue' \subseteq Ran(live)
       /\ sink \in DOMAIN queue' /\ QueuesOK'
    BY <1>2, <1>3, JoinedQueues DEF QueuesOK
<1>12. \A x \in DOMAIN proc :
          \/ Keeps(proc[x], proc'[x], NoQueue)
          \/ x \in DOMAIN queue' /\ Keeps(proc[x], proc'[x], x)
    BY <1>7, <1>8, <1>10, <1>11 DEF Keeps
<1>13. ProcShape(proc'[p]) /\ proc'[p].state \in States /\ proc'[p].source_queue = NoQueue
    BY <1>6, <1>7, <1>8, <1>10 DEF Keeps
<1>14. \A x \in DOMAIN results' : IsPart(x) => x \in DOMAIN results /\ results'[x] = results[x]
    BY <1>3, <1>4 DEF With
<1>15. DOMAIN proc' = DOMAIN proc \cup {p} /\ live' = Append(live, p)
    BY <1>3, <1>7, <1>10
<1>16. PipelineOK'
    BY <1>2, <1>4, <1>11, <1>12, <1>13, <1>14, <1>15, OneMore
<1> QED BY <1>5, <1>16

LEMMA ConstructSourceKeeps ==
    ASSUME PipelineOK, PathOK, ConstructSource, archive' = archive
    PROVE  PipelineOK' /\ PathOK'
<1> DEFINE kind == program[1].kind
           arg == program[1].arg
           p == Argument
           from == program[1].source
           new == NewProcessor(kind, arg)
           procs == With(proc, p, new)
<1>1. program # <<>> /\ program[1].do = "construct_from"
    BY DEF ConstructSource, Doing
<1>2. /\ ArgumentOK(kind, arg) /\ from \in Ran(live)
      /\ p[1] = "part" => kind = "BoundedSource" /\ IsPart(p) /\ arg = Len(Files[p[2]])
      /\ p \notin Ran(live) /\ After([live |-> Append(live, p), left |-> None])
    BY <1>1, ConstructNow DEF Constructs, ConstructOK, Argument
<1>3. /\ proc' = Connected(procs, from, p, from) /\ live' = Append(live, p)
      /\ program' = Tail(program) /\ queue' = Joined(from) /\ results' = results
    BY DEF ConstructSource, Continue
<1>4. IsPart(p) => kind = "BoundedSource" /\ arg = Len(Files[p[2]])
    BY <1>2, NoPart
<1>5. PathOK'
  <2>1. PICK v : v = live' /\ v = Append(live, p)
    BY <1>3
  <2>2. ~IsPart(None)
    BY DEF IsPart, None
  <2> QED BY <1>2, <1>3, <2>1, <2>2, Continues
<1> HIDE DEF p, kind, from, arg
<1>6. /\ ProcShape(new) /\ new.state \in States /\ new.source_queue = NoQueue
      /\ new.kind = kind /\ new.arg = arg
    BY <1>2, NewShape
<1> HIDE DEF new
<1>7. /\ DOMAIN procs = DOMAIN proc \cup {p} /\ procs[p] = new
      /\ \A x \in DOMAIN proc : x # p => procs[x] = proc[x]
    BY DEF With
<1> HIDE DEF procs
<1>8. p \notin DOMAIN proc /\ from \in DOMAIN proc /\ from # p
    BY <1>2 DEF PipelineOK, LiveOK
<1>9. \A x \in DOMAIN procs : ProcShape(procs[x]) /\ procs[x].state \in States
    BY <1>6, <1>7, <1>8 DEF PipelineOK, ProcsOK
<1>10. /\ DOMAIN proc' = DOMAIN procs
       /\ \A x \in DOMAIN procs : Keeps(procs[x], proc'[x], from)
       /\ \A x \in DOMAIN procs : x # p => proc'[x].source_queue = procs[x].source_queue
       /\ proc'[p].source_queue = from
  <2> DEFINE c == Connected(procs, from, p, from)
  <2>1. p \in DOMAIN procs /\ from \in DOMAIN procs
    BY <1>7, <1>8
  <2>2. /\ DOMAIN c = DOMAIN procs
        /\ \A x \in DOMAIN procs : Keeps(procs[x], c[x], from)
        /\ \A x \in DOMAIN procs : x # p => c[x].source_queue = procs[x].source_queue
        /\ c[p].source_queue = from
    BY <1>9, <2>1, ConnectedKeeps
  <2>3. proc' = c
    BY <1>3
  <2> HIDE DEF c
  <2> QED BY <2>2, <2>3
<1>11. /\ DOMAIN queue \subseteq DOMAIN queue' /\ DOMAIN queue' \subseteq Ran(live)
       /\ from \in DOMAIN queue' /\ QueuesOK'
    BY <1>2, <1>3, JoinedQueues DEF QueuesOK
<1>12. \A x \in DOMAIN proc : Keeps(proc[x], proc'[x], NoQueue)
    BY <1>7, <1>8, <1>10, <1>11 DEF Keeps
<1>13. /\ ProcShape(proc'[p]) /\ proc'[p].state \in States
       /\ proc'[p].source_queue \in DOMAIN queue' \cup {NoQueue}
       /\ proc'[p].kind = kind /\ proc'[p].arg = arg
    BY <1>6, <1>7, <1>8, <1>10, <1>11 DEF Keeps
<1>14. DOMAIN proc' = DOMAIN proc \cup {p} /\ live' = Append(live, p)
    BY <1>3, <1>7, <1>10
<1>15. PipelineOK'
    BY <1>2, <1>3, <1>4, <1>11, <1>12, <1>13, <1>14, OneMore
<1> QED BY <1>5, <1>15

\* Operations that stand for others.
LEMMA OneUse ==
    ASSUME NEW op, op.do \in Uses \cup Others, op.do \in Uses => op.p \in Ran(live),
           op.do # "copy_to", op.do \in {"push", "sync_write"} => IsSegment(op.segment), NEW left
    PROVE  Step(Stack, [live |-> live, left |-> left], op, [live |-> live, left |-> None])
BY DEF Step, Stack, StackStep

LEMMA UseExpands ==
    ASSUME NEW a,
           After([live |-> live, left |-> None]), live' = live, archive' = archive,
           a.do \in Uses \cup Others, a.do \in Uses => a.p \in Ran(live),
           a.do # "copy_to", a.do \in {"push", "sync_write"} => IsSegment(a.segment),
           program' = <<a>> \o Tail(program)
    PROVE  PathOK'
<1>1. Path(Stack, [live |-> live, left |-> None], <<a>>, [live |-> live, left |-> None])
    BY OneUse, PathOne
<1> QED BY <1>1, SeqSingle, Expands

LEMMA UsesExpand ==
    ASSUME NEW a, NEW b,
           After([live |-> live, left |-> None]), live' = live, archive' = archive,
           a.do \in Uses \cup Others, a.do \in Uses => a.p \in Ran(live),
           a.do # "copy_to", a.do \in {"push", "sync_write"} => IsSegment(a.segment),
           b.do \in Uses \cup Others, b.do \in Uses => b.p \in Ran(live),
           b.do # "copy_to", b.do \in {"push", "sync_write"} => IsSegment(b.segment),
           program' = <<a, b>> \o Tail(program)
    PROVE  PathOK'
<1>1. /\ Path(Stack, [live |-> live, left |-> None], <<a, b>>, [live |-> live, left |-> None])
      /\ IsSeq(<<a, b>>)
    BY OneUse, PathTwo
<1> QED BY <1>1, Expands

LEMMA UseContinues ==
    ASSUME After([live |-> live, left |-> None]), live' = live, archive' = archive,
           program' = Tail(program)
    PROVE  PathOK'
<1>1. PICK v : v = live' /\ v = live
    OBVIOUS
<1>2. ~IsPart(None)
    BY DEF IsPart, None
<1> QED BY <1>1, <1>2, Continues

LEMMA CopyKeeps ==
    ASSUME PipelineOK, PathOK, copy_to, archive' = archive
    PROVE  PipelineOK' /\ PathOK'
<1> DEFINE p == Argument
           sink == program[1].sink
           procs == [proc EXCEPT ![p].pass_eof = FALSE]
<1>1. program # <<>> /\ program[1].do = "copy_to"
    BY DEF copy_to, Doing
<1>2. p \in Ran(live) /\ sink \in Ran(live) /\ After([live |-> live, left |-> None])
    BY <1>1, UseNow DEF Uses
<1>3. /\ proc' = Connected(procs, p, sink, sink) /\ live' = live
      /\ program' = <<Start, Op("join", p)>> \o Tail(program)
      /\ queue' = Joined(sink) /\ results' = results
    BY DEF copy_to, Expand
<1>4. PathOK'
  <2> DEFINE a == Start
             b == Op("join", p)
  <2>1. a.do = "start" /\ b.do = "join" /\ b.p = p
    BY DEF Start, Op
  <2> HIDE DEF a, b
  <2>2. program' = <<a, b>> \o Tail(program)
    BY <1>3 DEF a, b
  <2> QED BY <1>2, <1>3, <2>1, <2>2, UsesExpand DEF Uses, Others
<1> HIDE DEF p, sink
<1>5. p \in DOMAIN proc /\ sink \in DOMAIN proc
    BY <1>2 DEF PipelineOK, LiveOK
<1>6. /\ DOMAIN procs = DOMAIN proc
      /\ \A x \in DOMAIN proc : Keeps(proc[x], procs[x], NoQueue)
                                /\ procs[x].source_queue = proc[x].source_queue
  <2>1. /\ DOMAIN procs = DOMAIN proc /\ procs[p] = [proc[p] EXCEPT !.pass_eof = FALSE]
        /\ \A x \in DOMAIN proc : x # p => procs[x] = proc[x]
    BY <1>5
  <2> DEFINE e == procs[p]
             r == proc[p]
  <2>2. ProcShape(r) /\ DOMAIN r = ProcFields /\ r.state \in States
    BY <1>5 DEF PipelineOK, ProcsOK, ProcShape
  <2>3. e = [r EXCEPT !.pass_eof = FALSE]
    BY <2>1
  <2> HIDE DEF procs, e, r
  <2>4. /\ DOMAIN e = ProcFields /\ e.pass_eof = FALSE
        /\ e.stop_requested = r.stop_requested
        /\ e.kind = r.kind /\ e.arg = r.arg /\ e.ready = r.ready /\ e.buffer = r.buffer
        /\ e.bytes = r.bytes /\ e.bytes_written = r.bytes_written /\ e.out = r.out
        /\ e.done = r.done /\ e.state = r.state /\ e.source_queue = r.source_queue
    BY <2>2, <2>3 DEF ProcFields
  <2>5. ProcShape(e)
    BY <2>2, <2>4, Reset DEF ProcShape
  <2>6. Keeps(r, e, NoQueue) /\ e.source_queue = r.source_queue
    BY <2>2, <2>4, <2>5 DEF Keeps
  <2> QED BY <2>1, <2>6, KeepsSame DEF e, r
<1> HIDE DEF procs
<1>7. \A x \in DOMAIN procs : ProcShape(procs[x]) /\ procs[x].state \in States
    BY <1>6 DEF Keeps
<1>8. /\ DOMAIN proc' = DOMAIN procs
      /\ \A x \in DOMAIN procs : Keeps(procs[x], proc'[x], sink)
      /\ \A x \in DOMAIN procs : x # sink => proc'[x].source_queue = procs[x].source_queue
  <2> DEFINE c == Connected(procs, p, sink, sink)
  <2>1. p \in DOMAIN procs /\ sink \in DOMAIN procs
    BY <1>5, <1>6
  <2>2. /\ DOMAIN c = DOMAIN procs
        /\ \A x \in DOMAIN procs : Keeps(procs[x], c[x], sink)
        /\ \A x \in DOMAIN procs : x # sink => c[x].source_queue = procs[x].source_queue
    BY <1>7, <2>1, ConnectedKeeps
  <2>3. proc' = c
    BY <1>3
  <2> HIDE DEF c
  <2> QED BY <2>2, <2>3
<1>9. /\ DOMAIN queue \subseteq DOMAIN queue' /\ DOMAIN queue' \subseteq Ran(live)
      /\ sink \in DOMAIN queue' /\ QueuesOK'
    BY <1>2, <1>3, JoinedQueues DEF QueuesOK
<1>10. \A x \in DOMAIN proc :
          \/ Keeps(proc[x], proc'[x], NoQueue)
          \/ x \in DOMAIN queue' /\ Keeps(proc[x], proc'[x], x)
    BY <1>6, <1>8, <1>9 DEF Keeps
<1>11. DOMAIN proc' = DOMAIN proc /\ live' = live
    BY <1>3, <1>6, <1>8
<1>12. PipelineOK'
    BY <1>3, <1>9, <1>10, <1>11, SameObjects
<1> QED BY <1>4, <1>12

\* An exception: what is left to do is the destructors.
LEMMA Prefix ==
    ASSUME NEW s, IsSeq(s), NEW m \in 0 .. Len(s)
    PROVE  /\ IsSeq(SubSeq(s, 1, m)) /\ Len(SubSeq(s, 1, m)) = m
           /\ \A i \in 1 .. m : SubSeq(s, 1, m)[i] = s[i]
           /\ m # 0 => /\ SubSeq(s, 1, m) # <<>> /\ Last(SubSeq(s, 1, m)) = s[m]
                       /\ Front(SubSeq(s, 1, m)) = SubSeq(s, 1, m - 1)
<1>0. Len(s) \in Nat
    BY SeqFacts
<1>1. ASSUME NEW k \in 0 .. Len(s)
      PROVE  /\ IsSeq(SubSeq(s, 1, k)) /\ Len(SubSeq(s, 1, k)) = k
             /\ \A i \in 1 .. k : SubSeq(s, 1, k)[i] = s[i]
  <2> DEFINE d == SubSeq(s, 1, k)
  <2>1. /\ IsSeq(d) /\ Len(d) = IF 1 <= k THEN k - 1 + 1 ELSE 0
        /\ \A i \in 1 .. k - 1 + 1 : d[i] = s[1 + i - 1]
    <3>1. 1 \in Nat \ {0}
      OBVIOUS
    <3> QED BY <3>1, SeqSub
  <2> HIDE DEF d
  <2>2. \A i \in 1 .. k : i \in 1 .. k - 1 + 1 /\ 1 + i - 1 = i
    BY <1>0
  <2>3. Len(d) = k /\ \A i \in 1 .. k : d[i] = s[i]
    BY <1>0, <2>1, <2>2
  <2> QED BY <2>1, <2>3 DEF d
<1>2. ASSUME m # 0
      PROVE  /\ SubSeq(s, 1, m) # <<>> /\ Last(SubSeq(s, 1, m)) = s[m]
             /\ Front(SubSeq(s, 1, m)) = SubSeq(s, 1, m - 1)
  <2> DEFINE d == SubSeq(s, 1, m)
             e == SubSeq(s, 1, m - 1)
             f == Front(d)
  <2>1. m \in 1 .. Len(s) /\ m - 1 \in 0 .. Len(s)
    BY <1>0, <1>2
  <2>2. /\ IsSeq(d) /\ Len(d) = m /\ \A i \in 1 .. m : d[i] = s[i]
        /\ IsSeq(e) /\ Len(e) = m - 1 /\ \A i \in 1 .. m - 1 : e[i] = s[i]
    BY <1>1, <2>1
  <2> HIDE DEF d, e
  <2>3. d # <<>>
    BY <1>0, <2>1, <2>2, SeqFacts
  <2>4. IsSeq(f) /\ Len(f) = Len(d) - 1 /\ \A i \in 1 .. Len(d) - 1 : f[i] = d[i]
    BY <2>2, <2>3, SeqFront
  <2>5. Last(d) = s[m]
    <3>1. Last(d) = d[Len(d)]
      BY DEF Last
    <3> QED BY <2>1, <2>2, <3>1
  <2> HIDE DEF f
  <2>6. f = e
    BY <1>0, <2>1, <2>2, <2>4, SeqExt
  <2> QED BY <2>3, <2>5, <2>6 DEF d, e, f
<1> QED BY <1>1, <1>2

Unwinding == Reverse([i \in DOMAIN live |-> Destroy(live[i])]) \o <<Op("throw", None)>>

LEMMA UnwindingPath ==
    ASSUME IsSeq(live)
    PROVE  \E u : /\ IsSeq(Unwinding)
                  /\ Path(Stack, [live |-> live, left |-> None], Unwinding, u)
<1> DEFINE n == Len(live)
           ds == [i \in DOMAIN live |-> Destroy(live[i])]
           r == Reverse(ds)
           pre(k) == SubSeq(live, 1, k)
           c == [k \in 1 .. n + 1 |-> [live |-> pre(n + 1 - k),
                                       left |-> IF k = 1 THEN None ELSE live[n + 2 - k]]]
<1>1. n \in Nat /\ DOMAIN live = 1 .. n
    BY SeqFacts
<1>2. IsSeq(r) /\ Len(r) = n /\ \A k \in 1 .. n : r[k] = Destroy(live[n + 1 - k])
  <2>1. IsSeq(ds) /\ Len(ds) = n
    <3>1. ds = [i \in 1 .. n |-> ds[i]]
      BY <1>1
    <3> HIDE DEF ds, n
    <3> QED BY <1>1, <3>1, SeqMake
  <2>2. \A i \in 1 .. n : ds[i] = Destroy(live[i])
    BY <1>1
  <2> HIDE DEF ds, n
  <2>3. r = [k \in 1 .. n |-> ds[n - k + 1]]
    BY <2>1 DEF Reverse
  <2>4. r = [k \in 1 .. n |-> r[k]] /\ \A k \in 1 .. n : r[k] = ds[n - k + 1]
    BY <2>3
  <2> HIDE DEF r
  <2>5. IsSeq(r) /\ Len(r) = n
    BY <1>1, <2>4, SeqMake
  <2>6. \A k \in 1 .. n : n - k + 1 \in 1 .. n /\ n - k + 1 = n + 1 - k
    BY <1>1
  <2>7. ASSUME NEW k \in 1 .. n PROVE r[k] = Destroy(live[n + 1 - k])
    <3> DEFINE j == n - k + 1
    <3>1. j \in 1 .. n /\ j = n + 1 - k /\ r[k] = ds[j]
      BY <2>4, <2>6
    <3> HIDE DEF j
    <3> QED BY <2>2, <3>1
  <2> QED BY <2>5, <2>7
<1>3. /\ \A k \in 1 .. n + 1 : c[k].live = pre(n + 1 - k)
      /\ c[1].left = None
      /\ \A k \in 1 .. n : c[k + 1].left = live[n + 1 - k]
      /\ \A k \in 1 .. n + 1 : c[k] = [live |-> c[k].live, left |-> c[k].left]
  <2> HIDE DEF pre, n
  <2>1. \A k \in 1 .. n : k + 1 \in 1 .. n + 1 /\ k + 1 # 1 /\ n + 2 - (k + 1) = n + 1 - k
    BY <1>1
  <2>2. 1 \in 1 .. n + 1
    BY <1>1
  <2> QED BY <2>1, <2>2
<1>4. pre(n) = live
  <2>1. n \in 0 .. Len(live)
    BY <1>1
  <2>2. IsSeq(pre(n)) /\ Len(pre(n)) = n /\ \A i \in 1 .. n : pre(n)[i] = live[i]
    BY <2>1, Prefix
  <2> DEFINE d == pre(n)
  <2>3. IsSeq(d) /\ Len(d) = n /\ \A i \in 1 .. n : d[i] = live[i]
    BY <2>2
  <2> HIDE DEF d
  <2>4. d = live
    BY <2>3, SeqExt
  <2> QED BY <2>4 DEF d
<1>5. \A k \in 1 .. n : /\ pre(n + 1 - k) # <<>> /\ Last(pre(n + 1 - k)) = live[n + 1 - k]
                        /\ Front(pre(n + 1 - k)) = pre(n - k)
  <2>1. ASSUME NEW k \in 1 .. n
        PROVE  /\ pre(n + 1 - k) # <<>> /\ Last(pre(n + 1 - k)) = live[n + 1 - k]
               /\ Front(pre(n + 1 - k)) = pre(n - k)
    <3> DEFINE m == n + 1 - k
    <3>1. m \in 0 .. Len(live) /\ m # 0 /\ m - 1 = n - k
      BY <1>1
    <3> HIDE DEF m
    <3>2. SubSeq(live, 1, m) # <<>> /\ Last(SubSeq(live, 1, m)) = live[m]
          /\ Front(SubSeq(live, 1, m)) = SubSeq(live, 1, m - 1)
      BY <3>1, Prefix
    <3> QED BY <3>1, <3>2 DEF m
  <2> QED BY <2>1
<1>6. ASSUME NEW k \in 1 .. n PROVE Step(Stack, c[k], r[k], c[k + 1])
  <2> DEFINE b == pre(n + 1 - k)
             p == live[n + 1 - k]
  <2>1. k \in 1 .. n + 1 /\ k + 1 \in 1 .. n + 1 /\ n + 1 - (k + 1) = n - k
    <3>1. n \in Nat
      BY <1>1
    <3> HIDE DEF n
    <3> QED BY <3>1
  <2>2. c[k].live = b /\ b # <<>> /\ Last(b) = p /\ Front(b) = pre(n - k)
    BY <1>3, <1>5, <2>1
  <2>3. c[k + 1].live = pre(n - k) /\ c[k + 1].left = p
        /\ c[k + 1] = [live |-> c[k + 1].live, left |-> c[k + 1].left]
    BY <1>3, <2>1
  <2>4. r[k].do = "destroy" /\ r[k].p = p
    BY <1>2 DEF Destroy, Op
  <2> HIDE DEF b, p, r, c, pre
  <2>5. c[k + 1] = [live |-> Front(c[k].live), left |-> r[k].p]
    BY <2>2, <2>3, <2>4
  <2> QED BY <2>2, <2>4, <2>5 DEF Step, Stack, StackStep
<1>7. c[1] = [live |-> live, left |-> None]
  <2>1. 1 \in 1 .. n + 1 /\ n + 1 - 1 = n
    BY <1>1
  <2> HIDE DEF c, pre
  <2> QED BY <1>3, <1>4, <2>1
<1> HIDE DEF r, c, n
<1>8. Path(Stack, [live |-> live, left |-> None], r, c[n + 1])
    BY <1>2, <1>6, <1>7 DEF Path
<1>9. PICK u : Path(Stack, c[n + 1], <<Op("throw", None)>>, u)
  <2> DEFINE t == Op("throw", None)
             v == [live |-> c[n + 1].live, left |-> None]
  <2>1. t.do \in Others
    BY DEF Op, Others
  <2>2. Step(Stack, c[n + 1], t, v)
    BY <2>1 DEF Step, Stack, StackStep
  <2> HIDE DEF t
  <2>3. Path(Stack, c[n + 1], <<t>>, v)
    BY <2>2, PathOne
  <2> QED BY <2>3 DEF t
<1>10. IsSeq(<<Op("throw", None)>>)
    BY SeqSingle
<1> DEFINE w == <<Op("throw", None)>>
<1>11. Unwinding = r \o w
    BY DEF Unwinding, r
<1>12. IsSeq(w) /\ Path(Stack, c[n + 1], w, u)
    BY <1>9, <1>10
<1> HIDE DEF w
<1>13. Path(Stack, [live |-> live, left |-> None], r \o w, u) /\ IsSeq(r \o w)
    BY <1>2, <1>8, <1>12, PathConcat
<1> QED BY <1>11, <1>13

LEMMA UnwindOK ==
    ASSUME PipelineOK, Unwind, live' = live, archive' = archive
    PROVE  PathOK'
<1>1. IsSeq(live)
    BY DEF PipelineOK, LiveOK
<1>2. PICK s, ops, u : /\ s = [live |-> live, left |-> None] /\ ops = Unwinding /\ IsSeq(ops)
                       /\ Path(Stack, s, ops, u)
    BY <1>1, UnwindingPath
<1>3. Path(Stack, s, ops, u)'
    BY <1>2, PathSame
<1>4. s = [live |-> live', left |-> None] /\ ops = program' /\ IsSeq(program')
    BY <1>2 DEF Unwind, Unwinding
<1>5. ~IsPart(None)'
    BY DEF IsPart, None
<1> QED BY <1>3, <1>4, <1>5 DEF PathOK

\* Nothing but the operations that are left changes.
LEMMA Unchanged ==
    ASSUME PipelineOK, live' = live, proc' = proc, queue' = queue, results' = results,
           archive' = archive
    PROVE  PipelineOK'
<1>1. QueuesOK' /\ DOMAIN queue \subseteq Ran(live)
    BY DEF PipelineOK, QueuesOK, LiveOK
<1>2. \A x \in DOMAIN proc : Keeps(proc[x], proc'[x], NoQueue)
    BY KeepsSame
<1> QED BY <1>1, <1>2, SameObjects

\* One of the processors is set to a state it may have, or asked to stop.
LEMMA SetKeeps ==
    ASSUME NEW r, ProcShape(r), r.state \in States, NEW q, DOMAIN q = ProcFields,
           SameBut(r, [q EXCEPT !.state = r.state, !.stop_requested = r.stop_requested]),
           q.stop_requested \in BOOLEAN, q.state \in States, q.done = r.done,
           q.buffer = r.buffer, q.out = r.out, q.bytes = r.bytes, NEW y
    PROVE  Keeps(r, q, y)
<1>1. /\ q.kind = r.kind /\ q.arg = r.arg /\ q.source_queue = r.source_queue
      /\ q.pass_eof = r.pass_eof /\ q.ready = r.ready /\ q.bytes_written = r.bytes_written
    BY DEF SameBut, ProcFields
<1>2. ProcShape(q)
    BY <1>1, Reset DEF ProcShape
<1> QED BY <1>1, <1>2 DEF Keeps

LEMMA StartedKeeps ==
    ASSUME PipelineOK, NEW x \in DOMAIN proc, NEW y
    PROVE  Keeps(proc[x], Started(proc[x]), y)
<1> DEFINE r == proc[x]
           q == [r EXCEPT !.state = "Starting"]
<1>1. ProcShape(r) /\ r.state \in States
    BY DEF PipelineOK, ProcsOK
<1>2. Started(r) \in {r, q}
    BY DEF Started
<1> HIDE DEF r
<1>3. /\ DOMAIN q = ProcFields /\ q.done = r.done /\ q.buffer = r.buffer /\ q.out = r.out
      /\ q.bytes = r.bytes /\ q.state \in States /\ q.stop_requested \in BOOLEAN
      /\ SameBut(r, [q EXCEPT !.state = r.state, !.stop_requested = r.stop_requested])
    BY <1>1 DEF ProcShape, ProcFields, States, SameBut
<1> HIDE DEF q
<1>4. Keeps(r, q, y)
    BY <1>1, <1>3, SetKeeps
<1> QED BY <1>2, <1>4, KeepsSame DEF r

LEMMA StartKeeps ==
    ASSUME PipelineOK, PathOK, StartAll \/ StartThrows \/ NewPipeline, archive' = archive
    PROVE  PipelineOK' /\ PathOK'
<1>1. CASE StartAll
  <2>1. program # <<>> /\ program[1].do = "start"
    BY <1>1 DEF StartAll, Doing
  <2>2. PathOK'
    BY <1>1, <2>1, OtherNow, UseContinues DEF StartAll, Continue, Others
  <2>3. /\ DOMAIN proc' = DOMAIN proc
        /\ \A x \in DOMAIN proc : proc'[x] = Started(proc[x])
        /\ live' = live /\ queue' = queue /\ results' = results
    BY <1>1 DEF StartAll
  <2>4. \A x \in DOMAIN proc : Keeps(proc[x], proc'[x], NoQueue)
    BY <2>3, StartedKeeps
  <2>5. QueuesOK' /\ DOMAIN queue \subseteq Ran(live)
    BY <2>3 DEF PipelineOK, QueuesOK, LiveOK
  <2> QED BY <2>2, <2>3, <2>4, <2>5, SameObjects
<1>2. CASE StartThrows
    BY <1>2, UnwindOK, Unchanged DEF StartThrows
<1>3. CASE NewPipeline
  <2>1. program # <<>> /\ program[1].do = "pipeline"
    BY <1>3 DEF NewPipeline, Doing
  <2>2. PathOK'
    BY <1>3, <2>1, OtherNow, UseContinues DEF NewPipeline, Continue, Others
  <2> QED BY <1>3, <2>2, Unchanged DEF NewPipeline
<1> QED BY <1>1, <1>2, <1>3

LEMMA PushKeeps ==
    ASSUME PipelineOK, PathOK, PushSegment, archive' = archive
    PROVE  PipelineOK' /\ PathOK'
<1> DEFINE k == Argument
           s == program[1].segment
<1>1. program # <<>> /\ program[1].do = "push"
    BY DEF PushSegment, Doing
<1>2. IsSegment(s) /\ After([live |-> live, left |-> None])
    BY <1>1, UseNow DEF Uses
<1>3. /\ live' = live /\ proc' = proc /\ results' = results /\ program' = Tail(program)
      /\ Len(queue[k].items) < capacity
      /\ queue' = [queue EXCEPT ![k].items = Append(@, s)]
    BY DEF PushSegment, Continue
<1>4. PathOK'
    BY <1>2, <1>3, UseContinues
<1> HIDE DEF k, s
<1>5. k \in DOMAIN queue => QueueShape([queue[k] EXCEPT !.items = Append(@, s)])
  <2>1. k \in DOMAIN queue => QueueShape(queue[k])
    BY DEF PipelineOK, QueuesOK
  <2> QED BY <1>2, <1>3, <2>1, Appended
<1>6. DOMAIN queue' = DOMAIN queue /\ QueuesOK'
    BY <1>3, <1>5 DEF PipelineOK, QueuesOK
<1>7. \A x \in DOMAIN proc : Keeps(proc[x], proc'[x], NoQueue)
    BY <1>3, KeepsSame
<1>8. DOMAIN queue \subseteq Ran(live)
    BY DEF PipelineOK, LiveOK
<1>9. PipelineOK'
    BY <1>3, <1>6, <1>7, <1>8, SameObjects
<1> QED BY <1>4, <1>9

LEMMA WriteSyncKeeps ==
    ASSUME PipelineOK, PathOK, SynchronousWrite, archive' = archive
    PROVE  PipelineOK' /\ PathOK'
<1> DEFINE p == Argument
           s == program[1].segment
           sq(x) == IF x = p THEN [proc[x] EXCEPT !.source_queue = p] ELSE proc[x]
<1>1. program # <<>> /\ program[1].do = "sync_write"
    BY DEF SynchronousWrite, Doing
<1>2. p \in Ran(live) /\ IsSegment(s) /\ After([live |-> live, left |-> None])
    BY <1>1, UseNow DEF Uses
<1>3. /\ live' = live /\ results' = results
      /\ program' \in {Tail(program), <<Push(p, s)>> \o Tail(program)}
      /\ queue' = [Joined(p) EXCEPT ![p].source = FALSE]
    BY DEF SynchronousWrite, Continue, Expand
<1>4. /\ DOMAIN proc' = DOMAIN proc
      /\ \A x \in DOMAIN proc : proc'[x] \in {sq(x), Started(sq(x))}
    BY DEF SynchronousWrite
<1>5. PathOK'
  <2>1. CASE program' = Tail(program)
    BY <1>2, <1>3, <2>1, UseContinues
  <2>2. CASE program' = <<Push(p, s)>> \o Tail(program)
    <3> DEFINE a == Push(p, s)
    <3>1. a.do = "push" /\ a.p = p /\ a.segment = s
      BY DEF Push
    <3>2. program' = <<a>> \o Tail(program)
      BY <2>2
    <3> HIDE DEF a, p, s
    <3> QED BY <1>2, <1>3, <3>1, <3>2, UseExpands DEF Uses, Others
  <2> QED BY <1>3, <2>1, <2>2
<1> HIDE DEF p
<1>6. \A x \in DOMAIN proc : x # p => Keeps(proc[x], proc'[x], NoQueue)
    BY <1>4, KeepsSame, StartedKeeps
<1>7. p \in DOMAIN proc
    BY <1>2 DEF PipelineOK, LiveOK
<1>8. Keeps(proc[p], proc'[p], p)
  <2> DEFINE r == proc[p]
             e == [r EXCEPT !.source_queue = p]
             f == [e EXCEPT !.state = "Starting"]
  <2>1. ProcShape(r) /\ DOMAIN r = ProcFields /\ r.state \in States
    BY <1>7 DEF PipelineOK, ProcsOK, ProcShape
  <2>2. proc'[p] \in {e, f}
    BY <1>4, <1>7 DEF Started
  <2> HIDE DEF r
  <2>3. ASSUME NEW q \in {e, f} PROVE Keeps(r, q, p)
    <3>1. /\ DOMAIN q = ProcFields /\ q.pass_eof = r.pass_eof
          /\ q.stop_requested = r.stop_requested
          /\ q.kind = r.kind /\ q.arg = r.arg /\ q.ready = r.ready /\ q.buffer = r.buffer
          /\ q.bytes = r.bytes /\ q.bytes_written = r.bytes_written /\ q.out = r.out
          /\ q.done = r.done /\ q.state \in States /\ q.source_queue = p
      BY <2>1 DEF ProcFields, States
    <3>2. ProcShape(q)
      BY <2>1, <3>1, Reset DEF ProcShape
    <3> QED BY <3>1, <3>2 DEF Keeps
  <2> QED BY <2>2, <2>3 DEF r
<1>9. /\ DOMAIN queue \subseteq DOMAIN queue' /\ DOMAIN queue' \subseteq Ran(live)
      /\ p \in DOMAIN queue' /\ QueuesOK'
    BY <1>2, <1>3, JoinedQueues DEF QueuesOK
<1>10. PipelineOK'
    BY <1>3, <1>4, <1>6, <1>8, <1>9, SameObjects
<1> QED BY <1>5, <1>10

LEMMA ReadSyncKeeps ==
    ASSUME PipelineOK, PathOK, SynchronousRead, archive' = archive
    PROVE  PipelineOK' /\ PathOK'
<1> DEFINE p == Argument
           b == [program[1] EXCEPT !.do = "fill"]
<1>1. program # <<>> /\ program[1].do = "sync_read"
    BY DEF SynchronousRead, Doing
<1>2. p \in Ran(live) /\ After([live |-> live, left |-> None])
    BY <1>1, UseNow DEF Uses
<1>3. /\ live' = live /\ results' = results
      /\ program' = <<Start, b>> \o Tail(program)
      /\ queue' = Joined(p)
      /\ proc' = [proc EXCEPT ![p].sink_queue = p]
    BY DEF SynchronousRead, Expand
<1>4. PathOK'
  <2> DEFINE a == Start
  <2>1. a.do = "start"
    BY DEF Start, Op
  <2>2. b.do \in {"fill", "sync_read"} /\ b.p = p
    BY <1>1 DEF Argument
  <2>3. program' = <<a, b>> \o Tail(program)
    BY <1>3
  <2> HIDE DEF a, b
  <2> QED BY <1>2, <1>3, <2>1, <2>2, <2>3, UsesExpand DEF Uses, Others
<1> HIDE DEF p
<1>5. \A x \in DOMAIN proc : Keeps(proc[x], proc'[x], NoQueue)
  <2>1. ASSUME NEW x \in DOMAIN proc PROVE Keeps(proc[x], proc'[x], NoQueue)
    <3> DEFINE r == proc[x]
               e == [r EXCEPT !.sink_queue = p]
    <3>1. ProcShape(r) /\ DOMAIN r = ProcFields /\ r.state \in States
      BY DEF PipelineOK, ProcsOK, ProcShape
    <3>2. proc'[x] \in {r, e}
      BY <1>3
    <3> HIDE DEF r
    <3>3. /\ DOMAIN e = ProcFields /\ e.pass_eof = r.pass_eof
          /\ e.stop_requested = r.stop_requested
          /\ e.kind = r.kind /\ e.arg = r.arg /\ e.ready = r.ready /\ e.buffer = r.buffer
          /\ e.bytes = r.bytes /\ e.bytes_written = r.bytes_written /\ e.out = r.out
          /\ e.done = r.done /\ e.state = r.state /\ e.source_queue = r.source_queue
      BY <3>1 DEF ProcFields
    <3> HIDE DEF e
    <3>4. ProcShape(e)
      BY <3>1, <3>3, Reset DEF ProcShape
    <3> QED BY <3>1, <3>2, <3>3, <3>4 DEF Keeps, r
  <2> QED BY <2>1
<1>6. /\ DOMAIN queue \subseteq DOMAIN queue' /\ DOMAIN queue' \subseteq Ran(live) /\ QueuesOK'
    BY <1>2, <1>3, JoinedQueues DEF QueuesOK
<1>7. PipelineOK'
    BY <1>3, <1>5, <1>6, SameObjects
<1> QED BY <1>4, <1>7

LEMMA PathStays ==
    ASSUME PathOK, program' = program, live' = live, archive' = archive,
           DOMAIN results \subseteq DOMAIN results'
    PROVE  PathOK'
<1>1. PICK left, s, ops, u :
          /\ s = [live |-> live, left |-> left] /\ ops = program
          /\ Path(Stack, s, ops, u)
          /\ IsPart(left) => left \in DOMAIN results
    BY DEF PathOK
<1>2. Path(Stack, s, ops, u)'
    BY <1>1, PathSame
<1>3. s = [live |-> live', left |-> left] /\ ops = program' /\ IsSeq(program')
    BY <1>1 DEF PathOK
<1>4. IsPart(left)' => left \in DOMAIN results'
    BY <1>1 DEF IsPart, Files
<1> QED BY <1>2, <1>3, <1>4 DEF PathOK

LEMMA FillKeeps ==
    ASSUME PipelineOK, PathOK, FillBuffer, archive' = archive
    PROVE  PipelineOK' /\ PathOK'
<1> DEFINE k == Argument
<1>1. program # <<>> /\ program[1].do = "fill"
    BY DEF FillBuffer, Doing
<1>2. /\ live' = live /\ proc' = proc /\ results' = results
      /\ queue[k].items # <<>>
      /\ queue' = [queue EXCEPT ![k] = Popped(@)]
    BY DEF FillBuffer
<1>3. Unwind \/ program' = Tail(program) \/ program' = program
    BY DEF FillBuffer, Continue
<1>4. After([live |-> live, left |-> None])
    BY <1>1, UseNow DEF Uses
<1>5. PathOK'
    BY <1>2, <1>3, <1>4, UnwindOK, UseContinues, PathStays
<1> HIDE DEF k
<1>6. k \in DOMAIN queue => QueueShape(Popped(queue[k]))
    BY <1>2, PoppedShape DEF PipelineOK, QueuesOK
<1>7. DOMAIN queue' = DOMAIN queue /\ QueuesOK'
    BY <1>2, <1>6 DEF PipelineOK, QueuesOK
<1>8. \A x \in DOMAIN proc : Keeps(proc[x], proc'[x], NoQueue)
    BY <1>2, KeepsSame
<1>9. DOMAIN queue \subseteq Ran(live)
    BY DEF PipelineOK, LiveOK
<1>10. PipelineOK'
    BY <1>2, <1>7, <1>8, <1>9, SameObjects
<1> QED BY <1>5, <1>10

\* What a destructor consists of.
LEMMA ThreeExpand ==
    ASSUME NEW a, NEW b, NEW p, IsSeq(live), live # <<>>, p = Last(live),
           NEW pre, IsSeq(pre),
           Path(Stack, [live |-> live, left |-> None], pre, [live |-> live, left |-> None]),
           a.do = "stop", a.p = p, b.do = "join", b.p = p
    PROVE  /\ IsSeq(pre \o <<a, b, Op("detach", p)>>)
           /\ Path(Stack, [live |-> live, left |-> None], pre \o <<a, b, Op("detach", p)>>,
                   [live |-> Front(live), left |-> p])
<1> DEFINE d == Op("detach", p)
           s == [live |-> live, left |-> None]
           t == [live |-> Front(live), left |-> p]
           e == <<a, b>>
           f == <<d>>
           g == <<a, b, d>>
<1>1. p \in Ran(live)
  <2>1. Len(live) \in Nat /\ Len(live) > 0 /\ DOMAIN live = 1 .. Len(live)
    BY SeqFacts
  <2> QED BY <2>1 DEF Last, Ran
<1>2. d.do = "detach" /\ d.p = p
    BY DEF Op
<1> HIDE DEF d
<1>3. Step(Stack, s, a, s) /\ Step(Stack, s, b, s)
    BY <1>1, OneUse DEF Uses
<1>4. Step(Stack, s, d, t)
    BY <1>2 DEF Step, Stack, StackStep
<1> HIDE DEF s, t
<1>5. Path(Stack, s, e, s) /\ IsSeq(e)
    BY <1>3, PathTwo
<1>6. Path(Stack, s, f, t) /\ IsSeq(f) /\ Len(f) = 1 /\ f[1] = d
    BY <1>4, PathOne, SeqSingle
<1>7. Len(e) = 2 /\ e[1] = a /\ e[2] = b
    OBVIOUS
<1>8. IsSeq(g) /\ Len(g) = 3 /\ g[1] = a /\ g[2] = b /\ g[3] = d
  <2>1. g \in Seq({a, b, d}) /\ Len(g) = 3 /\ g[1] = a /\ g[2] = b /\ g[3] = d
    OBVIOUS
  <2> QED BY <2>1, SeqFrom
<1> HIDE DEF e, f, g
<1>9. Path(Stack, s, e \o f, t) /\ IsSeq(e \o f)
    BY <1>5, <1>6, PathConcat
<1>10. e \o f = g
  <2> DEFINE h == e \o f
  <2>1. IsSeq(h) /\ Len(h) = Len(e) + Len(f)
        /\ \A i \in 1 .. Len(e) + Len(f) : h[i] = IF i <= Len(e) THEN e[i] ELSE f[i - Len(e)]
    BY <1>5, <1>6, SeqConcat
  <2>2. Len(e) + Len(f) = 3
    BY <1>6, <1>7
  <2> HIDE DEF h
  <2>3. h[1] = a /\ h[2] = b /\ h[3] = d /\ Len(h) = 3
    BY <1>6, <1>7, <2>1, <2>2
  <2>4. \A i \in 1 .. 3 : h[i] = g[i]
    BY <1>8, <2>3
  <2>5. h = g
    BY <1>8, <2>1, <2>3, <2>4, SeqExt
  <2> QED BY <2>5 DEF h
<1>11. Path(Stack, s, pre \o g, t) /\ IsSeq(pre \o g)
  <2>1. Path(Stack, s, pre, s) /\ Path(Stack, s, g, t)
    BY <1>9, <1>10 DEF s
  <2> QED BY <1>8, <2>1, PathConcat
<1> QED BY <1>11 DEF s, t, g, d

LEMMA DestroyKeeps ==
    ASSUME PipelineOK, PathOK, DestroyStream, archive' = archive
    PROVE  PipelineOK' /\ PathOK'
<1> DEFINE p == Argument
           pre == IF proc[p].kind \in SinkKinds THEN <<Op("flush", p)>> ELSE <<>>
           a == Op("stop", p)
           b == Op("join", p)
           rest == <<a, b, Op("detach", p)>>
           s == [live |-> live, left |-> None]
           t == [live |-> Front(live), left |-> p]
<1>1. program # <<>> /\ program[1].do = "destroy"
    BY DEF DestroyStream, Doing
<1>2. live # <<>> /\ p = Last(live) /\ After(t)
    BY <1>1, LastNow
<1>3. /\ live' = live /\ proc' = proc /\ results' = results /\ queue' = queue
      /\ program' = (pre \o rest) \o Tail(program)
    BY DEF DestroyStream, Expand
<1>4. IsSeq(live) /\ p \in Ran(live)
  <2>1. IsSeq(live)
    BY DEF PipelineOK, LiveOK
  <2>2. Len(live) \in Nat /\ Len(live) > 0 /\ DOMAIN live = 1 .. Len(live)
    BY <1>2, <2>1, SeqFacts
  <2> QED BY <1>2, <2>1, <2>2 DEF Last, Ran
<1>5. IsSeq(pre) /\ Path(Stack, s, pre, s)
  <2> DEFINE f == Op("flush", p)
  <2>1. f.do = "flush" /\ f.p = p
    BY DEF Op
  <2> HIDE DEF f
  <2>2. Step(Stack, s, f, s)
    BY <1>4, <2>1, OneUse DEF Uses
  <2>3. IsSeq(<<f>>) /\ Path(Stack, s, <<f>>, s)
    BY <2>2, PathOne, SeqSingle
  <2>4. IsSeq(<<>>) /\ Path(Stack, s, <<>>, s)
    BY PathEmpty, SeqEmpty
  <2> QED BY <2>3, <2>4 DEF f
<1>6. a.do = "stop" /\ a.p = p /\ b.do = "join" /\ b.p = p
    BY DEF Op
<1> HIDE DEF pre, a, b, p
<1>7. IsSeq(pre \o rest) /\ Path(Stack, s, pre \o rest, t)
    BY <1>2, <1>4, <1>5, <1>6, ThreeExpand
<1>8. PathOK'
  <2> DEFINE all == pre \o rest
  <2>1. IsSeq(all) /\ Path(Stack, s, all, t) /\ program' = all \o Tail(program)
    BY <1>3, <1>7
  <2> HIDE DEF all, t
  <2> QED BY <1>2, <1>3, <2>1, Expands
<1>9. PipelineOK'
    BY <1>3, Unchanged
<1> QED BY <1>8, <1>9

LEMMA FlushKeeps ==
    ASSUME PipelineOK, PathOK, flush \/ Await, archive' = archive
    PROVE  PipelineOK' /\ PathOK'
<1> DEFINE p == Argument
           id == proc[p].source_queue
<1>1. program # <<>> /\ program[1].do \in {"flush", "await"}
    BY DEF flush, Await, Doing
<1>2. p \in Ran(live) /\ After([live |-> live, left |-> None])
    BY <1>1, UseNow DEF Uses
<1>3. live' = live /\ proc' = proc /\ results' = results /\ queue' = queue
    BY DEF flush, Await
<1>4. \/ program' = Tail(program)
      \/ id # NoQueue /\ program' = <<Push(id, Eof), Op("join", p)>> \o Tail(program)
      \/ id # NoQueue /\ program' = <<Push(id, Flush), Op("await", p)>> \o Tail(program)
    BY DEF flush, Await, Continue, Expand
<1>5. id # NoQueue => id \in Ran(live)
  <2>1. p \in DOMAIN proc
    BY <1>2 DEF PipelineOK, LiveOK
  <2>2. id # NoQueue => id \in DOMAIN queue
    BY <2>1, InputShape DEF Source
  <2> QED BY <2>2 DEF PipelineOK, LiveOK
<1> HIDE DEF p, id
<1>6. ASSUME NEW s \in {Eof, Flush}, NEW do \in {"join", "await"}, id # NoQueue,
             program' = <<Push(id, s), Op(do, p)>> \o Tail(program)
      PROVE  PathOK'
  <2> DEFINE a == Push(id, s)
             b == Op(do, p)
  <2>1. a.do = "push" /\ a.p = id /\ a.segment = s /\ b.do = do /\ b.p = p
    BY DEF Push, Op
  <2>2. IsSegment(s)
    BY DEF IsSegment
  <2>3. program' = <<a, b>> \o Tail(program)
    BY <1>6
  <2> HIDE DEF a, b
  <2> QED BY <1>2, <1>3, <1>5, <1>6, <2>1, <2>2, <2>3, UsesExpand DEF Uses, Others
<1>7. CASE program' = Tail(program)
    BY <1>2, <1>3, <1>7, UseContinues, Unchanged
<1>8. CASE id # NoQueue /\ program' = <<Push(id, Eof), Op("join", p)>> \o Tail(program)
    BY <1>3, <1>6, <1>8, Unchanged
<1>9. CASE id # NoQueue /\ program' = <<Push(id, Flush), Op("await", p)>> \o Tail(program)
    BY <1>3, <1>6, <1>9, Unchanged
<1> QED BY <1>4, <1>7, <1>8, <1>9

\* One processor changes as SetKeeps says.
LEMMA OneSet ==
    ASSUME PipelineOK, NEW p, NEW q, p \in DOMAIN proc => Keeps(proc[p], q, NoQueue),
           proc' = [proc EXCEPT ![p] = q], live' = live, queue' = queue, results' = results,
           archive' = archive
    PROVE  PipelineOK'
<1>1. DOMAIN proc' = DOMAIN proc
    OBVIOUS
<1>2. \A x \in DOMAIN proc : Keeps(proc[x], proc'[x], NoQueue)
    BY KeepsSame
<1>3. QueuesOK' /\ DOMAIN queue \subseteq Ran(live)
    BY DEF PipelineOK, QueuesOK, LiveOK
<1> QED BY <1>1, <1>2, <1>3, SameObjects

LEMMA StopKeeps ==
    ASSUME PipelineOK, PathOK, stop, archive' = archive
    PROVE  PipelineOK' /\ PathOK'
<1> DEFINE p == Argument
           r == proc[p]
           b == r.stop_requested \/ Working(p)
           q == [r EXCEPT !.stop_requested = b]
<1>1. program # <<>> /\ program[1].do = "stop"
    BY DEF stop, Doing
<1>2. p \in Ran(live) /\ After([live |-> live, left |-> None])
    BY <1>1, UseNow DEF Uses
<1>3. live' = live /\ results' = results /\ queue' = queue
      /\ program' \in {Tail(program), <<Op("join", p)>> \o Tail(program)}
    BY DEF stop, Continue, Expand
<1>4. PathOK'
  <2>1. CASE program' = Tail(program)
    BY <1>2, <1>3, <2>1, UseContinues
  <2>2. CASE program' = <<Op("join", p)>> \o Tail(program)
    <3> DEFINE a == Op("join", p)
    <3>1. a.do = "join" /\ a.p = p
      BY DEF Op
    <3>2. program' = <<a>> \o Tail(program)
      BY <2>2
    <3> HIDE DEF a, p
    <3> QED BY <1>2, <1>3, <3>1, <3>2, UseExpands DEF Uses, Others
  <2> QED BY <1>3, <2>1, <2>2
<1>5. p \in DOMAIN proc
    BY <1>2 DEF PipelineOK, LiveOK
<1>6. ProcShape(r) /\ r.state \in States
    BY <1>5 DEF PipelineOK, ProcsOK
<1>7. proc' = [proc EXCEPT ![p] = q]
  <2>1. proc' = [proc EXCEPT ![p].stop_requested = @ \/ Working(p)]
    BY DEF stop
  <2> QED BY <2>1
<1> HIDE DEF r
<1>8. b \in BOOLEAN
    BY <1>6 DEF ProcShape
<1> HIDE DEF b
<1>9. /\ DOMAIN q = ProcFields /\ q.done = r.done /\ q.buffer = r.buffer /\ q.out = r.out
      /\ q.bytes = r.bytes /\ q.state = r.state /\ q.stop_requested \in BOOLEAN
      /\ SameBut(r, [q EXCEPT !.state = r.state, !.stop_requested = r.stop_requested])
    BY <1>6, <1>8 DEF ProcShape, ProcFields, SameBut
<1> HIDE DEF q
<1>10. Keeps(r, q, NoQueue)
    BY <1>6, <1>9, SetKeeps
<1>11. PipelineOK'
    BY <1>3, <1>7, <1>10, OneSet DEF r
<1> QED BY <1>4, <1>11

LEMMA JoinKeeps ==
    ASSUME PipelineOK, PathOK, join, archive' = archive
    PROVE  PipelineOK' /\ PathOK'
<1> DEFINE p == Argument
           q == [proc[p] EXCEPT !.state = "Completed"]
<1>1. program # <<>> /\ program[1].do = "join"
    BY DEF join, Doing
<1>2. p \in Ran(live) /\ After([live |-> live, left |-> None])
    BY <1>1, UseNow DEF Uses
<1>3. live' = live /\ results' = results /\ queue' = queue /\ program' = Tail(program)
      /\ proc' = [proc EXCEPT ![p] = q]
    BY DEF join, Continue
<1>4. PathOK'
    BY <1>2, <1>3, UseContinues
<1>5. p \in DOMAIN proc
    BY <1>2 DEF PipelineOK, LiveOK
<1>6. Keeps(proc[p], q, NoQueue)
    BY <1>5, CompletedBecomes DEF Keeps, Becomes
<1> HIDE DEF q, p
<1>7. PipelineOK'
    BY <1>3, <1>6, OneSet
<1> QED BY <1>4, <1>7

\* The last of the objects is gone, and its queue with it.
LEMMA OneLess ==
    ASSUME PipelineOK, NEW p, live # <<>>, p = Last(live), live' = Front(live), archive' = archive,
           DOMAIN proc' = DOMAIN proc \ {p}, \A x \in DOMAIN proc' : proc'[x] = proc[x],
           DOMAIN queue' = DOMAIN queue \ {p}, QueuesOK',
           \A x \in DOMAIN results' : IsPart(x) =>
                \/ x \in DOMAIN results /\ results'[x] = results[x]
                \/ results'[x] \in 0 .. Len(Files[x[2]])
    PROVE  PipelineOK'
<1>1. PICK f, n : /\ f = Front(live) /\ n = Len(live) /\ n \in Nat /\ n > 0 /\ IsSeq(f)
                  /\ Len(f) = n - 1 /\ \A i \in 1 .. n - 1 : f[i] = live[i]
                  /\ live[n] = p /\ DOMAIN live = 1 .. n /\ DOMAIN f = 1 .. n - 1
                  /\ DOMAIN proc = Ran(live) /\ \A i, j \in 1 .. n : live[i] = live[j] => i = j
  <2>1. IsSeq(live) /\ DOMAIN proc = Ran(live) /\ Distinct(live)
    BY DEF PipelineOK, LiveOK
  <2>2. Len(live) \in Nat /\ Len(live) > 0 /\ DOMAIN live = 1 .. Len(live)
    BY <2>1, SeqFacts
  <2>3. PICK f : f = Front(live)
    OBVIOUS
  <2>4. IsSeq(f) /\ Len(f) = Len(live) - 1 /\ \A i \in 1 .. Len(live) - 1 : f[i] = live[i]
    BY <2>1, <2>3, SeqFront
  <2>5. DOMAIN f = 1 .. Len(live) - 1
    BY <2>4, SeqFacts
  <2>6. live[Len(live)] = p
    BY DEF Last
  <2>7. \A i, j \in 1 .. Len(live) : live[i] = live[j] => i = j
    BY <2>1 DEF Distinct
  <2> QED BY <2>1, <2>2, <2>3, <2>4, <2>5, <2>6, <2>7
<1>2. live' = f
    BY <1>1
<1>3. \A i \in 1 .. n - 1 : i \in 1 .. n /\ live[i] # p
  <2>1. \A i \in 1 .. n - 1 : i \in 1 .. n /\ i # n /\ n \in 1 .. n
    BY <1>1
  <2> QED BY <1>1, <2>1
<1>4. \A i \in 1 .. n : i = n \/ i \in 1 .. n - 1
    BY <1>1
<1>5. Ran(f) = Ran(live) \ {p}
  <2>1. ASSUME NEW x \in Ran(f) PROVE x \in Ran(live) /\ x # p
    <3>1. PICK i \in 1 .. n - 1 : x = f[i]
      BY <1>1, <2>1 DEF Ran
    <3> QED BY <1>1, <1>3, <3>1 DEF Ran
  <2>2. ASSUME NEW x \in Ran(live), x # p PROVE x \in Ran(f)
    <3>1. PICK i \in 1 .. n : x = live[i]
      BY <1>1, <2>2 DEF Ran
    <3>2. i \in 1 .. n - 1
      BY <1>1, <1>4, <2>2, <3>1
    <3> QED BY <1>1, <3>1, <3>2 DEF Ran
  <2> QED BY <2>1, <2>2
<1>6. Distinct(f)
    BY <1>1, <1>3 DEF Distinct
<1>7. LiveOK'
  <2>1. DOMAIN proc' = Ran(f) /\ DOMAIN queue' \subseteq Ran(f)
    BY <1>1, <1>5 DEF PipelineOK, LiveOK
  <2>2. IsSeq(f) /\ Distinct(f) /\ DOMAIN proc' = Ran(f) /\ DOMAIN queue' \subseteq Ran(f)
    BY <1>1, <1>6, <2>1
  <2>3. IsSeq(live') /\ Distinct(live') /\ DOMAIN proc' = Ran(live')
        /\ DOMAIN queue' \subseteq Ran(live')
    BY <1>2, <2>2, Zenon
  <2> QED BY <2>3, Zenon DEF LiveOK, Distinct, IsSeq, Ran
<1>8. ProcsOK'
    BY DEF PipelineOK, ProcsOK
<1>9. SourcesOlder'
  <2>1. ASSUME NEW i \in 1 .. n - 1
        PROVE  \/ proc'[f[i]].source_queue = NoQueue
               \/ \E j \in 1 .. i : f[j] = proc'[f[i]].source_queue /\ f[j] \in DOMAIN queue'
    <3>1. f[i] = live[i] /\ proc'[f[i]] = proc[live[i]]
      BY <1>1, <1>3 DEF Ran
    <3>2. \/ proc[live[i]].source_queue = NoQueue
          \/ \E j \in 1 .. i : live[j] = proc[live[i]].source_queue /\ live[j] \in DOMAIN queue
      BY <1>1, <1>3 DEF PipelineOK, SourcesOlder, Source
    <3>3. \A j \in 1 .. i : j \in 1 .. n - 1
      BY <1>1
    <3>4. \A j \in 1 .. i : f[j] = live[j] /\ live[j] # p
      BY <1>1, <1>3, <3>3
    <3> QED BY <3>1, <3>2, <3>4
  <2> QED BY <1>1, <1>2, <2>1 DEF SourcesOlder, Source
<1>10. PartsOK'
  <2>1. \A x \in DOMAIN proc' : \E y : Keeps(proc[x], proc'[x], y)
    BY KeepsSame
  <2> QED BY <2>1, PartsKeep
<1> QED BY <1>7, <1>8, <1>9, <1>10 DEF PipelineOK

LEMMA DetachKeeps ==
    ASSUME PipelineOK, PathOK, Detach, archive' = archive
    PROVE  PipelineOK' /\ PathOK'
<1> DEFINE p == Argument
           r == proc[p]
           gone == Without(queue, p)
           v == IF r.kind \in Hashes THEN r.buffer ELSE r.bytes_written
<1>1. program # <<>> /\ program[1].do = "detach"
    BY DEF Detach, Doing
<1>2. live # <<>> /\ p = Last(live) /\ After([live |-> Front(live), left |-> p])
    BY <1>1, LastNow
<1>3. /\ live' = Front(live) /\ program' = Tail(program) /\ proc' = Without(proc, p)
      /\ queue' = IF r.sink_queue \in DOMAIN gone
                  THEN [gone EXCEPT ![r.sink_queue].source = FALSE] ELSE gone
      /\ results' = IF r.kind \in Hashes \/ r.kind = "BoundedSource" THEN With(results, p, v)
                    ELSE results
    BY DEF Detach, Continue
<1>4. p \in DOMAIN proc
  <2>1. IsSeq(live) /\ DOMAIN proc = Ran(live)
    BY DEF PipelineOK, LiveOK
  <2>2. Len(live) \in Nat /\ Len(live) > 0 /\ DOMAIN live = 1 .. Len(live)
    BY <1>2, <2>1, SeqFacts
  <2> QED BY <1>2, <2>1, <2>2 DEF Last, Ran
<1> HIDE DEF p
<1>5. DOMAIN proc' = DOMAIN proc \ {p} /\ \A x \in DOMAIN proc' : proc'[x] = proc[x]
    BY <1>3 DEF Without
<1>6. DOMAIN gone = DOMAIN queue \ {p} /\ \A x \in DOMAIN gone : QueueShape(gone[x])
    BY DEF Without, PipelineOK, QueuesOK
<1> HIDE DEF gone
<1>7. DOMAIN queue' = DOMAIN queue \ {p} /\ QueuesOK'
  <2>1. CASE r.sink_queue \in DOMAIN gone
    <3> DEFINE k == r.sink_queue
    <3>1. QueueShape(gone[k]) /\ queue' = [gone EXCEPT ![k].source = FALSE]
      BY <1>3, <1>6, <2>1
    <3>2. QueueShape([gone[k] EXCEPT !.source = FALSE])
      BY <3>1 DEF QueueShape
    <3> HIDE DEF k
    <3> QED BY <1>6, <3>1, <3>2 DEF QueuesOK
  <2>2. CASE r.sink_queue \notin DOMAIN gone
    BY <1>3, <1>6, <2>2 DEF QueuesOK
  <2> QED BY <2>1, <2>2
<1>8. IsPart(p) => /\ p \in DOMAIN results' /\ results'[p] \in 0 .. Len(Files[p[2]])
  <2> SUFFICES ASSUME IsPart(p)
               PROVE  p \in DOMAIN results' /\ results'[p] \in 0 .. Len(Files[p[2]])
    OBVIOUS
  <2>1. r.kind = "BoundedSource" /\ r.arg = Len(Files[p[2]]) /\ ProcShape(r)
    BY <1>4 DEF PipelineOK, PartsOK, ProcsOK
  <2>2. results' = With(results, p, r.bytes_written)
    BY <1>3, <2>1 DEF Hashes
  <2>3. /\ r.bytes \in Nat /\ r.bytes_written \in Nat /\ r.arg \in Nat /\ r.bytes <= r.arg
        /\ r.out = <<>> => r.bytes_written <= r.bytes
        /\ r.out # <<>> => r.bytes_written + Len(r.out[1].data) <= r.bytes
    BY <2>1 DEF ProcShape, WithinBound
  <2>4. r.out # <<>> => Len(r.out[1].data) \in Nat
    BY <2>1, TailOfSegments, SegmentFacts DEF ProcShape
  <2>5. r.bytes_written <= r.arg
    <3>1. CASE r.out = <<>>
      BY <2>3, <3>1
    <3>2. CASE r.out # <<>>
      <4>1. PICK m \in Nat : r.bytes_written + m <= r.bytes
        BY <2>3, <2>4, <3>2
      <4> QED BY <2>3, <4>1
    <3> QED BY <3>1, <3>2
  <2>6. p \in DOMAIN results' /\ results'[p] = r.bytes_written
    BY <2>2 DEF With
  <2> QED BY <2>1, <2>3, <2>5, <2>6
<1>9. \A x \in DOMAIN results' : IsPart(x) =>
            \/ x \in DOMAIN results /\ results'[x] = results[x]
            \/ results'[x] \in 0 .. Len(Files[x[2]])
  <2>1. \A x \in DOMAIN results' : x # p => x \in DOMAIN results /\ results'[x] = results[x]
    BY <1>3 DEF With
  <2> QED BY <1>8, <2>1
<1>10. PipelineOK'
    BY <1>2, <1>3, <1>5, <1>7, <1>9, OneLess
<1>11. PathOK'
  <2>1. PICK w : w = live' /\ w = Front(live)
    BY <1>3
  <2> QED BY <1>2, <1>3, <1>8, <2>1, Continues
<1> QED BY <1>10, <1>11

LEMMA MainThreadKeeps ==
    ASSUME PipelineOK, PathOK, MainThread, archive' = archive
    PROVE  PipelineOK' /\ PathOK'
BY ConstructAloneKeeps, ConstructSinkKeeps, ConstructSourceKeeps, CopyKeeps, StartKeeps,
   PushKeeps, WriteSyncKeeps, ReadSyncKeeps, FillKeeps, DestroyKeeps, FlushKeeps,
   StopKeeps, JoinKeeps, DetachKeeps DEF MainThread

-----------------------------------------------------------------------------
\* What a command has to do makes sense from its start: the operations lead
\* from one stack of objects to another, whatever was destroyed before.

Leads(l, ops, m) ==
    /\ IsSeq(l) /\ IsSeq(ops) /\ IsSeq(m)
    /\ \A x : \E y : Path(Stack, [live |-> l, left |-> x], ops, [live |-> m, left |-> y])

\* The same, when what is destroyed last does not depend on what was before.
Ends(l, ops, m) ==
    /\ IsSeq(l) /\ IsSeq(ops) /\ IsSeq(m)
    /\ \E y : \A x : Path(Stack, [live |-> l, left |-> x], ops, [live |-> m, left |-> y])

LEMMA EndsLeads ==
    ASSUME NEW l, NEW ops, NEW m, Ends(l, ops, m)
    PROVE  Leads(l, ops, m)
BY DEF Ends, Leads

LEMMA LeadsConcat ==
    ASSUME NEW l, NEW m, NEW n, NEW a, NEW b, Leads(l, a, m), Leads(m, b, n)
    PROVE  Leads(l, a \o b, n)
<1>1. IsSeq(a) /\ IsSeq(b) /\ IsSeq(l) /\ IsSeq(n)
    BY DEF Leads
<1>2. ASSUME NEW x
      PROVE  /\ IsSeq(a \o b)
             /\ \E y : Path(Stack, [live |-> l, left |-> x], a \o b, [live |-> n, left |-> y])
  <2>1. PICK z : Path(Stack, [live |-> l, left |-> x], a, [live |-> m, left |-> z])
    BY DEF Leads
  <2>2. PICK y : Path(Stack, [live |-> m, left |-> z], b, [live |-> n, left |-> y])
    BY DEF Leads
  <2> QED BY <1>1, <2>1, <2>2, PathConcat
<1> DEFINE c == a \o b
<1>3. IsSeq(c) /\ \A x : \E y : Path(Stack, [live |-> l, left |-> x], c, [live |-> n, left |-> y])
    BY <1>2
<1> HIDE DEF c
<1>4. Leads(l, c, n)
    BY <1>1, <1>3 DEF Leads
<1> QED BY <1>4 DEF c

LEMMA EndsConcat ==
    ASSUME NEW l, NEW m, NEW n, NEW a, NEW b, Leads(l, a, m), Ends(m, b, n)
    PROVE  Ends(l, a \o b, n)
<1>1. IsSeq(a) /\ IsSeq(b) /\ IsSeq(l) /\ IsSeq(n)
    BY DEF Leads, Ends
<1>2. PICK y : \A z : Path(Stack, [live |-> m, left |-> z], b, [live |-> n, left |-> y])
    BY DEF Ends
<1>3. ASSUME NEW x
      PROVE  /\ IsSeq(a \o b)
             /\ Path(Stack, [live |-> l, left |-> x], a \o b, [live |-> n, left |-> y])
  <2>1. PICK z : Path(Stack, [live |-> l, left |-> x], a, [live |-> m, left |-> z])
    BY DEF Leads
  <2> QED BY <1>1, <1>2, <2>1, PathConcat
<1> DEFINE c == a \o b
<1>4. IsSeq(c) /\ \A x : Path(Stack, [live |-> l, left |-> x], c, [live |-> n, left |-> y])
    BY <1>3
<1> HIDE DEF c
<1>5. Ends(l, c, n)
    BY <1>1, <1>4 DEF Ends
<1> QED BY <1>5 DEF c

LEMMA LeadsEmpty ==
    ASSUME NEW l, IsSeq(l)
    PROVE  Leads(l, <<>>, l)
BY PathEmpty, SeqEmpty DEF Leads

\* Single operations.
LEMMA EndsOne ==
    ASSUME NEW l, NEW op, NEW m, IsSeq(l), IsSeq(m), NEW y,
           \A x : StackStep([live |-> l, left |-> x], op, [live |-> m, left |-> y])
    PROVE  Ends(l, <<op>>, m)
<1> DEFINE ops == <<op>>
<1>1. ASSUME NEW x PROVE Path(Stack, [live |-> l, left |-> x], ops, [live |-> m, left |-> y])
  <2>1. Step(Stack, [live |-> l, left |-> x], op, [live |-> m, left |-> y])
    BY DEF Step, Stack
  <2> QED BY <2>1, PathOne
<1>2. IsSeq(ops)
    BY SeqSingle
<1> HIDE DEF ops
<1>3. Ends(l, ops, m)
    BY <1>1, <1>2 DEF Ends
<1> QED BY <1>3 DEF ops

LEMMA EndsConstruct ==
    ASSUME NEW l, NEW op, IsSeq(l), op.do \in Constructs, ConstructOK(op), op.p \notin Ran(l),
           op.do = "construct_on" => op.sink \in Ran(l),
           op.do = "construct_from" => op.source \in Ran(l)
    PROVE  Ends(l, <<op>>, Append(l, op.p))
<1> DEFINE m == Append(l, op.p)
<1>1. IsSeq(m)
    BY SeqAppend
<1>2. \A x : StackStep([live |-> l, left |-> x], op, [live |-> m, left |-> None])
    BY DEF StackStep
<1> HIDE DEF m
<1>3. Ends(l, <<op>>, m)
    BY <1>1, <1>2, EndsOne
<1> QED BY <1>3 DEF m

LEMMA EndsUse ==
    ASSUME NEW l, NEW op, IsSeq(l), op.do \in Uses, op.p \in Ran(l),
           op.do = "copy_to" => op.sink \in Ran(l),
           op.do \in {"push", "sync_write"} => IsSegment(op.segment)
    PROVE  Ends(l, <<op>>, l)
<1>1. \A x : StackStep([live |-> l, left |-> x], op, [live |-> l, left |-> None])
    BY DEF StackStep
<1> QED BY <1>1, EndsOne

LEMMA EndsOther ==
    ASSUME NEW l, NEW op, IsSeq(l), op.do \in Others
    PROVE  Ends(l, <<op>>, l)
<1>1. \A x : StackStep([live |-> l, left |-> x], op, [live |-> l, left |-> None])
    BY DEF StackStep
<1> QED BY <1>1, EndsOne

\* The last element of what was appended to.
LEMMA LastOfAppend ==
    ASSUME NEW l, IsSeq(l), NEW p
    PROVE  /\ Append(l, p) # <<>> /\ IsSeq(Append(l, p))
           /\ Last(Append(l, p)) = p /\ Front(Append(l, p)) = l
           /\ Ran(Append(l, p)) = Ran(l) \cup {p}
<1>1. PICK m : m = Append(l, p)
    OBVIOUS
<1>2. IsSeq(m) /\ Len(m) = Len(l) + 1 /\ m[Len(l) + 1] = p
    BY <1>1, AppendedAtEnd
<1>3. \A i \in 1 .. Len(l) : m[i] = l[i]
    BY <1>1, AppendedAtEnd
<1>12. Ran(m) = Ran(l) \cup {p}
    BY <1>1, AppendedAtEnd
<1>4. Len(l) \in Nat
    BY SeqFacts
<1>5. m # <<>>
    BY <1>2, <1>4, SeqFacts
<1>6. Last(m) = p
    BY <1>2 DEF Last
<1>7. PICK f : f = Front(m)
    OBVIOUS
<1>8. IsSeq(f) /\ Len(f) = Len(m) - 1 /\ \A i \in 1 .. Len(m) - 1 : f[i] = m[i]
    BY <1>2, <1>5, <1>7, SeqFront
<1>9. Len(m) - 1 = Len(l)
    BY <1>2, <1>4
<1>10. \A i \in 1 .. Len(f) : f[i] = l[i]
    BY <1>3, <1>8, <1>9
<1>11. f = l
    BY <1>8, <1>9, <1>10, SeqExt
<1> QED BY <1>1, <1>2, <1>5, <1>6, <1>7, <1>11, <1>12

LEMMA EndsDestroy ==
    ASSUME NEW l, IsSeq(l), NEW p
    PROVE  Ends(Append(l, p), <<Destroy(p)>>, l)
<1> DEFINE m == Append(l, p)
           op == Destroy(p)
<1>1. op.do = "destroy" /\ op.p = p
    BY DEF Destroy, Op
<1>2. m # <<>> /\ IsSeq(m) /\ Last(m) = p /\ Front(m) = l
    BY LastOfAppend
<1> HIDE DEF m, op
<1>3. \A x : StackStep([live |-> m, left |-> x], op, [live |-> l, left |-> p])
    BY <1>1, <1>2 DEF StackStep
<1>4. Ends(m, <<op>>, l)
    BY <1>2, <1>3, EndsOne
<1> QED BY <1>4 DEF m, op

\* Blocks of operations that leave the stack as it was.
LEMMA LeadsFlatten ==
    ASSUME NEW l, NEW blocks, IsSeq(l), IsSeq(blocks),
           \A i \in 1 .. Len(blocks) : Ends(l, blocks[i], l)
    PROVE  Leads(l, FlattenSeq(blocks), l)
<1> DEFINE n == Len(blocks)
           Leaves(i, y) == \A x : Path(Stack, [live |-> l, left |-> x], blocks[i],
                                       [live |-> l, left |-> y])
<1>1. n \in Nat
    BY SeqFacts
<1>2. IsSeqs(blocks)
    BY DEF IsSeqs, Ends
<1>3. \A i \in 1 .. n : \E y : Leaves(i, y)
    BY DEF Ends
<1> DEFINE Y == [i \in 1 .. n |-> CHOOSE y : Leaves(i, y)]
<1>4. \A i \in 1 .. n : Leaves(i, Y[i])
    BY <1>3
<1> DEFINE f == FlattenSeq(blocks)
<1>5. ASSUME NEW x PROVE \E y : Path(Stack, [live |-> l, left |-> x], f, [live |-> l, left |-> y])
  <2> DEFINE J == [i \in 1 .. n + 1 |-> [live |-> l, left |-> IF i = 1 THEN x ELSE Y[i - 1]]]
  <2> HIDE DEF n, Y
  <2>1. J[1] = [live |-> l, left |-> x]
    BY <1>1
  <2>2. ASSUME NEW i \in 1 .. n PROVE Path(Stack, J[i], blocks[i], J[i + 1])
    <3>1. i \in 1 .. n + 1 /\ i + 1 \in 1 .. n + 1 /\ i + 1 # 1 /\ (i + 1) - 1 = i
      BY <1>1
    <3>2. J[i + 1] = [live |-> l, left |-> Y[i]]
      BY <3>1
    <3>3. PICK z : J[i] = [live |-> l, left |-> z]
      BY <3>1
    <3> QED BY <1>4, <3>2, <3>3
  <2>6. n + 1 \in 1 .. n + 1
    BY <1>1
  <2>3. PICK z : J[n + 1] = [live |-> l, left |-> z]
    BY <2>6
  <2> HIDE DEF J
  <2>4. \A i \in 1 .. Len(blocks) : Path(Stack, J[i], blocks[i], J[i + 1])
    BY <2>2 DEF n
  <2>5. Path(Stack, J[1], f, J[n + 1])
    BY <1>2, <2>4, PathFlatten DEF n
  <2> QED BY <2>1, <2>3, <2>5
<1>6. IsSeq(f)
    BY <1>2, FlattenIsSeq
<1> HIDE DEF f
<1>7. Leads(l, f, l)
    BY <1>5, <1>6 DEF Leads
<1> QED BY <1>7 DEF f

\* One more operation at the end.
LEMMA LeadsAppend ==
    ASSUME NEW l, NEW m, NEW n, NEW ops, NEW op, Leads(l, ops, m), Leads(m, <<op>>, n)
    PROVE  Leads(l, Append(ops, op), n)
<1>1. Leads(l, ops \o <<op>>, n)
    BY LeadsConcat
<1>2. IsSeq(ops)
    BY DEF Leads
<1>3. Append(ops, op) = ops \o <<op>>
    BY <1>2, SeqAppend
<1> QED BY <1>1, <1>3

LEMMA EndsAppend ==
    ASSUME NEW l, NEW m, NEW n, NEW ops, NEW op, Leads(l, ops, m), Ends(m, <<op>>, n)
    PROVE  Ends(l, Append(ops, op), n)
<1>1. Ends(l, ops \o <<op>>, n)
    BY EndsConcat
<1>2. IsSeq(ops)
    BY DEF Leads
<1>3. Append(ops, op) = ops \o <<op>>
    BY <1>2, SeqAppend
<1> QED BY <1>1, <1>3

LEMMA LeadsTwo ==
    ASSUME NEW l, NEW m, NEW n, NEW a, NEW b, Leads(l, <<a>>, m), Leads(m, <<b>>, n)
    PROVE  Leads(l, <<a, b>>, n)
<1>1. <<a, b>> = Append(<<a>>, b)
    OBVIOUS
<1> QED BY <1>1, LeadsAppend

LEMMA EndsTwo ==
    ASSUME NEW l, NEW m, NEW n, NEW a, NEW b, Leads(l, <<a>>, m), Ends(m, <<b>>, n)
    PROVE  Ends(l, <<a, b>>, n)
<1>1. <<a, b>> = Append(<<a>>, b)
    OBVIOUS
<1> QED BY <1>1, EndsAppend

LEMMA EndsThree ==
    ASSUME NEW l, NEW m, NEW n, NEW a, NEW b, NEW c,
           Leads(l, <<a, b>>, m), Ends(m, <<c>>, n)
    PROVE  Ends(l, <<a, b, c>>, n)
<1>1. <<a, b, c>> = Append(<<a, b>>, c)
    OBVIOUS
<1> QED BY <1>1, EndsAppend

LEMMA EndsFour ==
    ASSUME NEW l, NEW m, NEW n, NEW a, NEW b, NEW c, NEW d,
           Leads(l, <<a, b, c>>, m), Ends(m, <<d>>, n)
    PROVE  Ends(l, <<a, b, c, d>>, n)
<1>1. <<a, b, c, d>> = Append(<<a, b, c>>, d)
    OBVIOUS
<1> QED BY <1>1, EndsAppend

-----------------------------------------------------------------------------
\* What the archive writer has to do.

LEMMA FilesAre ==
    ASSUME archive \in Archives
    PROVE  IsSeqs(Files) /\ IsSeqs(BaseObjects) /\ Encrypted \in BOOLEAN
<1>1. /\ archive.files \in Seq(Seq(Tokens))
      /\ archive.objects \in Seq(Seq(Tokens)) /\ archive.encrypted \in BOOLEAN
    BY ArchivesAssumption
<1>2. ASSUME NEW s \in Seq(Seq(Tokens)) PROVE IsSeqs(s)
  <2>1. IsSeq(s)
    BY SeqFrom
  <2>2. \A i \in 1 .. Len(s) : s[i] \in Seq(Tokens)
    OBVIOUS
  <2>3. \A i \in 1 .. Len(s) : IsSeq(s[i])
    BY <2>2, SeqFrom
  <2> QED BY <2>1, <2>3 DEF IsSeqs
<1> QED BY <1>1, <1>2 DEF Files, BaseObjects, Encrypted

LEMMA FileAt ==
    ASSUME archive \in Archives
    PROVE  /\ \A i \in DOMAIN Files : IsSeq(Files[i]) /\ Len(Files[i]) \in Nat
           /\ \A i \in DOMAIN BaseObjects : IsSeq(BaseObjects[i]) /\ Len(BaseObjects[i]) \in Nat
           /\ DOMAIN Files = 1 .. Len(Files) /\ DOMAIN BaseObjects = 1 .. Len(BaseObjects)
           /\ Len(Files) \in Nat /\ Len(BaseObjects) \in Nat
<1> DEFINE f == Files
           o == BaseObjects
<1>1. IsSeqs(f) /\ IsSeqs(o)
    BY FilesAre
<1> HIDE DEF f, o
<1>2. /\ DOMAIN f = 1 .. Len(f) /\ DOMAIN o = 1 .. Len(o) /\ Len(f) \in Nat /\ Len(o) \in Nat
    BY <1>1, SeqFacts DEF IsSeqs
<1>3. /\ \A i \in DOMAIN f : IsSeq(f[i])
      /\ \A i \in DOMAIN o : IsSeq(o[i])
    BY <1>1, <1>2 DEF IsSeqs
<1>4. /\ \A i \in DOMAIN f : Len(f[i]) \in Nat
      /\ \A i \in DOMAIN o : Len(o[i]) \in Nat
    BY <1>3, SeqFacts
<1> QED BY <1>2, <1>3, <1>4 DEF f, o

LEMMA AddFileEnds ==
    ASSUME archive \in Archives, NEW i \in DOMAIN Files, NEW l, IsSeq(l),
           <<"lzma", 1>> \in Ran(l), <<"std", i>> \notin Ran(l), <<"hash", i>> \notin Ran(l)
    PROVE  Ends(l, add_file(i), l)
<1> DEFINE std == <<"std", i>>
           hash == <<"hash", i>>
           one == Append(l, std)
           two == Append(one, hash)
           first == Construct("StdStreamSource", std, Files[i])
           second == ConstructFrom("HashSource", hash, std, 0)
           copy == IF Files[i] # <<>> THEN <<CopyTo(hash, <<"lzma", 1>>)>> ELSE <<>>
<1>1. IsSeq(one) /\ Ran(one) = Ran(l) \cup {std} /\ Front(one) = l /\ Last(one) = std
    BY LastOfAppend
<1>2. IsSeq(two) /\ Ran(two) = Ran(one) \cup {hash}
    BY <1>1, LastOfAppend
<1>3. std # hash
    OBVIOUS
<1>4. Ends(l, <<first>>, one)
  <2>1. /\ first.do = "construct" /\ first.p = std /\ first.kind = "StdStreamSource"
        /\ first.arg = Files[i] /\ std[1] # "part" /\ first.do \in Constructs
    BY DEF Construct, Constructs
  <2>2. ConstructOK(first)
    BY <2>1, FileAt DEF ConstructOK, ArgumentOK
  <2> HIDE DEF first
  <2> QED BY <2>1, <2>2, EndsConstruct
<1>5. Ends(one, <<second>>, two)
  <2>1. /\ second.do = "construct_from" /\ second.p = hash /\ second.kind = "HashSource"
        /\ second.source = std /\ hash[1] # "part" /\ second.do \in Constructs
    BY DEF ConstructFrom, Constructs
  <2>2. ConstructOK(second)
    BY <2>1 DEF ConstructOK, ArgumentOK
  <2> HIDE DEF second
  <2> QED BY <1>1, <1>3, <2>1, <2>2, EndsConstruct
<1>6. Leads(two, copy, two)
  <2>1. CASE Files[i] # <<>>
    <3> DEFINE op == CopyTo(hash, <<"lzma", 1>>)
    <3>1. op.do = "copy_to" /\ op.p = hash /\ op.sink = <<"lzma", 1>> /\ op.do \in Uses
      BY DEF CopyTo, Uses
    <3> HIDE DEF op
    <3>2. Ends(two, <<op>>, two)
      BY <1>1, <1>2, <3>1, EndsUse
    <3> QED BY <2>1, <3>2, EndsLeads DEF op
  <2>2. CASE Files[i] = <<>>
    BY <1>2, <2>2, LeadsEmpty
  <2> QED BY <2>1, <2>2
<1>7. Ends(two, <<Destroy(hash)>>, one)
    BY <1>1, EndsDestroy
<1>8. Ends(one, <<Destroy(std)>>, l)
    BY EndsDestroy
<1>9. Ends(l, <<Take(hash)>>, l)
  <2>1. Take(hash).do \in Others
    BY DEF Take, Op, Others
  <2> QED BY <2>1, EndsOther
<1> DEFINE a == <<first, second>>
           b == <<Destroy(hash), Destroy(std), Take(hash)>>
<1> HIDE DEF one, two, std, hash, first, second, copy
<1>10. Leads(l, a, two)
    BY <1>4, <1>5, EndsLeads, LeadsTwo
<1>11. Ends(two, b, l)
  <2>1. Leads(two, <<Destroy(hash), Destroy(std)>>, l)
    BY <1>7, <1>8, EndsLeads, LeadsTwo
  <2> QED BY <1>9, <2>1, EndsThree
<1> HIDE DEF a, b
<1>12. Ends(l, (a \o copy) \o b, l)
    BY <1>6, <1>10, <1>11, LeadsConcat, EndsConcat
<1>13. add_file(i) = (a \o copy) \o b
    BY DEF add_file, a, b, copy, first, second, std, hash
<1> QED BY <1>12, <1>13

LEMMA AddObjectEnds ==
    ASSUME archive \in Archives, NEW i \in DOMAIN BaseObjects, NEW l, IsSeq(l),
           <<"lzma", 2>> \in Ran(l), <<"counter2", i>> \notin Ran(l)
    PROVE  Ends(l, add_base_object(i), l)
<1> DEFINE counter2 == <<"counter2", i>>
           one == Append(l, counter2)
           first == ConstructOn("ByteCounterSink", counter2, <<"lzma", 2>>)
           second == SyncWrite(counter2, Data(BaseObjects[i]))
<1>1. IsSeq(one) /\ Ran(one) = Ran(l) \cup {counter2}
    BY LastOfAppend
<1>2. Ends(l, <<first>>, one)
  <2>1. /\ first.do = "construct_on" /\ first.p = counter2 /\ first.kind = "ByteCounterSink"
        /\ first.sink = <<"lzma", 2>> /\ counter2[1] # "part" /\ first.do \in Constructs
    BY DEF ConstructOn, Constructs
  <2>2. ConstructOK(first)
    BY <2>1 DEF ConstructOK, SinkKinds
  <2> HIDE DEF first
  <2> QED BY <2>1, <2>2, EndsConstruct
<1>3. Ends(one, <<second>>, one)
  <2>1. /\ second.do = "sync_write" /\ second.p = counter2
        /\ second.segment = Data(BaseObjects[i]) /\ second.do \in Uses
    BY DEF SyncWrite, Uses
  <2>2. IsSegment(second.segment)
    BY <2>1, FileAt, Segment
  <2> HIDE DEF second
  <2> QED BY <1>1, <2>1, <2>2, EndsUse
<1>4. Ends(one, <<Destroy(counter2)>>, l)
    BY EndsDestroy
<1>5. Ends(l, <<Take(counter2)>>, l)
  <2>1. Take(counter2).do \in Others
    BY DEF Take, Op, Others
  <2> QED BY <2>1, EndsOther
<1> DEFINE all == <<first, second, Destroy(counter2), Take(counter2)>>
<1> HIDE DEF one, counter2, first, second
<1>6. Leads(l, <<first, second>>, one)
    BY <1>2, <1>3, EndsLeads, LeadsTwo
<1>7. Leads(l, <<first, second, Destroy(counter2)>>, l)
    BY <1>4, <1>6, EndsThree, EndsLeads
<1>8. Ends(l, all, l)
    BY <1>5, <1>7, EndsFour
<1>9. add_base_object(i) = all
    BY DEF add_base_object, all, first, second, counter2
<1> QED BY <1>8, <1>9

LEMMA LeadsBlocks ==
    ASSUME NEW l, IsSeq(l), NEW n \in Nat, NEW f, f = [i \in 1 .. n |-> f[i]],
           \A i \in 1 .. n : Ends(l, f[i], l)
    PROVE  Leads(l, FlattenSeq(f), l)
<1>1. IsSeq(f) /\ Len(f) = n
    BY SeqMake
<1> QED BY <1>1, LeadsFlatten

\* The objects a section has on top of those below it.
SectionStack(l, n, cipher) ==
    LET counted == Append(l, <<"counter", n>>)
    IN  Append(IF cipher THEN Append(counted, <<"crypto", n>>) ELSE counted, <<"lzma", n>>)

LEMMA SectionFacts ==
    ASSUME NEW l, IsSeq(l), NEW n, NEW cipher \in BOOLEAN
    PROVE  /\ IsSeq(SectionStack(l, n, cipher))
           /\ Ran(SectionStack(l, n, cipher)) =
                Ran(l) \cup {<<"counter", n>>, <<"lzma", n>>}
                       \cup (IF cipher THEN {<<"crypto", n>>} ELSE {})
<1> DEFINE counted == Append(l, <<"counter", n>>)
           ciphered == Append(counted, <<"crypto", n>>)
           below == IF cipher THEN ciphered ELSE counted
           top == Append(below, <<"lzma", n>>)
<1>1. IsSeq(counted) /\ Ran(counted) = Ran(l) \cup {<<"counter", n>>}
    BY LastOfAppend
<1> HIDE DEF counted
<1>2. IsSeq(ciphered) /\ Ran(ciphered) = Ran(counted) \cup {<<"crypto", n>>}
    BY <1>1, LastOfAppend
<1> HIDE DEF ciphered
<1>3. IsSeq(below)
    BY <1>1, <1>2
<1>4. Ran(below) = Ran(l) \cup {<<"counter", n>>} \cup (IF cipher THEN {<<"crypto", n>>} ELSE {})
    BY <1>1, <1>2
<1> HIDE DEF below
<1>5. IsSeq(top) /\ Ran(top) = Ran(below) \cup {<<"lzma", n>>}
    BY <1>3, LastOfAppend
<1>6. SectionStack(l, n, cipher) = top
    BY DEF SectionStack, top, below, ciphered, counted
<1> QED BY <1>4, <1>5, <1>6

LEMMA SectionLeads ==
    ASSUME NEW l, IsSeq(l), NEW n, NEW cipher \in BOOLEAN, NEW body, overall \in Ran(l),
           <<"counter", n>> \notin Ran(l), <<"crypto", n>> \notin Ran(l), <<"lzma", n>> \notin Ran(l),
           Leads(SectionStack(l, n, cipher), body, SectionStack(l, n, cipher))
    PROVE  Leads(l, Section(n, cipher, body), l)
<1> DEFINE counter == <<"counter", n>>
           cryptosink == <<"crypto", n>>
           lzmasink == <<"lzma", n>>
           counted == Append(l, counter)
           ciphered == Append(counted, cryptosink)
           below == IF cipher THEN ciphered ELSE counted
           under == IF cipher THEN cryptosink ELSE counter
           top == Append(below, lzmasink)
           first == ConstructOn("ByteCounterSink", counter, overall)
           second == ConstructOn("CryptoSink", cryptosink, counter)
           third == ConstructOn("LzmaSink", lzmasink, under)
           a == <<first>>
           b == IF cipher THEN <<second>> ELSE <<>>
           c == <<third>>
           d == <<Destroy(lzmasink)>>
           e == IF cipher THEN <<Destroy(cryptosink)>> ELSE <<>>
           f == <<Destroy(counter)>>
<1>0. counter # cryptosink /\ counter # lzmasink /\ cryptosink # lzmasink
    OBVIOUS
<1>1. IsSeq(counted) /\ Ran(counted) = Ran(l) \cup {counter}
    BY LastOfAppend
<1>2. Ends(l, a, counted)
  <2>1. /\ first.do = "construct_on" /\ first.p = counter /\ first.kind = "ByteCounterSink"
        /\ first.sink = overall /\ counter[1] # "part" /\ first.do \in Constructs
    BY DEF ConstructOn, Constructs
  <2>2. ConstructOK(first)
    BY <2>1 DEF ConstructOK, SinkKinds
  <2> HIDE DEF first
  <2> QED BY <2>1, <2>2, EndsConstruct
<1>3. IsSeq(ciphered) /\ Ran(ciphered) = Ran(counted) \cup {cryptosink}
    BY <1>1, LastOfAppend
<1>4. Ends(counted, <<second>>, ciphered)
  <2>1. /\ second.do = "construct_on" /\ second.p = cryptosink /\ second.kind = "CryptoSink"
        /\ second.sink = counter /\ cryptosink[1] # "part" /\ second.do \in Constructs
    BY DEF ConstructOn, Constructs
  <2>2. ConstructOK(second)
    BY <2>1 DEF ConstructOK, SinkKinds
  <2> HIDE DEF second
  <2> QED BY <1>0, <1>1, <2>1, <2>2, EndsConstruct
<1>5. Ends(ciphered, <<Destroy(cryptosink)>>, counted)
    BY <1>1, EndsDestroy
<1>6. Ends(counted, f, l)
    BY EndsDestroy
<1>13. SectionStack(l, n, cipher) = top
    BY DEF SectionStack, top, below, ciphered, counted
<1>14. Section(n, cipher, body) = (((((a \o b) \o c) \o body) \o d) \o e) \o f
    BY DEF Section, a, b, c, d, e, f, first, second, third, under, counter, cryptosink, lzmasink
<1> HIDE DEF counted, ciphered, second, first
<1>7. /\ IsSeq(below) /\ under \in Ran(below) /\ lzmasink \notin Ran(below)
      /\ Leads(counted, b, below) /\ Leads(below, e, counted)
  <2>1. CASE cipher = TRUE
    BY <1>0, <1>1, <1>3, <1>4, <1>5, <2>1, EndsLeads
  <2>2. CASE cipher = FALSE
    BY <1>0, <1>1, <2>2, LeadsEmpty
  <2> QED BY <2>1, <2>2
<1> HIDE DEF below, under, b, e
<1>8. Ends(below, c, top)
  <2>1. /\ third.do = "construct_on" /\ third.p = lzmasink /\ third.kind = "LzmaSink"
        /\ third.sink = under /\ lzmasink[1] # "part" /\ third.do \in Constructs
    BY DEF ConstructOn, Constructs
  <2>2. ConstructOK(third)
    BY <2>1 DEF ConstructOK, SinkKinds
  <2> HIDE DEF third
  <2> QED BY <1>7, <2>1, <2>2, EndsConstruct
<1>9. Ends(top, d, below)
    BY <1>7, EndsDestroy
<1> HIDE DEF a, c, d, f, top, third
<1>10. Leads(l, (a \o b) \o c, top)
    BY <1>2, <1>7, <1>8, EndsLeads, LeadsConcat
<1>11. Leads(l, ((a \o b) \o c) \o body, top)
    BY <1>10, <1>13, LeadsConcat
<1>15. Leads(l, (((a \o b) \o c) \o body) \o d, below)
    BY <1>9, <1>11, EndsLeads, LeadsConcat
<1>16. Leads(l, ((((a \o b) \o c) \o body) \o d) \o e, counted)
    BY <1>7, <1>15, LeadsConcat
<1>12. Leads(l, (((((a \o b) \o c) \o body) \o d) \o e) \o f, l)
    BY <1>6, <1>16, EndsLeads, LeadsConcat
<1> QED BY <1>12, <1>14

\* The objects every section is on top of.
Below == Append(Append(<<>>, file), overall)

LEMMA BelowFacts == IsSeq(Below) /\ Ran(Below) = {file, overall}
<1> DEFINE one == Append(<<>>, file)
           two == Append(one, overall)
<1>1. IsSeq(one) /\ Ran(one) = Ran(<<>>) \cup {file}
    BY SeqEmpty, LastOfAppend
<1>2. Ran(<<>>) = {}
    BY SeqEmpty DEF Ran
<1> HIDE DEF one
<1>3. IsSeq(two) /\ Ran(two) = Ran(one) \cup {overall}
    BY <1>1, LastOfAppend
<1>4. Below = two
    BY DEF Below, two, one
<1> QED BY <1>1, <1>2, <1>3, <1>4

LEMMA SectionBelow ==
    ASSUME NEW n \in {1, 2, 3}, NEW cipher \in BOOLEAN, NEW body,
           Leads(SectionStack(Below, n, cipher), body, SectionStack(Below, n, cipher))
    PROVE  Leads(Below, Section(n, cipher, body), Below)
<1>1. IsSeq(Below) /\ overall \in Ran(Below)
    BY BelowFacts
<1>2. <<"counter", n>> \notin Ran(Below) /\ <<"crypto", n>> \notin Ran(Below)
    BY BelowFacts DEF file, overall
<1>3. <<"lzma", n>> \notin Ran(Below)
    BY BelowFacts DEF file, overall
<1> QED BY <1>1, <1>2, <1>3, SectionLeads

LEMMA AddFilesLeads ==
    ASSUME archive \in Archives
    PROVE  Leads(Below, add_files, Below)
<1> DEFINE l == SectionStack(Below, 1, Encrypted)
           f == [i \in DOMAIN Files |-> add_file(i)]
           n == Len(Files)
<1>1. Encrypted \in BOOLEAN
    BY FilesAre
<1>2. /\ IsSeq(l)
      /\ Ran(l) \subseteq {file, overall, <<"counter", 1>>, <<"lzma", 1>>, <<"crypto", 1>>}
      /\ <<"lzma", 1>> \in Ran(l)
    BY <1>1, BelowFacts, SectionFacts
<1> HIDE DEF l
<1>3. ASSUME NEW i \in DOMAIN Files PROVE Ends(l, add_file(i), l)
  <2>1. <<"std", i>> \notin Ran(l) /\ <<"hash", i>> \notin Ran(l)
    BY <1>2 DEF file, overall
  <2> QED BY <1>2, <2>1, AddFileEnds
<1>4. DOMAIN Files = 1 .. n /\ n \in Nat
    BY FileAt
<1> HIDE DEF n
<1>5. f = [i \in 1 .. n |-> f[i]] /\ \A i \in 1 .. n : Ends(l, f[i], l)
    BY <1>3, <1>4
<1> HIDE DEF f
<1>6. Leads(l, FlattenSeq(f), l)
    BY <1>2, <1>4, <1>5, LeadsBlocks
<1>7. Leads(Below, Section(1, Encrypted, FlattenSeq(f)), Below)
    BY <1>1, <1>6, SectionBelow DEF l
<1> QED BY <1>7 DEF add_files, f

LEMMA AddObjectsLeads ==
    ASSUME archive \in Archives
    PROVE  Leads(Below, add_base_objects, Below)
<1> DEFINE l == SectionStack(Below, 2, Encrypted)
           f == [i \in DOMAIN BaseObjects |-> add_base_object(i)]
           n == Len(BaseObjects)
<1>1. Encrypted \in BOOLEAN
    BY FilesAre
<1>2. /\ IsSeq(l)
      /\ Ran(l) \subseteq {file, overall, <<"counter", 2>>, <<"lzma", 2>>, <<"crypto", 2>>}
      /\ <<"lzma", 2>> \in Ran(l)
    BY <1>1, BelowFacts, SectionFacts
<1> HIDE DEF l
<1>3. ASSUME NEW i \in DOMAIN BaseObjects PROVE Ends(l, add_base_object(i), l)
  <2>1. <<"counter2", i>> \notin Ran(l)
    BY <1>2 DEF file, overall
  <2> QED BY <1>2, <2>1, AddObjectEnds
<1>4. DOMAIN BaseObjects = 1 .. n /\ n \in Nat
    BY FileAt
<1> HIDE DEF n
<1>5. f = [i \in 1 .. n |-> f[i]] /\ \A i \in 1 .. n : Ends(l, f[i], l)
    BY <1>3, <1>4
<1> HIDE DEF f
<1>6. Leads(l, FlattenSeq(f), l)
    BY <1>2, <1>4, <1>5, LeadsBlocks
<1>7. Leads(Below, Section(2, Encrypted, FlattenSeq(f)), Below)
    BY <1>1, <1>6, SectionBelow DEF l
<1> QED BY <1>7 DEF add_base_objects, f

LEMMA TakeEnds ==
    ASSUME NEW l, IsSeq(l), NEW p
    PROVE  Ends(l, <<Take(p)>>, l)
<1>1. Take(p).do \in Others
    BY DEF Take, Op, Others
<1> QED BY <1>1, EndsOther

LEMMA EndLeads ==
    ASSUME NEW l, IsSeq(l), NEW result \in {"committed", "restored"}
    PROVE  Leads(l, EndWith(result), l)
<1> DEFINE op == [do |-> "end", p |-> None, result |-> result]
<1>1. op.do = "end" /\ op.result = result
    OBVIOUS
<1>4. EndWith(result) = <<op>>
    BY DEF EndWith
<1> HIDE DEF op
<1>2. \A x : StackStep([live |-> l, left |-> x], op, [live |-> l, left |-> None])
    BY <1>1 DEF StackStep
<1>3. Ends(l, <<op>>, l)
    BY <1>2, EndsOne
<1> QED BY <1>3, <1>4, EndsLeads

LEMMA SyncWriteEnds ==
    ASSUME NEW l, IsSeq(l), NEW p \in Ran(l), NEW d, IsSeq(d)
    PROVE  Ends(l, <<SyncWrite(p, Data(d))>>, l)
<1> DEFINE op == SyncWrite(p, Data(d))
<1>1. op.do = "sync_write" /\ op.p = p /\ op.segment = Data(d) /\ op.do \in Uses
    BY DEF SyncWrite, Uses
<1>2. IsSegment(op.segment)
    BY <1>1, Segment
<1> HIDE DEF op
<1>3. Ends(l, <<op>>, l)
    BY <1>1, <1>2, EndsUse
<1> QED BY <1>3 DEF op

LEMMA ManifestLeads ==
    Leads(Below, add_version_manifest, Below)
<1> DEFINE l == SectionStack(Below, 3, FALSE)
           a == <<Take(<<"counter", 2>>)>>
           body == <<SyncWrite(<<"lzma", 3>>, Data(<<<<"manifest">>>>))>>
           b == Section(3, FALSE, body)
           c == <<Take(<<"counter", 3>>), SyncWrite(overall, Data(<<<<"length">>>>))>>
<1>1. IsSeq(Below) /\ overall \in Ran(Below)
    BY BelowFacts
<1>2. IsSeq(l) /\ <<"lzma", 3>> \in Ran(l)
    BY <1>1, SectionFacts
<1>3. IsSeq(<<<<"manifest">>>>) /\ IsSeq(<<<<"length">>>>)
    BY SeqSingle
<1>4. Leads(Below, a, Below)
    BY <1>1, TakeEnds, EndsLeads
<1>5. Leads(l, body, l)
    BY <1>2, <1>3, SyncWriteEnds, EndsLeads
<1> HIDE DEF body
<1>6. Leads(Below, b, Below)
    BY <1>5, SectionBelow
<1>7. Leads(Below, c, Below)
    BY <1>1, <1>3, TakeEnds, SyncWriteEnds, EndsLeads, LeadsTwo
<1> HIDE DEF a, b, c
<1>8. Leads(Below, (a \o b) \o c, Below)
    BY <1>4, <1>6, <1>7, LeadsConcat
<1>9. add_version_manifest = (a \o b) \o c
    BY DEF add_version_manifest, a, b, c, body
<1> QED BY <1>8, <1>9

\* The archive writer leads from no objects to none.
LEMMA WriterLeads ==
    ASSUME archive \in Archives
    PROVE  Leads(<<>>, process, <<>>)
<1> DEFINE one == Append(<<>>, file)
           first == Construct("StdStreamSink", file, 0)
           second == ConstructOn("HashSink", overall, file)
           a == <<first, second>>
           b == <<Destroy(overall), Take(overall),
                  SyncWrite(file, Data(<<<<"digest">>>>)), Destroy(file)>>
           c == EndWith("committed")
<1>1. IsSeq(<<>>) /\ Ran(<<>>) = {}
    BY SeqEmpty DEF Ran
<1>20. IsSeq(one) /\ Ran(one) = Ran(<<>>) \cup {file}
    BY <1>1, LastOfAppend
<1>2. IsSeq(one) /\ Ran(one) = {file}
    BY <1>1, <1>20
<1>3. Ends(<<>>, <<first>>, one)
  <2>1. /\ first.do = "construct" /\ first.p = file /\ first.kind = "StdStreamSink"
        /\ file[1] # "part" /\ first.do \in Constructs
    BY DEF Construct, Constructs, file
  <2>2. ConstructOK(first)
    BY <2>1 DEF ConstructOK, ArgumentOK
  <2> HIDE DEF first
  <2> QED BY <1>1, <2>1, <2>2, EndsConstruct
<1>4. Ends(one, <<second>>, Below)
  <2>1. /\ second.do = "construct_on" /\ second.p = overall /\ second.kind = "HashSink"
        /\ second.sink = file /\ overall[1] # "part" /\ second.do \in Constructs
    BY DEF ConstructOn, Constructs, overall
  <2>2. ConstructOK(second)
    BY <2>1 DEF ConstructOK, SinkKinds
  <2>3. overall \notin Ran(one)
    BY <1>2 DEF file, overall
  <2>4. Below = Append(one, second.p)
    BY <2>1 DEF Below
  <2> HIDE DEF first, second, one
  <2>5. Ends(one, <<second>>, Append(one, second.p))
    BY <1>2, <2>1, <2>2, <2>3, EndsConstruct
  <2> QED BY <2>4, <2>5
<1>5. Leads(<<>>, a, Below)
  <2> HIDE DEF first, second, one
  <2> QED BY <1>3, <1>4, EndsLeads, LeadsTwo
<1>6. Leads(Below, create_and_save, Below)
  <2>1. IsSeq(Below) /\ overall \in Ran(Below) /\ IsSeq(<<<<"keys">>>>)
    BY BelowFacts, SeqSingle
  <2>2. Leads(Below, <<SyncWrite(overall, Data(<<<<"keys">>>>))>>, Below)
    BY <2>1, SyncWriteEnds, EndsLeads
  <2>3. Leads(Below, <<>>, Below)
    BY <2>1, LeadsEmpty
  <2> QED BY <2>2, <2>3 DEF create_and_save
<1>7. Leads(Below, b, <<>>)
  <2> DEFINE w == SyncWrite(file, Data(<<<<"digest">>>>))
             t == Take(overall)
             d == Destroy(overall)
             e == Destroy(file)
  <2>1. Leads(Below, <<d>>, one)
    BY <1>2, EndsDestroy, EndsLeads DEF Below
  <2>2. Leads(one, <<t>>, one)
    BY <1>2, TakeEnds, EndsLeads
  <2>3. Ends(one, <<w>>, one)
    BY <1>2, SeqSingle, SyncWriteEnds
  <2>4. Ends(one, <<e>>, <<>>)
    BY <1>1, EndsDestroy
  <2> HIDE DEF w, t, d, e, one
  <2>5. Leads(Below, <<d, t>>, one)
    BY <2>1, <2>2, LeadsTwo
  <2>6. Leads(Below, <<d, t, w>>, one)
    BY <2>3, <2>5, EndsThree, EndsLeads
  <2>7. Leads(Below, <<d, t, w, e>>, <<>>)
    BY <2>4, <2>6, EndsFour, EndsLeads
  <2> QED BY <2>7 DEF d, t, w, e
<1>8. Leads(<<>>, c, <<>>)
  <2>1. IsSeq(<<>>)
    BY <1>1
  <2> QED BY <2>1, EndLeads
<1> HIDE DEF a, b, c
<1>9. Leads(<<>>, a \o create_and_save, Below)
    BY <1>5, <1>6, LeadsConcat
<1>10. Leads(<<>>, (a \o create_and_save) \o add_files, Below)
    BY <1>9, AddFilesLeads, LeadsConcat
<1>11. Leads(<<>>, ((a \o create_and_save) \o add_files) \o add_base_objects, Below)
    BY <1>10, AddObjectsLeads, LeadsConcat
<1>12. Leads(<<>>, (((a \o create_and_save) \o add_files) \o add_base_objects)
                   \o add_version_manifest, Below)
    BY <1>11, ManifestLeads, LeadsConcat
<1>13. Leads(<<>>, ((((a \o create_and_save) \o add_files) \o add_base_objects)
                    \o add_version_manifest) \o b, <<>>)
    BY <1>7, <1>12, LeadsConcat
<1>14. Leads(<<>>, (((((a \o create_and_save) \o add_files) \o add_base_objects)
                     \o add_version_manifest) \o b) \o c, <<>>)
    BY <1>8, <1>13, LeadsConcat
<1> QED BY <1>14 DEF process, a, b, c, first, second

-----------------------------------------------------------------------------
\* What the archive reader has to do.

\* The parts of the archive are sequences.
LEMMA CompressedSeq ==
    ASSUME NEW d, IsSeq(d)
    PROVE  IsSeq(Compressed(d))
BY EncodedSeq, SeqAppend DEF Compressed

LEMMA CipheredSeq ==
    ASSUME NEW a, NEW d, IsSeq(d)
    PROVE  IsSeq(Ciphered(a, d))
<1>1. IsSeq(Append(Encoded("CryptoSink", d), EndMark("CryptoSink")))
    BY EncodedSeq, SeqAppend
<1> QED BY <1>1 DEF Ciphered

LEMMA LayoutSeqs ==
    ASSUME archive \in Archives
    PROVE  /\ IsSeq(Layout[archive].keys) /\ IsSeq(Layout[archive].files)
           /\ IsSeq(Layout[archive].objects) /\ IsSeq(Layout[archive].manifest)
<1> DEFINE data == FlattenSeq(archive.files)
           list == FlattenSeq(archive.objects)
           k == IF archive.encrypted THEN <<<<"keys">>>> ELSE <<>>
           f == IF data = <<>> THEN <<>> ELSE Ciphered(archive, Compressed(data))
           o == IF archive.objects = <<>> THEN <<>> ELSE Ciphered(archive, Compressed(list))
           m == Compressed(<<<<"manifest">>>>)
<1>1. IsSeq(data) /\ IsSeq(list)
    BY FilesAre, FlattenIsSeq DEF Files, BaseObjects
<1>2. IsSeq(<<>>) /\ IsSeq(<<<<"keys">>>>) /\ IsSeq(<<<<"manifest">>>>)
    BY SeqEmpty, SeqSingle
<1> HIDE DEF data, list
<1>3. IsSeq(k)
    BY <1>2
<1>4. IsSeq(f)
    BY <1>1, <1>2, CompressedSeq, CipheredSeq
<1>5. IsSeq(o)
    BY <1>1, <1>2, CompressedSeq, CipheredSeq
<1>6. IsSeq(m)
    BY <1>2, CompressedSeq
<1>7. Layout[archive] = [keys |-> k, files |-> f, objects |-> o, manifest |-> m]
    BY DEF Layout, data, list
<1> HIDE DEF k, f, o, m
<1> QED BY <1>3, <1>4, <1>5, <1>6, <1>7

\* Where the parts are.
LEMMA OffsetsAre ==
    ASSUME archive \in Archives
    PROVE  /\ IsSeq(Image[archive]) /\ Len(Image[archive]) \in Nat
           /\ manifest_size \in Nat /\ manifest_offset \in Nat
           /\ base_objects_offset \in Nat /\ file_data_start \in Nat
           /\ manifest_offset - base_objects_offset \in Nat
           /\ base_objects_offset - file_data_start \in Nat
<1> DEFINE k == Layout[archive].keys
           f == Layout[archive].files
           o == Layout[archive].objects
           m == Layout[archive].manifest
           z == <<<<"length">>>>
           b == BeforeDigest[archive]
           i == Image[archive]
<1>1. IsSeq(k) /\ IsSeq(f) /\ IsSeq(o) /\ IsSeq(m) /\ IsSeq(z) /\ Len(z) = 1
    BY LayoutSeqs, SeqSingle
<1>2. b = (((k \o f) \o o) \o m) \o z /\ i = Append(b, <<"digest">>)
    BY DEF BeforeDigest, Image
<1>8. /\ manifest_size = Len(m) /\ manifest_offset = Len(i) - 2 - Len(m)
      /\ base_objects_offset = Len(i) - 2 - Len(m) - Len(o)
      /\ file_data_start = Len(k)
    BY DEF manifest_size, manifest_offset, base_objects_offset, file_data_start
<1> HIDE DEF k, f, o, m, z, b, i
<1>3. Len(k) \in Nat /\ Len(f) \in Nat /\ Len(o) \in Nat /\ Len(m) \in Nat
    BY <1>1, SeqFacts
<1> DEFINE c1 == k \o f
           c2 == c1 \o o
           c3 == c2 \o m
           c4 == c3 \o z
<1>4. IsSeq(c1) /\ Len(c1) = Len(k) + Len(f)
    BY <1>1, SeqConcat
<1> HIDE DEF c1
<1>5. IsSeq(c2) /\ Len(c2) = Len(c1) + Len(o)
    BY <1>1, <1>4, SeqConcat
<1> HIDE DEF c2
<1>6. IsSeq(c3) /\ Len(c3) = Len(c2) + Len(m)
    BY <1>1, <1>5, SeqConcat
<1> HIDE DEF c3
<1>7. IsSeq(c4) /\ Len(c4) = Len(c3) + 1
    BY <1>1, <1>6, SeqConcat
<1>9. b = c4
    BY <1>2 DEF c4, c3, c2, c1
<1> HIDE DEF c4
<1>10. IsSeq(i) /\ Len(i) = Len(c4) + 1
    BY <1>2, <1>7, <1>9, SeqAppend
<1>11. Len(i) = Len(k) + Len(f) + Len(o) + Len(m) + 2
    BY <1>3, <1>4, <1>5, <1>6, <1>7, <1>10
<1> HIDE DEF i
<1>12. /\ Len(i) - 2 - Len(m) = Len(k) + Len(f) + Len(o)
       /\ Len(i) - 2 - Len(m) - Len(o) = Len(k) + Len(f)
    BY <1>3, <1>11
<1>13. /\ manifest_size \in Nat /\ manifest_offset \in Nat /\ base_objects_offset \in Nat
       /\ file_data_start \in Nat /\ Len(i) \in Nat
    BY <1>3, <1>8, <1>11, <1>12
<1>14. manifest_offset - base_objects_offset = Len(o) /\ base_objects_offset - file_data_start = Len(f)
    BY <1>3, <1>8, <1>12
<1> QED BY <1>3, <1>10, <1>13, <1>14 DEF i

\* The objects of a reader.
StackOf(cipher) ==
    LET below == Append(Append(<<>>, source), bounded)
    IN  Append(IF cipher THEN Append(below, crypto) ELSE below, lzma)

LEMMA StackOfEncrypted == ReaderStack = StackOf(Encrypted)
BY DEF ReaderStack, StackOf

LEMMA ReaderBelow ==
    LET one == Append(<<>>, source)
        two == Append(one, bounded)
    IN  /\ IsSeq(<<>>) /\ Ran(<<>>) = {} /\ IsSeq(one) /\ Ran(one) = {source}
        /\ IsSeq(two) /\ Ran(two) = {source, bounded}
<1> DEFINE one == Append(<<>>, source)
           two == Append(one, bounded)
<1>1. IsSeq(<<>>) /\ Ran(<<>>) = {}
    BY SeqEmpty DEF Ran
<1>20. IsSeq(one) /\ Ran(one) = Ran(<<>>) \cup {source}
    BY <1>1, LastOfAppend
<1>2. IsSeq(one) /\ Ran(one) = {source}
    BY <1>1, <1>20
<1> HIDE DEF one
<1>3. IsSeq(two) /\ Ran(two) = {source, bounded}
    BY <1>2, LastOfAppend
<1> QED BY <1>1, <1>2, <1>3 DEF one

LEMMA StackOfFacts ==
    ASSUME NEW cipher \in BOOLEAN
    PROVE  /\ IsSeq(StackOf(cipher)) /\ lzma \in Ran(StackOf(cipher))
           /\ Ran(StackOf(cipher)) \subseteq {source, bounded, crypto, lzma}
<1> DEFINE two == Append(Append(<<>>, source), bounded)
           three == Append(two, crypto)
           below == IF cipher THEN three ELSE two
           all == Append(below, lzma)
<1>1. IsSeq(two) /\ Ran(two) = {source, bounded}
    BY ReaderBelow
<1> HIDE DEF two
<1>2. IsSeq(three) /\ Ran(three) = {source, bounded, crypto}
    BY <1>1, LastOfAppend
<1> HIDE DEF three
<1>3. IsSeq(below) /\ Ran(below) \subseteq {source, bounded, crypto}
    BY <1>1, <1>2
<1> HIDE DEF below
<1>4. IsSeq(all) /\ Ran(all) = Ran(below) \cup {lzma}
    BY <1>3, LastOfAppend
<1>5. StackOf(cipher) = all
    BY DEF StackOf, all, below, three, two
<1> QED BY <1>3, <1>4, <1>5

\* A processor on top of another one to read from.
LEMMA EndsFrom ==
    ASSUME NEW l, IsSeq(l), NEW kind, NEW p, NEW from \in Ran(l), NEW arg, p \notin Ran(l),
           kind # "StdStreamSource", ArgumentOK(kind, arg), p[1] # "part"
    PROVE  Ends(l, <<ConstructFrom(kind, p, from, arg)>>, Append(l, p))
<1> DEFINE op == ConstructFrom(kind, p, from, arg)
<1>1. /\ op.do = "construct_from" /\ op.p = p /\ op.kind = kind /\ op.source = from
      /\ op.arg = arg /\ op.do \in Constructs
    BY DEF ConstructFrom, Constructs
<1>2. ConstructOK(op)
    BY <1>1 DEF ConstructOK
<1> HIDE DEF op
<1>3. Ends(l, <<op>>, Append(l, op.p))
    BY <1>1, <1>2, EndsConstruct
<1> QED BY <1>1, <1>3 DEF op

LEMMA OpenLeads ==
    ASSUME archive \in Archives, NEW first \in Nat, NEW last, last - first \in Nat,
           NEW cipher \in BOOLEAN
    PROVE  Leads(<<>>, OpenReader(first, last, cipher), StackOf(cipher))
<1> DEFINE one == Append(<<>>, source)
           two == Append(one, bounded)
           three == Append(two, crypto)
           below == IF cipher THEN three ELSE two
           under == IF cipher THEN crypto ELSE bounded
           image == Image[archive]
           data == SubSeq(image, first + 1, Len(image))
           p == Op("pipeline", None)
           s == Construct("StdStreamSource", source, data)
           b == ConstructFrom("BoundedSource", bounded, source, last - first)
           x == ConstructFrom("CryptoSource", crypto, bounded, 0)
           z == ConstructFrom("LzmaSource", lzma, under, 0)
           a1 == <<p, s, b>>
           a2 == IF cipher THEN <<x>> ELSE <<>>
           a3 == <<z>>
<1>0. OpenReader(first, last, cipher) = (a1 \o a2) \o a3 /\ StackOf(cipher) = Append(below, lzma)
    BY DEF OpenReader, StackOf, a1, a2, a3, p, s, b, x, z, data, image, under
<1>1. /\ IsSeq(<<>>) /\ Ran(<<>>) = {} /\ IsSeq(one) /\ Ran(one) = {source}
      /\ IsSeq(two) /\ Ran(two) = {source, bounded}
    BY ReaderBelow
<1>2. Ends(<<>>, <<p>>, <<>>)
  <2>1. p.do \in Others
    BY DEF Op, Others
  <2> HIDE DEF p
  <2> QED BY <1>1, <2>1, EndsOther
<1>3. Ends(<<>>, <<s>>, one)
  <2>1. IsSeq(image) /\ Len(image) \in Nat
    BY OffsetsAre
  <2> HIDE DEF image
  <2>2. IsSeq(data)
    BY <2>1, SeqSub
  <2> HIDE DEF data
  <2>3. /\ s.do = "construct" /\ s.p = source /\ s.kind = "StdStreamSource" /\ s.arg = data
        /\ source[1] # "part" /\ s.do \in Constructs
    BY DEF Construct, Constructs, source
  <2>4. ConstructOK(s)
    BY <2>2, <2>3 DEF ConstructOK, ArgumentOK
  <2> HIDE DEF s
  <2> QED BY <1>1, <2>3, <2>4, EndsConstruct
<1> HIDE DEF data, image, p, s
<1>4. Ends(one, <<b>>, two)
  <2>1. bounded \notin Ran(one) /\ bounded[1] # "part" /\ source \in Ran(one)
    BY <1>1 DEF bounded, source
  <2>2. ArgumentOK("BoundedSource", last - first)
    BY DEF ArgumentOK
  <2> HIDE DEF one
  <2> QED BY <1>1, <2>1, <2>2, EndsFrom
<1>5. Leads(<<>>, a1, two)
  <2> HIDE DEF b, one, two
  <2>1. Leads(<<>>, <<p, s>>, one)
    BY <1>2, <1>3, EndsLeads, LeadsTwo
  <2> QED BY <1>4, <2>1, EndsThree, EndsLeads
<1>9. crypto \notin Ran(two) /\ crypto[1] # "part" /\ bounded \in Ran(two)
    BY <1>1 DEF bounded, source, crypto
<1> HIDE DEF two
<1>6. Ends(two, <<x>>, three)
  <2>2. ArgumentOK("CryptoSource", 0)
    BY DEF ArgumentOK
  <2> QED BY <1>1, <1>9, <2>2, EndsFrom
<1>7. Leads(two, a2, below)
    BY <1>1, <1>6, LeadsEmpty, EndsLeads
<1>8. Leads(below, a3, Append(below, lzma))
  <2>1. IsSeq(three) /\ Ran(three) = Ran(two) \cup {crypto}
    BY <1>1, LastOfAppend
  <2> HIDE DEF three
  <2>2. IsSeq(below) /\ under \in Ran(below) /\ Ran(below) \subseteq {source, bounded, crypto}
    BY <1>1, <1>9, <2>1
  <2> HIDE DEF below, under
  <2>3. lzma \notin Ran(below) /\ lzma[1] # "part"
    BY <2>2 DEF bounded, source, crypto, lzma
  <2>4. ArgumentOK("LzmaSource", 0)
    BY DEF ArgumentOK
  <2> QED BY <2>2, <2>3, <2>4, EndsFrom, EndsLeads
<1> HIDE DEF a1, a2, a3, below, three
<1> QED BY <1>0, <1>5, <1>7, <1>8, LeadsConcat

LEMMA CloseLeads ==
    ASSUME NEW cipher \in BOOLEAN
    PROVE  Leads(StackOf(cipher), CloseReader(cipher), <<>>)
<1> DEFINE one == Append(<<>>, source)
           two == Append(one, bounded)
           three == Append(two, crypto)
           below == IF cipher THEN three ELSE two
           a1 == <<Destroy(lzma)>>
           a2 == IF cipher THEN <<Destroy(crypto)>> ELSE <<>>
           a3 == <<Destroy(bounded), Destroy(source)>>
<1>0. CloseReader(cipher) = (a1 \o a2) \o a3 /\ StackOf(cipher) = Append(below, lzma)
    BY DEF CloseReader, StackOf
<1>1. IsSeq(<<>>) /\ IsSeq(one) /\ IsSeq(two)
    BY ReaderBelow
<1>2. Leads(two, a3, <<>>)
  <2>1. Leads(two, <<Destroy(bounded)>>, one) /\ Leads(one, <<Destroy(source)>>, <<>>)
    BY <1>1, EndsDestroy, EndsLeads
  <2> HIDE DEF two, one
  <2> QED BY <2>1, LeadsTwo
<1> HIDE DEF two, one
<1>3. Ends(three, <<Destroy(crypto)>>, two)
    BY <1>1, EndsDestroy
<1>4. IsSeq(three)
    BY <1>1, SeqAppend
<1> HIDE DEF three
<1>5. Leads(below, a2, two)
    BY <1>1, <1>3, LeadsEmpty, EndsLeads
<1>6. IsSeq(below)
    BY <1>1, <1>4
<1> HIDE DEF below
<1>7. Leads(Append(below, lzma), a1, below)
    BY <1>6, EndsDestroy, EndsLeads
<1> HIDE DEF a1, a2, a3
<1> QED BY <1>0, <1>2, <1>5, <1>7, LeadsConcat

LEMMA SyncReadEnds ==
    ASSUME NEW l, IsSeq(l), NEW p \in Ran(l), NEW n, NEW name
    PROVE  Ends(l, <<SyncRead(p, n, name)>>, l)
<1> DEFINE op == SyncRead(p, n, name)
<1>1. op.do = "sync_read" /\ op.p = p /\ op.do \in Uses
    BY DEF SyncRead, Uses
<1> HIDE DEF op
<1>2. Ends(l, <<op>>, l)
    BY <1>1, EndsUse
<1> QED BY <1>2 DEF op

LEMMA ReadManifestLeads ==
    ASSUME archive \in Archives
    PROVE  Leads(<<>>, read_manifest, <<>>)
<1> DEFINE first == manifest_offset
           last == manifest_offset + manifest_size
           open == OpenReader(first, last, FALSE)
           read == <<SyncRead(lzma, 1, <<"manifest", 0>>)>>
           close == CloseReader(FALSE)
           l == StackOf(FALSE)
<1>1. first \in Nat /\ manifest_size \in Nat
    BY OffsetsAre
<1>2. last - first = manifest_size
    BY <1>1
<1>8. read_manifest = (open \o read) \o close
    BY DEF read_manifest
<1> HIDE DEF first, last
<1>3. Leads(<<>>, open, l)
    BY <1>1, <1>2, OpenLeads
<1>4. IsSeq(l) /\ lzma \in Ran(l)
    BY StackOfFacts
<1>5. Leads(l, close, <<>>)
    BY CloseLeads
<1> HIDE DEF l
<1>6. Leads(l, read, l)
    BY <1>4, SyncReadEnds, EndsLeads
<1> HIDE DEF open, read, close
<1> QED BY <1>3, <1>5, <1>6, <1>8, LeadsConcat

LEMMA ReadObjectEnds ==
    ASSUME archive \in Archives, NEW i \in DOMAIN BaseObjects, NEW l, IsSeq(l),
           lzma \in Ran(l), <<"bounded2", i>> \notin Ran(l)
    PROVE  Ends(l, read_base_object(i), l)
<1> DEFINE bounded2 == <<"bounded2", i>>
           n == Len(BaseObjects[i])
           one == Append(l, bounded2)
           a == ConstructFrom("BoundedSource", bounded2, lzma, n)
           b == SyncRead(bounded2, n, <<"object", i>>)
           c == Destroy(bounded2)
<1>1. IsSeq(one) /\ Ran(one) = Ran(l) \cup {bounded2}
    BY LastOfAppend
<1>2. n \in Nat /\ bounded2[1] # "part"
    BY FileAt
<1>3. ArgumentOK("BoundedSource", n)
    BY <1>2 DEF ArgumentOK
<1>7. read_base_object(i) = <<a, b, c>>
    BY DEF read_base_object
<1> HIDE DEF n
<1>4. Ends(l, <<a>>, one)
    BY <1>2, <1>3, EndsFrom
<1>5. Ends(one, <<b>>, one)
    BY <1>1, SyncReadEnds
<1>6. Ends(one, <<c>>, l)
    BY EndsDestroy
<1> HIDE DEF a, b, c, one
<1>8. Leads(l, <<a, b>>, one)
    BY <1>4, <1>5, EndsLeads, LeadsTwo
<1> QED BY <1>6, <1>7, <1>8, EndsThree

LEMMA ReadObjectsLeads ==
    ASSUME archive \in Archives
    PROVE  Leads(<<>>, read_base_objects, <<>>)
<1> DEFINE open == OpenReader(base_objects_offset, manifest_offset, Encrypted)
           f == [i \in DOMAIN BaseObjects |-> read_base_object(i)]
           read == FlattenSeq(f)
           close == CloseReader(Encrypted)
           l == StackOf(Encrypted)
           n == Len(BaseObjects)
<1>1. /\ base_objects_offset \in Nat /\ manifest_offset - base_objects_offset \in Nat
      /\ Encrypted \in BOOLEAN
    BY OffsetsAre, FilesAre
<1>2. read_base_objects = (open \o read) \o close
    BY DEF read_base_objects
<1>3. Leads(<<>>, open, l) /\ Leads(l, close, <<>>)
    BY <1>1, OpenLeads, CloseLeads
<1>4. IsSeq(l) /\ lzma \in Ran(l) /\ Ran(l) \subseteq {source, bounded, crypto, lzma}
    BY <1>1, StackOfFacts
<1> HIDE DEF l, open, close
<1>5. ASSUME NEW i \in DOMAIN BaseObjects PROVE Ends(l, read_base_object(i), l)
  <2>1. <<"bounded2", i>> \notin Ran(l)
    BY <1>4 DEF source, bounded, crypto, lzma
  <2> QED BY <1>4, <2>1, ReadObjectEnds
<1>6. DOMAIN BaseObjects = 1 .. n /\ n \in Nat
    BY FileAt
<1> HIDE DEF n
<1>7. f = [i \in 1 .. n |-> f[i]] /\ \A i \in 1 .. n : Ends(l, f[i], l)
    BY <1>5, <1>6
<1> HIDE DEF f
<1>8. Leads(l, read, l)
    BY <1>4, <1>6, <1>7, LeadsBlocks
<1> HIDE DEF read
<1> QED BY <1>2, <1>3, <1>8, LeadsConcat

\* The list of the parts, each of which is a block of its own.
LEMMA PartsLead ==
    ASSUME archive \in Archives
    PROVE  Leads(ReaderStack, [i \in DOMAIN Files |-> Op("part", <<"part", i>>)], ReaderStack)
<1> DEFINE l == ReaderStack
           n == Len(Files)
           ops == [i \in DOMAIN Files |-> Op("part", <<"part", i>>)]
           s == [live |-> l, left |-> None]
<1>1. DOMAIN Files = 1 .. n /\ n \in Nat
    BY FileAt
<1>2. IsSeq(l)
    BY FilesAre, StackOfEncrypted, StackOfFacts
<1>3. \A i \in 1 .. n : ops[i].do = "part" /\ ops[i].p = <<"part", i>>
    BY <1>1 DEF Op
<1>9. \A i \in 1 .. n : IsPart(<<"part", i>>)
    BY <1>1 DEF IsPart
<1>4. ops = [i \in 1 .. n |-> ops[i]]
    BY <1>1
<1> HIDE DEF n, ops
<1>5. IsSeq(ops) /\ Len(ops) = n
    BY <1>1, <1>4, SeqMake
<1>6. ASSUME NEW x PROVE \E y : Path(Stack, [live |-> l, left |-> x], ops, [live |-> l, left |-> y])
  <2> DEFINE c == [k \in 1 .. n + 1 |-> [live |-> l, left |-> IF k = 1 THEN x ELSE None]]
  <2>1. 1 \in 1 .. n + 1 /\ n + 1 \in 1 .. n + 1
    BY <1>1
  <2>2. c[1] = [live |-> l, left |-> x]
    BY <2>1
  <2>3. PICK y : c[n + 1] = [live |-> l, left |-> y]
    BY <2>1
  <2>4. ASSUME NEW k \in 1 .. n PROVE Step(Stack, c[k], ops[k], c[k + 1])
    <3>1. k \in 1 .. n + 1 /\ k + 1 \in 1 .. n + 1 /\ k + 1 # 1
      BY <1>1
    <3>2. PICK w : c[k] = [live |-> l, left |-> w]
      BY <3>1
    <3>3. c[k + 1] = [live |-> l, left |-> None]
      BY <3>1
    <3>4. ops[k].do = "part" /\ ops[k].p[2] = k /\ IsPart(<<"part", k>>)
      BY <1>3, <1>9
    <3> HIDE DEF c
    <3> QED BY <3>2, <3>3, <3>4 DEF Step, Stack, StackStep
  <2> HIDE DEF c
  <2>5. Path(Stack, [live |-> l, left |-> x], ops, [live |-> l, left |-> y])
    BY <1>5, <2>2, <2>3, <2>4 DEF Path
  <2> QED BY <2>5
<1> HIDE DEF l
<1>7. Leads(l, ops, l)
    BY <1>2, <1>5, <1>6 DEF Leads
<1> QED BY <1>7 DEF ops, l

\* The archive reader leads from no objects to those of its last pipeline.
LEMMA ReaderLeads ==
    ASSUME archive \in Archives
    PROVE  Leads(<<>>, restore_version, ReaderStack)
<1> DEFINE open == OpenReader(file_data_start, base_objects_offset, Encrypted)
           parts == [i \in DOMAIN Files |-> Op("part", <<"part", i>>)]
           op == Op("choose", None)
           choose == <<op>>
<1>1. /\ file_data_start \in Nat /\ base_objects_offset - file_data_start \in Nat
      /\ Encrypted \in BOOLEAN
    BY OffsetsAre, FilesAre
<1>2. Leads(<<>>, open, ReaderStack)
    BY <1>1, OpenLeads, StackOfEncrypted
<1>3. Leads(ReaderStack, parts, ReaderStack)
    BY PartsLead
<1>4. read_everything = open \o parts
    BY DEF read_everything
<1> HIDE DEF open, parts
<1>5. Leads(<<>>, read_everything, ReaderStack)
    BY <1>2, <1>3, <1>4, LeadsConcat
<1>6. Leads(<<>>, choose, <<>>)
  <2>1. op.do \in Others
    BY DEF Op, Others
  <2> HIDE DEF op
  <2> QED BY <2>1, SeqEmpty, EndsOther, EndsLeads
<1>7. restore_version = (((read_manifest \o read_base_objects) \o choose) \o read_manifest)
                        \o read_everything
    BY DEF restore_version
<1> HIDE DEF choose
<1>8. Leads(<<>>, read_manifest \o read_base_objects, <<>>)
    BY ReadManifestLeads, ReadObjectsLeads, LeadsConcat
<1>9. Leads(<<>>, (read_manifest \o read_base_objects) \o choose, <<>>)
    BY <1>6, <1>8, LeadsConcat
<1>10. Leads(<<>>, ((read_manifest \o read_base_objects) \o choose) \o read_manifest, <<>>)
    BY <1>9, ReadManifestLeads, LeadsConcat
<1> QED BY <1>5, <1>7, <1>10, LeadsConcat

\* A part that is skipped over.
LEMMA DiscardLeads ==
    ASSUME archive \in Archives, skip \in Nat, NEW i
    PROVE  Leads(ReaderStack, discard_rest(i), ReaderStack)
<1> DEFINE l == ReaderStack
           temp == <<"temp", i>>
           null == <<"null", i>>
           one == Append(l, temp)
           two == Append(one, null)
           a == ConstructFrom("BoundedSource", temp, lzma, skip)
           b == Construct("NullSink", null, 0)
           c == CopyTo(temp, null)
           d == Destroy(null)
           e == Destroy(temp)
<1>1. /\ IsSeq(l) /\ lzma \in Ran(l) /\ Ran(l) \subseteq {source, bounded, crypto, lzma}
    BY FilesAre, StackOfEncrypted, StackOfFacts
<1>10. discard_rest(i) = IF skip = 0 THEN <<>> ELSE <<a, b, c, d, e>>
    BY DEF discard_rest
<1> HIDE DEF l
<1>2. temp \notin Ran(l) /\ null \notin Ran(l) /\ temp[1] # "part" /\ null[1] # "part" /\ temp # null
    BY <1>1 DEF source, bounded, crypto, lzma
<1> HIDE DEF temp, null
<1>3. IsSeq(one) /\ Ran(one) = Ran(l) \cup {temp}
    BY <1>1, LastOfAppend
<1>4. Ends(l, <<a>>, one)
  <2>1. ArgumentOK("BoundedSource", skip)
    BY DEF ArgumentOK
  <2> QED BY <1>1, <1>2, <2>1, EndsFrom
<1> HIDE DEF one
<1>5. IsSeq(two) /\ Ran(two) = Ran(one) \cup {null}
    BY <1>3, LastOfAppend
<1>6. Ends(one, <<b>>, two)
  <2>1. /\ b.do = "construct" /\ b.p = null /\ b.kind = "NullSink" /\ b.do \in Constructs
    BY DEF Construct, Constructs
  <2>2. ConstructOK(b)
    BY <1>2, <2>1 DEF ConstructOK, ArgumentOK
  <2> HIDE DEF b
  <2> QED BY <1>2, <1>3, <2>1, <2>2, EndsConstruct
<1>7. Ends(two, <<d>>, one) 
    BY <1>3, EndsDestroy
<1> HIDE DEF two
<1>8. Ends(two, <<c>>, two)
  <2>1. c.do = "copy_to" /\ c.p = temp /\ c.sink = null /\ c.do \in Uses
    BY DEF CopyTo, Uses
  <2> HIDE DEF c
  <2> QED BY <1>3, <1>5, <2>1, EndsUse
<1>9. Ends(one, <<e>>, l)
    BY <1>1, EndsDestroy DEF one
<1> HIDE DEF a, b, c, d, e
<1>11. Leads(l, <<a, b>>, two)
    BY <1>4, <1>6, EndsLeads, LeadsTwo
<1>12. Leads(l, <<a, b, c>>, two)
    BY <1>8, <1>11, EndsThree, EndsLeads
<1>13. Leads(l, <<a, b, c, d>>, one)
    BY <1>7, <1>12, EndsFour, EndsLeads
<1>14. Leads(l, <<a, b, c, d, e>>, l)
  <2>1. <<a, b, c, d, e>> = Append(<<a, b, c, d>>, e)
    OBVIOUS
  <2> QED BY <1>9, <1>13, <2>1, LeadsAppend, EndsLeads
<1>15. Leads(l, <<>>, l)
    BY <1>1, LeadsEmpty
<1> QED BY <1>10, <1>14, <1>15 DEF l

\* Operations after which it does not matter what was destroyed.
Completes(l, ops, m) ==
    /\ IsSeq(l) /\ IsSeq(ops) /\ IsSeq(m)
    /\ \A x : Path(Stack, [live |-> l, left |-> x], ops, [live |-> m, left |-> None])

LEMMA CompletesConcat ==
    ASSUME NEW l, NEW m, NEW n, NEW a, NEW b, Leads(l, a, m), Completes(m, b, n)
    PROVE  Completes(l, a \o b, n)
<1>1. IsSeq(a) /\ IsSeq(b) /\ IsSeq(l) /\ IsSeq(n)
    BY DEF Leads, Completes
<1>2. ASSUME NEW x
      PROVE  /\ IsSeq(a \o b)
             /\ Path(Stack, [live |-> l, left |-> x], a \o b, [live |-> n, left |-> None])
  <2>1. PICK z : Path(Stack, [live |-> l, left |-> x], a, [live |-> m, left |-> z])
    BY DEF Leads
  <2>2. Path(Stack, [live |-> m, left |-> z], b, [live |-> n, left |-> None])
    BY DEF Completes
  <2> QED BY <1>1, <2>1, <2>2, PathConcat
<1> DEFINE c == a \o b
<1>3. IsSeq(c) /\ \A x : Path(Stack, [live |-> l, left |-> x], c, [live |-> n, left |-> None])
    BY <1>2
<1> HIDE DEF c
<1>4. Completes(l, c, n)
    BY <1>1, <1>3 DEF Completes
<1> QED BY <1>4 DEF c

\* A part that is restored; its source is destroyed last.
LEMMA RestoreCompletes ==
    ASSUME archive \in Archives, NEW i \in DOMAIN Files
    PROVE  Completes(ReaderStack, restore(i), ReaderStack)
<1> DEFINE l == ReaderStack
           part == <<"part", i>>
           sink == <<"sink", i>>
           hash_sink == <<"hash_sink", i>>
           one == Append(l, part)
           two == Append(one, sink)
           three == Append(two, hash_sink)
           a == ConstructFrom("BoundedSource", part, lzma, Len(Files[i]))
           b == Construct("StdStreamSink", sink, 0)
           c == ConstructOn("HashSink", hash_sink, sink)
           d == CopyTo(part, hash_sink)
           e == Destroy(hash_sink)
           f == Destroy(sink)
           g == Destroy(part)
           h == Op("check_skip", part)
<1>1. /\ IsSeq(l) /\ lzma \in Ran(l) /\ Ran(l) \subseteq {source, bounded, crypto, lzma}
    BY FilesAre, StackOfEncrypted, StackOfFacts
<1>2. restore(i) = <<a, b, c, d, e, f, g, h>>
    BY DEF restore
<1>3. part \notin Ran(l) /\ sink \notin Ran(l) /\ hash_sink \notin Ran(l)
    BY <1>1 DEF source, bounded, crypto, lzma
<1>4. /\ part # sink /\ part # hash_sink /\ sink # hash_sink /\ sink[1] # "part"
      /\ hash_sink[1] # "part" /\ part[1] = "part" /\ part[2] = i /\ IsPart(part)
    BY DEF IsPart
<1>22. ASSUME NEW x PROVE StackStep([live |-> l, left |-> part], h, [live |-> l, left |-> None])
  <2>1. h.do = "check_skip" /\ h.p = part
    BY DEF Op
  <2>2. part = <<"part", part[2]>>
    OBVIOUS
  <2> HIDE DEF h, part
  <2> QED BY <1>4, <2>1, <2>2 DEF StackStep
<1> HIDE DEF l, part, sink, hash_sink
<1>5. IsSeq(one) /\ Ran(one) = Ran(l) \cup {part}
    BY <1>1, LastOfAppend
<1>6. Ends(l, <<a>>, one)
  <2>1. /\ a.do = "construct_from" /\ a.p = part /\ a.kind = "BoundedSource" /\ a.source = lzma
        /\ a.arg = Len(Files[i]) /\ a.do \in Constructs
    BY DEF ConstructFrom, Constructs
  <2>2. Len(Files[i]) \in Nat
    BY FileAt
  <2>3. ConstructOK(a)
    BY <1>4, <2>1, <2>2 DEF ConstructOK, ArgumentOK
  <2> HIDE DEF a
  <2> QED BY <1>1, <1>3, <2>1, <2>3, EndsConstruct
<1>7. Ends(one, <<g>>, l)
    BY <1>1, EndsDestroy
<1> HIDE DEF one
<1>8. IsSeq(two) /\ Ran(two) = Ran(one) \cup {sink}
    BY <1>5, LastOfAppend
<1>9. Ends(one, <<b>>, two)
  <2>1. /\ b.do = "construct" /\ b.p = sink /\ b.kind = "StdStreamSink" /\ b.do \in Constructs
    BY DEF Construct, Constructs
  <2>2. ConstructOK(b)
    BY <1>4, <2>1 DEF ConstructOK, ArgumentOK
  <2> HIDE DEF b
  <2> QED BY <1>3, <1>4, <1>5, <2>1, <2>2, EndsConstruct
<1>10. Ends(two, <<f>>, one)
    BY <1>5, EndsDestroy
<1> HIDE DEF two
<1>11. IsSeq(three) /\ Ran(three) = Ran(two) \cup {hash_sink}
    BY <1>8, LastOfAppend
<1>12. Ends(two, <<c>>, three)
  <2>1. /\ c.do = "construct_on" /\ c.p = hash_sink /\ c.kind = "HashSink" /\ c.sink = sink
        /\ c.do \in Constructs
    BY DEF ConstructOn, Constructs
  <2>2. ConstructOK(c)
    BY <1>4, <2>1 DEF ConstructOK, SinkKinds
  <2> HIDE DEF c
  <2> QED BY <1>3, <1>4, <1>5, <1>8, <2>1, <2>2, EndsConstruct
<1>13. Ends(three, <<e>>, two)
    BY <1>8, EndsDestroy
<1> HIDE DEF three
<1>14. Ends(three, <<d>>, three)
  <2>1. d.do = "copy_to" /\ d.p = part /\ d.sink = hash_sink /\ d.do \in Uses
    BY DEF CopyTo, Uses
  <2> HIDE DEF d
  <2> QED BY <1>5, <1>8, <1>11, <2>1, EndsUse
<1>15. Leads(l, <<a, b>>, two)
  <2> HIDE DEF a, b
  <2> QED BY <1>6, <1>9, EndsLeads, LeadsTwo
<1>16. Leads(l, <<a, b, c>>, three)
  <2> HIDE DEF a, b, c
  <2> QED BY <1>12, <1>15, EndsThree, EndsLeads
<1>17. Leads(l, <<a, b, c, d>>, three)
  <2> HIDE DEF a, b, c, d
  <2> QED BY <1>14, <1>16, EndsFour, EndsLeads
<1>18. Leads(l, <<a, b, c, d, e>>, two)
  <2> HIDE DEF a, b, c, d, e
  <2>1. <<a, b, c, d, e>> = Append(<<a, b, c, d>>, e)
    OBVIOUS
  <2> QED BY <1>13, <1>17, <2>1, LeadsAppend, EndsLeads
<1>19. Leads(l, <<a, b, c, d, e, f>>, one)
  <2> HIDE DEF a, b, c, d, e, f
  <2>1. <<a, b, c, d, e, f>> = Append(<<a, b, c, d, e>>, f)
    OBVIOUS
  <2> QED BY <1>10, <1>18, <2>1, LeadsAppend, EndsLeads
<1>20. IsSeq(one) /\ one # <<>> /\ Last(one) = part /\ Front(one) = l
    BY <1>1, LastOfAppend DEF one
<1>21. \A x : StackStep([live |-> one, left |-> x], g, [live |-> l, left |-> part])
  <2>1. g.do = "destroy" /\ g.p = part
    BY DEF Destroy, Op
  <2> HIDE DEF g
  <2> QED BY <1>20, <2>1 DEF StackStep
<1> HIDE DEF a, b, c, d, e, f, g, h
<1>23. Completes(one, <<g, h>>, l)
  <2>1. ASSUME NEW x PROVE Path(Stack, [live |-> one, left |-> x], <<g, h>>,
                                [live |-> l, left |-> None]) /\ IsSeq(<<g, h>>)
    BY <1>21, <1>22, PathTwo DEF Step, Stack
  <2> DEFINE gh == <<g, h>>
  <2> HIDE DEF gh
  <2>2. Completes(one, gh, l)
    BY <1>1, <1>20, <2>1 DEF Completes, gh
  <2> QED BY <2>2 DEF gh
<1> DEFINE six == <<a, b, c, d, e, f>>
           two2 == <<g, h>>
<1>24. <<a, b, c, d, e, f, g, h>> = six \o two2
    OBVIOUS
<1> HIDE DEF six, two2
<1>25. Completes(l, six \o two2, l)
    BY <1>19, <1>23, CompletesConcat DEF six, two2
<1> QED BY <1>2, <1>24, <1>25 DEF l

-----------------------------------------------------------------------------
\* The steps of a command, and the theorems.

Command == archive \in Archives /\ skip \in Nat
           /\ outcome \in {"running", "committed", "restored", "exception"}

TypeInv == PipelineOK /\ PathOK /\ Command

LEMMA NothingDestroyed == ~IsPart(None)
BY DEF IsPart, None

\* An operation that only concerns the command.
LEMMA PlainStep ==
    ASSUME PipelineOK, PathOK, program # <<>>, program[1].do \in Others \cup {"end"},
           Continue, UNCHANGED <<live, proc, queue, results, archive>>
    PROVE  PipelineOK' /\ PathOK'
<1>1. After([live |-> live, left |-> None])
    BY OtherNow, EndNow
<1>2. PathOK'
    BY <1>1, Continues, NothingDestroyed DEF Continue
<1> QED BY <1>2, Unchanged

LEMMA TakeKeeps ==
    ASSUME TypeInv, TakeResult
    PROVE  TypeInv'
<1>1. program # <<>> /\ program[1].do \in Others \cup {"end"} /\ Continue
    BY DEF TakeResult, Doing, Others
<1>2. UNCHANGED <<live, proc, queue, results, archive, skip, outcome>>
    BY DEF TakeResult
<1>3. PipelineOK' /\ PathOK'
    BY <1>1, <1>2, PlainStep DEF TypeInv
<1> QED BY <1>2, <1>3 DEF TypeInv, Command

LEMMA EndKeeps ==
    ASSUME TypeInv, End
    PROVE  TypeInv'
<1>1. program # <<>> /\ program[1].do \in Others \cup {"end"} /\ Continue
    BY DEF End, Doing, Others
<1>2. UNCHANGED <<live, proc, queue, results, archive, skip>>
    BY DEF End
<1>3. PipelineOK' /\ PathOK'
    BY <1>1, <1>2, PlainStep DEF TypeInv
<1>4. outcome' \in {"running", "committed", "restored", "exception"}
    BY EndNow DEF End, Doing, TypeInv
<1> QED BY <1>2, <1>3, <1>4 DEF TypeInv, Command

LEMMA PartKeeps ==
    ASSUME TypeInv, Part
    PROVE  TypeInv'
<1> DEFINE i == Argument[2]
           n == Len(Files[i])
           t == [live |-> live, left |-> None]
<1>1. /\ program # <<>> /\ program[1].do = "part"
      /\ UNCHANGED <<live, proc, queue, results, archive, outcome>>
    BY DEF Part, Doing
<1>2. live = ReaderStack /\ IsPart(<<"part", i>>) /\ After(t)
    BY <1>1, PartNow DEF TypeInv
<1>3. i \in DOMAIN Files
    BY <1>2 DEF IsPart
<1>4. \/ Expand(discard_rest(i) \o restore(i)) /\ skip' = 0
      \/ Continue /\ skip' = skip + n
    BY DEF Part
<1> HIDE DEF i
<1>5. archive \in Archives /\ skip \in Nat
    BY DEF TypeInv, Command
<1>6. n \in Nat
    BY <1>3, <1>5, FileAt
<1> HIDE DEF n
<1>7. skip' \in Nat
    BY <1>4, <1>5, <1>6
<1>8. PipelineOK'
    BY <1>1, Unchanged DEF TypeInv
<1>9. PathOK'
  <2>1. CASE Continue
    BY <1>1, <1>2, <2>1, Continues, NothingDestroyed DEF Continue
  <2>2. CASE Expand(discard_rest(i) \o restore(i))
    <3> DEFINE ops == discard_rest(i) \o restore(i)
    <3>1. Completes(live, ops, live)
      BY <1>2, <1>3, <1>5, DiscardLeads, RestoreCompletes, CompletesConcat
    <3>2. program' = ops \o Tail(program)
      BY <2>2 DEF Expand
    <3> HIDE DEF ops
    <3>3. IsSeq(ops) /\ Path(Stack, t, ops, t)
      BY <3>1 DEF Completes
    <3> HIDE DEF t
    <3> QED BY <1>1, <1>2, <3>2, <3>3, Expands DEF t
  <2> QED BY <1>4, <2>1, <2>2
<1> QED BY <1>1, <1>5, <1>7, <1>8, <1>9 DEF TypeInv, Command

\* What is left to do is replaced as a whole.
LEMMA Replaced ==
    ASSUME NEW ops, NEW l, l = live', NEW m, Leads(l, ops, m), program' = ops, archive' = archive
    PROVE  PathOK'
<1>1. PICK y : Path(Stack, [live |-> l, left |-> None], ops, [live |-> m, left |-> y])
    BY DEF Leads
<1>2. PICK s, a, u : /\ s = [live |-> l, left |-> None] /\ a = ops
                     /\ Path(Stack, s, a, u)
    BY <1>1
<1>3. Path(Stack, s, a, u)'
    BY <1>2, PathSame
<1>4. IsSeq(ops)
    BY DEF Leads
<1>5. s = [live |-> live', left |-> None] /\ a = program' /\ IsSeq(program')
    BY <1>2, <1>4
<1>6. ~IsPart(None)'
    BY DEF IsPart, None
<1> QED BY <1>3, <1>5, <1>6 DEF PathOK

LEMMA ChooseKeeps ==
    ASSUME TypeInv, ChooseFiles
    PROVE  TypeInv'
<1>1. program # <<>> /\ program[1].do \in Others \cup {"end"}
    BY DEF ChooseFiles, Doing, Others
<1>2. UNCHANGED <<live, proc, queue, results, archive, skip, outcome>>
    BY DEF ChooseFiles
<1>3. CASE Continue
    BY <1>1, <1>2, <1>3, PlainStep DEF TypeInv, Command
<1>4. CASE program' = EndWith("restored")
  <2>1. PipelineOK'
    BY <1>2, Unchanged DEF TypeInv
  <2>2. IsSeq(live)
    BY DEF TypeInv, PipelineOK, LiveOK
  <2>3. Leads(live, EndWith("restored"), live)
    BY <2>2, EndLeads
  <2>4. PathOK'
    BY <1>2, <1>4, <2>3, Replaced
  <2> QED BY <1>2, <2>1, <2>4 DEF TypeInv, Command
<1> QED BY <1>3, <1>4 DEF ChooseFiles

LEMMA CheckSkipKeeps ==
    ASSUME TypeInv, CheckSkip
    PROVE  TypeInv'
<1> DEFINE i == Argument[2]
           n == Len(Files[i])
           x == results[Argument]
           ops == CloseReader(Encrypted) \o EndWith("restored")
<1>1. /\ program # <<>> /\ program[1].do = "check_skip"
      /\ UNCHANGED <<live, proc, queue, results, archive, outcome>>
    BY DEF CheckSkip, Doing
<1>2. /\ live = ReaderStack /\ After([live |-> live, left |-> None])
      /\ IsPart(Argument) /\ Argument \in DOMAIN results
    BY <1>1, PartNow DEF TypeInv
<1>3. skip' = n - x /\ (program' = ops \/ Continue)
    BY DEF CheckSkip
<1>4. archive \in Archives
    BY DEF TypeInv, Command
<1>5. x \in 0 .. n
    BY <1>2 DEF TypeInv, PipelineOK, PartsOK
<1>6. i \in DOMAIN Files
    BY <1>2 DEF IsPart
<1>7. n \in Nat
    BY <1>4, <1>6, FileAt
<1> HIDE DEF n, x
<1>8. skip' \in Nat
    BY <1>3, <1>5, <1>7
<1>9. PipelineOK'
    BY <1>1, Unchanged DEF TypeInv
<1>10. PathOK'
  <2>1. CASE Continue
    BY <1>1, <1>2, <2>1, Continues, NothingDestroyed DEF Continue
  <2>2. CASE program' = ops
    <3>1. Encrypted \in BOOLEAN /\ IsSeq(<<>>)
      BY <1>4, FilesAre, SeqEmpty
    <3>2. Leads(ReaderStack, CloseReader(Encrypted), <<>>)
      BY <3>1, CloseLeads, StackOfEncrypted
    <3>3. Leads(<<>>, EndWith("restored"), <<>>)
      BY <3>1, EndLeads
    <3>4. Leads(live, ops, <<>>)
      BY <1>2, <3>2, <3>3, LeadsConcat
    <3> HIDE DEF ops
    <3> QED BY <1>1, <2>2, <3>4, Replaced
  <2> QED BY <1>3, <2>1, <2>2
<1> QED BY <1>1, <1>4, <1>8, <1>9, <1>10 DEF TypeInv, Command

LEMMA StepKeeps ==
    ASSUME TypeInv, [Next]_vars
    PROVE  TypeInv'
<1>1. CASE MainThread /\ UNCHANGED commandVars
  <2>1. archive' = archive /\ skip' = skip /\ outcome' = outcome
    BY <1>1 DEF commandVars
  <2>2. PipelineOK' /\ PathOK'
    BY <1>1, <2>1, MainThreadKeeps DEF TypeInv
  <2> QED BY <2>1, <2>2 DEF TypeInv, Command
<1>2. CASE WorkerStep
  <2>1. archive' = archive /\ skip' = skip /\ outcome' = outcome
    BY <1>2 DEF WorkerStep, commandVars
  <2>2. PICK p \in DOMAIN proc : Worker(p)
    BY <1>2 DEF WorkerStep, Workers
  <2>3. PipelineOK'
    BY <2>1, <2>2, WorkerOK DEF TypeInv
  <2>4. program' = program /\ live' = live /\ DOMAIN results \subseteq DOMAIN results'
    BY <2>2 DEF Worker, BeginWork, EndWork, Read, ReadFlush, Write, Fail, LoseData, With
  <2>5. PathOK'
    BY <2>1, <2>4, PathStays DEF TypeInv
  <2> QED BY <2>1, <2>3, <2>5 DEF TypeInv, Command
<1>3. CASE UNCHANGED vars
  <2>1. /\ archive' = archive /\ skip' = skip /\ outcome' = outcome /\ live' = live
        /\ proc' = proc /\ queue' = queue /\ results' = results /\ program' = program
    BY <1>3 DEF vars, pipelineVars, commandVars
  <2>2. PipelineOK'
    BY <2>1, Unchanged DEF TypeInv
  <2>3. PathOK'
    BY <2>1, PathStays DEF TypeInv
  <2> QED BY <2>1, <2>2, <2>3 DEF TypeInv, Command
<1> QED BY <1>1, <1>2, <1>3, ChooseKeeps, PartKeeps, CheckSkipKeeps, TakeKeeps, EndKeeps
        DEF Next, MainStep

LEMMA StartOK ==
    ASSUME archive \in Archives, InitPipeline, skip = 0, outcome = "running",
           NEW m, Leads(<<>>, program, m)
    PROVE  TypeInv
<1>1. /\ live = <<>> /\ DOMAIN proc = {} /\ DOMAIN queue = {} /\ DOMAIN results = {}
    BY DEF InitPipeline
<1>2. IsSeq(live) /\ Len(live) = 0
    BY <1>1, SeqEmpty
<1>3. Ran(live) = {}
    BY <1>2 DEF Ran
<1>4. \A i \in 1 .. Len(live) : FALSE
    BY <1>2
<1>5. LiveOK
    BY <1>1, <1>2, <1>3, <1>4 DEF LiveOK, Distinct
<1>6. SourcesOlder
    BY <1>4 DEF SourcesOlder
<1>7. QueuesOK /\ ProcsOK /\ PartsOK
    BY <1>1 DEF QueuesOK, ProcsOK, PartsOK
<1>8. PathOK
  <2>1. PICK y : Path(Stack, [live |-> <<>>, left |-> None], program, [live |-> m, left |-> y])
    BY DEF Leads
  <2>2. IsSeq(program)
    BY DEF Leads
  <2> QED BY <1>1, <2>1, <2>2, NothingDestroyed DEF PathOK
<1> QED BY <1>5, <1>6, <1>7, <1>8 DEF TypeInv, Command, PipelineOK

LEMMA TypeInvImplies ==
    ASSUME TypeInv
    PROVE  TypeOK
<1>1. LiveOK /\ QueuesOK /\ ProcsOK /\ SourcesOlder /\ Command
    BY DEF TypeInv, PipelineOK
<1>2. IsSeq(live) /\ DOMAIN live = 1 .. Len(live)
    BY <1>1, SeqFacts DEF LiveOK
<1>3. DOMAIN proc = {live[i] : i \in DOMAIN live}
    BY <1>1, <1>2 DEF LiveOK, Ran
<1>4. ASSUME NEW p \in DOMAIN proc
      PROVE  proc[p].state \in States /\ proc[p].source_queue \in DOMAIN queue \cup {NoQueue}
  <2>1. PICK i \in 1 .. Len(live) : p = live[i]
    BY <1>2, <1>3
  <2>2. Source(p) = NoQueue \/ Source(p) \in DOMAIN queue
    BY <1>1, <2>1 DEF SourcesOlder
  <2> QED BY <1>1, <2>2 DEF ProcsOK, Source
<1>5. \A q \in DOMAIN queue : Len(queue[q].items) <= capacity
    BY <1>1 DEF QueuesOK, QueueShape
<1> QED BY <1>1, <1>3, <1>4, <1>5 DEF TypeOK, Command

\* ArchiveWriter, whatever it has to write, with filters that throw and disks
\* that fill up: every processor is one of the Stream objects of the main
\* thread and reads from a queue that is still there, no queue exceeds its
\* capacity, and every operation of process finds the objects it needs.
THEOREM WriterTypes == WriterSpec => []TypeOK
<1>1. Init(process) => TypeInv
  <2> SUFFICES ASSUME Init(process) PROVE TypeInv
    OBVIOUS
  <2>1. archive \in Archives /\ InitPipeline /\ program = process /\ skip = 0 /\ outcome = "running"
    BY DEF Init
  <2>2. Leads(<<>>, program, <<>>)
    BY <2>1, WriterLeads
  <2> QED BY <2>1, <2>2, StartOK
<1>2. TypeInv /\ [Next]_vars => TypeInv'
    BY StepKeeps
<1>3. TypeInv => TypeOK
    BY TypeInvImplies
<1> QED BY <1>1, <1>2, <1>3, PTL DEF WriterSpec

\* The same of ArchiveReaders that get the manifest, the objects and any of
\* the files out of an archive: a skip is never negative either, whatever a
\* part that was stopped or that ended early has left behind.
THEOREM ReaderTypes == ReaderSpec => []TypeOK
<1>1. Init(restore_version) => TypeInv
  <2> SUFFICES ASSUME Init(restore_version) PROVE TypeInv
    OBVIOUS
  <2>1. /\ archive \in Archives /\ InitPipeline /\ program = restore_version /\ skip = 0
        /\ outcome = "running"
    BY DEF Init
  <2>2. Leads(<<>>, program, ReaderStack)
    BY <2>1, ReaderLeads
  <2> QED BY <2>1, <2>2, StartOK
<1>2. TypeInv /\ [Next]_vars => TypeInv'
    BY StepKeeps
<1>3. TypeInv => TypeOK
    BY TypeInvImplies
<1> QED BY <1>1, <1>2, <1>3, PTL DEF ReaderSpec
==============================================================================
