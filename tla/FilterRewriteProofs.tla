------------------------ MODULE FilterRewriteProofs ------------------------
(***************************************************************************)
(* What prefixPass makes of a message: for all rules and all messages it   *)
(* keeps the segments, and raw_message says what they say.                 *)
(*                                                                         *)
(* Words and Render are recursive, so their laws are proved by induction.  *)
(* The library's induction theorems have an operator as a parameter; the   *)
(* two below have a set: the values that have the property.                *)
(***************************************************************************)
EXTENDS FilterRulesProofs, SequenceTheorems, WellFoundedInduction

-----------------------------------------------------------------------------
(***************************************************************************)
(* Induction.                                                              *)
(***************************************************************************)
Below == OpToRel(<, Nat)

\* The order of the numbers is well founded.
LEMMA BelowWellFounded ==
    /\ IsWellFoundedOn(Below, Nat)
    /\ \A y, x \in Nat : <<y, x>> \in Below <=> y < x
<1>1. IsWellFoundedOn(Below, Nat)
  BY NatLessThanWellFounded, Zenon DEF Below
<1>2. Below = {p \in Nat \X Nat : p[1] < p[2]}
  BY Zenon DEF Below, OpToRel
<1> QED  BY <1>1, <1>2

\* A set of numbers that is not empty has an element with none below it.
LEMMA LeastIn ==
    ASSUME NEW T, T \subseteq Nat, T # {}
    PROVE  \E x \in T : \A y \in T : <<y, x>> \notin Below
<1> HIDE DEF Below
<1>1. IsWellFoundedOn(Below, Nat)
  BY BelowWellFounded
<1> QED  BY <1>1, WFMin

\* A set that holds 0 and the successor of each of its numbers holds all numbers.
LEMMA NumbersByInduction ==
    ASSUME NEW S, 0 \in S, \A n \in Nat : n \in S => n + 1 \in S
    PROVE  Nat \subseteq S
<1> DEFINE T == Nat \ S
<1> SUFFICES ASSUME T # {} PROVE FALSE
  OBVIOUS
<1>1. PICK x \in T : \A y \in T : <<y, x>> \notin Below
  BY LeastIn
<1>2. x \in Nat /\ x # 0
  OBVIOUS
<1>3. x - 1 \in Nat /\ x - 1 < x
  BY <1>2
<1>4. <<x - 1, x>> \in Below
  BY <1>2, <1>3, BelowWellFounded
<1>5. x - 1 \in S
  BY <1>1, <1>3, <1>4
<1>6. x \in S
  BY <1>2, <1>3, <1>5
<1> QED  BY <1>6

\* A set that holds the empty sequence and, with a sequence, its extensions by one
\* element holds all sequences.
LEMMA SequencesByInduction ==
    ASSUME NEW S, NEW T, <<>> \in T,
           \A s \in Seq(S), e \in S : s \in T => Append(s, e) \in T
    PROVE  Seq(S) \subseteq T
<1> DEFINE N == {n \in Nat : \A s \in Seq(S) : Len(s) = n => s \in T}
<1>1. 0 \in N
  OBVIOUS
<1>2. ASSUME NEW n \in Nat, n \in N PROVE n + 1 \in N
  <2> SUFFICES ASSUME NEW s \in Seq(S), Len(s) = n + 1 PROVE s \in T
    OBVIOUS
  <2>1. s # <<>>
    OBVIOUS
  <2>2. PICK r \in Seq(S), e \in S : s = Append(r, e)
    BY <2>1, SequenceEmptyOrAppend
  <2>3. Len(r) = n
    BY <2>2
  <2> QED  BY <1>2, <2>2, <2>3
<1> HIDE DEF N
<1>3. Nat \subseteq N
  BY <1>1, <1>2, NumbersByInduction
<1> QED  BY <1>3 DEF N

-----------------------------------------------------------------------------
(***************************************************************************)
(* The least and the greatest number of a set.                             *)
(***************************************************************************)
\* A set of numbers that is not empty has a least one, and Min is it.
LEMMA Least ==
    ASSUME NEW S \in SUBSET Nat, S # {}
    PROVE  Min(S) \in S /\ \A n \in S : Min(S) <= n
<1>1. PICK x \in S : \A y \in S : <<y, x>> \notin Below
  BY LeastIn
<1>2. \A y \in S : x <= y
  <2> SUFFICES ASSUME NEW y \in S PROVE x <= y
    OBVIOUS
  <2>1. x \in Nat /\ y \in Nat
    OBVIOUS
  <2>2. ~(y < x)
    BY <1>1, <2>1, BelowWellFounded
  <2> QED  BY <2>1, <2>2
<1> QED  BY <1>2 DEF Min

\* A set of numbers up to n that is not empty has a greatest one, and Max is it.
LEMMA Greatest ==
    ASSUME NEW n \in Nat, NEW S \in SUBSET (1..n), S # {}
    PROVE  Max(S) \in S /\ \A m \in S : m <= Max(S)
<1> DEFINE T == {n - m : m \in S}
<1>1. T \in SUBSET Nat /\ T # {}
  <2>1. ASSUME NEW m \in S PROVE n - m \in Nat
    <3>1. m \in 1..n
      OBVIOUS
    <3> QED  BY <3>1
  <2> QED  BY <2>1
<1>2. Min(T) \in T /\ \A k \in T : Min(T) <= k
  BY <1>1, Least
<1>3. PICK x \in S : Min(T) = n - x
  BY <1>2
<1>4. \A m \in S : n - x <= n - m
  BY <1>2, <1>3
<1>5. \A m \in S : x >= m
  BY <1>4
<1> QED  BY <1>5 DEF Max

-----------------------------------------------------------------------------
(***************************************************************************)
(* Words.                                                                  *)
(***************************************************************************)
\* The recursion of Words, on the first words of a text.
Kept(text, f, n) ==
    IF n = 0 THEN <<>> ELSE IF text[n] = Blank THEN f[n - 1] ELSE Append(f[n - 1], text[n])

\* There is a function that meets the recursion, and Words is its last value.
LEMMA WordsDefined ==
    ASSUME NEW text, Len(text) \in Nat
    PROVE  \E f : /\ f = [n \in 0..Len(text) |-> Kept(text, f, n)]
                  /\ Words(text) = f[Len(text)]
<1> DEFINE Meets(f, k) == f = [n \in 0..k |-> Kept(text, f, n)]
           K == {k \in Nat : \E f : Meets(f, k)}
<1>1. 0 \in K
  <2> DEFINE f == [n \in 0..0 |-> <<>>]
  <2>1. Meets(f, 0)
    BY DEF Kept
  <2> QED  BY <2>1
<1>2. ASSUME NEW k \in Nat, k \in K PROVE k + 1 \in K
  <2>1. PICK f : Meets(f, k)
    BY <1>2
  <2> DEFINE g == [n \in 0..(k + 1) |-> Kept(text, f, n)]
  <2>2. \A n \in 0..k : g[n] = f[n]
    <3> SUFFICES ASSUME NEW n \in 0..k PROVE g[n] = f[n]
      OBVIOUS
    <3>1. n \in 0..(k + 1)
      OBVIOUS
    <3>2. g[n] = Kept(text, f, n)
      BY <3>1
    <3>3. f[n] = Kept(text, f, n)
      BY <2>1
    <3> QED  BY <3>2, <3>3
  <2> HIDE DEF g
  <2>3. \A n \in 0..(k + 1) : Kept(text, f, n) = Kept(text, g, n)
    <3> SUFFICES ASSUME NEW n \in 0..(k + 1), n # 0 PROVE f[n - 1] = g[n - 1]
      BY DEF Kept
    <3>1. n - 1 \in 0..k
      OBVIOUS
    <3> QED  BY <2>2, <3>1
  <2>4. Meets(g, k + 1)
    BY <2>3 DEF g
  <2> QED  BY <2>4
<1> HIDE DEF K
<1>3. Len(text) \in K
  BY <1>1, <1>2, NumbersByInduction
<1> DEFINE w == CHOOSE f : Meets(f, Len(text))
<1>4. Meets(w, Len(text))
  BY <1>3 DEF K
<1>5. Words(text) = w[Len(text)]
  BY DEF Words, Kept
<1> QED  BY <1>4, <1>5

\* An empty text has no words.
LEMMA WordsOfNone == Words(<<>>) = <<>>
<1>1. Len(<<>>) = 0
  OBVIOUS
<1>2. PICK f : f = [n \in 0..0 |-> Kept(<<>>, f, n)] /\ Words(<<>>) = f[0]
  BY <1>1, WordsDefined
<1> QED  BY <1>2 DEF Kept

\* The words of a text with one more word.
LEMMA WordsAppend ==
    ASSUME NEW S, NEW s \in Seq(S), NEW e \in S
    PROVE  Words(Append(s, e)) = IF e = Blank THEN Words(s) ELSE Append(Words(s), e)
<1> DEFINE t == Append(s, e)
<1>1. /\ Len(s) \in Nat
      /\ Len(t) = Len(s) + 1
      /\ t[Len(s) + 1] = e
      /\ \A n \in 1..Len(s) : t[n] = s[n]
  BY AppendProperties
<1> HIDE DEF t
<1>2. PICK f : f = [n \in 0..Len(s) |-> Kept(s, f, n)] /\ Words(s) = f[Len(s)]
  BY <1>1, WordsDefined
<1>3. PICK g : g = [n \in 0..Len(t) |-> Kept(t, g, n)] /\ Words(t) = g[Len(t)]
  BY <1>1, WordsDefined
<1> DEFINE K == {k \in Nat : k <= Len(s) => g[k] = f[k]}
<1>4. 0 \in K
  <2>1. f[0] = Kept(s, f, 0)
    BY <1>1, <1>2
  <2>2. g[0] = Kept(t, g, 0)
    BY <1>1, <1>3
  <2> QED  BY <2>1, <2>2 DEF Kept
<1>5. ASSUME NEW k \in Nat, k \in K PROVE k + 1 \in K
  <2> SUFFICES ASSUME k + 1 <= Len(s) PROVE g[k + 1] = f[k + 1]
    OBVIOUS
  <2>1. k + 1 \in 1..Len(s) /\ k + 1 \in 0..Len(s) /\ k + 1 \in 0..Len(t) /\ k + 1 # 0
    BY <1>1
  <2>2. f[k + 1] = Kept(s, f, k + 1)
    BY <1>2, <2>1
  <2>3. g[k + 1] = Kept(t, g, k + 1)
    BY <1>3, <2>1
  <2>4. g[k + 1 - 1] = f[k + 1 - 1]
    BY <1>1, <1>5, <2>1
  <2> QED  BY <1>1, <2>1, <2>2, <2>3, <2>4 DEF Kept
<1> HIDE DEF K
<1>6. Len(s) \in K
  BY <1>1, <1>4, <1>5, NumbersByInduction
<1>7. g[Len(s)] = Words(s)
  BY <1>1, <1>2, <1>6 DEF K
<1>8. g[Len(t)] = Kept(t, g, Len(t))
  BY <1>1, <1>3
<1>9. Len(t) - 1 = Len(s) /\ Len(t) # 0
  BY <1>1
<1>10. Words(t) = IF e = Blank THEN Words(s) ELSE Append(Words(s), e)
  BY <1>1, <1>3, <1>7, <1>8, <1>9 DEF Kept
<1> QED  BY <1>10 DEF t

\* The words of a text are some of its elements.
LEMMA WordsType == ASSUME NEW S PROVE \A s \in Seq(S) : Words(s) \in Seq(S)
<1> DEFINE T == {s \in Seq(S) : Words(s) \in Seq(S)}
<1>1. <<>> \in T
  <2>1. <<>> \in Seq(S)
    OBVIOUS
  <2>2. Words(<<>>) \in Seq(S)
    BY <2>1, WordsOfNone
  <2> QED  BY <2>1, <2>2
<1>2. ASSUME NEW s \in Seq(S), NEW e \in S, s \in T PROVE Append(s, e) \in T
  <2>1. Words(Append(s, e)) \in {Words(s), Append(Words(s), e)}
    BY WordsAppend
  <2> QED  BY <1>2, <2>1
<1> HIDE DEF T
<1>3. Seq(S) \subseteq T
  BY <1>1, <1>2, SequencesByInduction
<1> QED  BY <1>3 DEF T

\* The words of two texts, one after the other.
LEMMA WordsConcat ==
    ASSUME NEW S, NEW s \in Seq(S)
    PROVE  \A t \in Seq(S) : Words(s \o t) = Words(s) \o Words(t)
<1> DEFINE T == {t \in Seq(S) : Words(s \o t) = Words(s) \o Words(t)}
<1>1. <<>> \in T
  <2>1. s \o <<>> = s /\ Words(s) \o <<>> = Words(s)
    BY WordsType, ConcatEmptySeq
  <2>2. Words(s \o <<>>) = Words(s) \o Words(<<>>)
    BY <2>1, WordsOfNone
  <2>3. <<>> \in Seq(S)
    OBVIOUS
  <2> QED  BY <2>2, <2>3
<1>2. ASSUME NEW t \in Seq(S), NEW e \in S, t \in T PROVE Append(t, e) \in T
  <2>1. s \o t \in Seq(S) /\ s \o Append(t, e) = Append(s \o t, e)
    BY SMTT(30)
  <2>2. Words(s) \in Seq(S) /\ Words(t) \in Seq(S)
    BY WordsType
  <2>3. Words(s) \o Append(Words(t), e) = Append(Words(s) \o Words(t), e)
    BY <2>2, SMTT(30)
  <2>4. Words(Append(t, e)) = IF e = Blank THEN Words(t) ELSE Append(Words(t), e)
    BY WordsAppend
  <2>5. Words(Append(s \o t, e))
            = IF e = Blank THEN Words(s \o t) ELSE Append(Words(s \o t), e)
    BY <2>1, WordsAppend
  <2>6. Words(s \o t) = Words(s) \o Words(t)
    BY <1>2
  <2>7. Words(s \o Append(t, e)) = Words(s) \o Words(Append(t, e))
    BY <2>1, <2>3, <2>4, <2>5, <2>6
  <2>8. Append(t, e) \in Seq(S)
    OBVIOUS
  <2> QED  BY <2>7, <2>8
<1> HIDE DEF T
<1>3. Seq(S) \subseteq T
  BY <1>1, <1>2, SequencesByInduction
<1> QED  BY <1>3 DEF T

\* A blank text has no words.
LEMMA WordsOfBlank ==
    ASSUME NEW S PROVE \A s \in Seq(S) : Solid(s) = {} => Words(s) = <<>>
<1> DEFINE T == {s \in Seq(S) : Solid(s) = {} => Words(s) = <<>>}
<1>1. <<>> \in T
  BY WordsOfNone
<1>2. ASSUME NEW s \in Seq(S), NEW e \in S, s \in T PROVE Append(s, e) \in T
  <2> SUFFICES ASSUME Solid(Append(s, e)) = {} PROVE Words(Append(s, e)) = <<>>
    OBVIOUS
  <2>1. /\ Len(s) \in Nat
        /\ DOMAIN s = 1..Len(s) /\ DOMAIN Append(s, e) = 1..(Len(s) + 1)
        /\ Append(s, e)[Len(s) + 1] = e
        /\ \A n \in 1..Len(s) : Append(s, e)[n] = s[n]
    BY AppendProperties, LenProperties
  <2>2. e = Blank /\ Solid(s) = {}
    BY <2>1 DEF Solid
  <2> QED  BY <1>2, <2>2, WordsAppend
<1> HIDE DEF T
<1>3. Seq(S) \subseteq T
  BY <1>1, <1>2, SequencesByInduction
<1> QED  BY <1>3 DEF T

-----------------------------------------------------------------------------
(***************************************************************************)
(* Render.                                                                 *)
(***************************************************************************)
Segment == [kind : STRING, text : Seq(Word)]

\* The recursion of FlattenSeq, on the first texts.
Joined(texts, f, i) == IF i = 1 THEN texts[i] ELSE f[i - 1] \o texts[i]

\* There is a function that meets the recursion, and FlattenSeq is its last value.
LEMMA FlattenDefined ==
    ASSUME NEW texts, Len(texts) \in Nat, Len(texts) # 0
    PROVE  \E f : /\ f = [i \in 1..Len(texts) |-> Joined(texts, f, i)]
                  /\ FlattenSeq(texts) = f[Len(texts)]
<1> DEFINE Meets(f, k) == f = [i \in 1..k |-> Joined(texts, f, i)]
           K == {k \in Nat : \E f : Meets(f, k)}
<1>1. 0 \in K
  <2> DEFINE f == [i \in 1..0 |-> <<>>]
  <2>1. Meets(f, 0)
    OBVIOUS
  <2> QED  BY <2>1
<1>2. ASSUME NEW k \in Nat, k \in K PROVE k + 1 \in K
  <2>1. PICK f : Meets(f, k)
    BY <1>2
  <2> DEFINE g == [i \in 1..(k + 1) |-> Joined(texts, f, i)]
  <2>2. \A i \in 1..k : g[i] = f[i]
    <3> SUFFICES ASSUME NEW i \in 1..k PROVE g[i] = f[i]
      OBVIOUS
    <3>1. i \in 1..(k + 1)
      OBVIOUS
    <3>2. g[i] = Joined(texts, f, i)
      BY <3>1
    <3>3. f[i] = Joined(texts, f, i)
      BY <2>1
    <3> QED  BY <3>2, <3>3
  <2> HIDE DEF g
  <2>3. \A i \in 1..(k + 1) : Joined(texts, f, i) = Joined(texts, g, i)
    <3> SUFFICES ASSUME NEW i \in 1..(k + 1), i # 1 PROVE f[i - 1] = g[i - 1]
      BY DEF Joined
    <3>1. i - 1 \in 1..k
      OBVIOUS
    <3> QED  BY <2>2, <3>1
  <2>4. Meets(g, k + 1)
    BY <2>3 DEF g
  <2> QED  BY <2>4
<1> HIDE DEF K
<1>3. Len(texts) \in K
  BY <1>1, <1>2, NumbersByInduction
<1> DEFINE w == CHOOSE f : Meets(f, Len(texts))
<1>4. Meets(w, Len(texts))
  BY <1>3 DEF K
<1>5. FlattenSeq(texts) = w[Len(texts)]
  BY DEF FlattenSeq, Joined
<1> QED  BY <1>4, <1>5

\* One text more is joined at the end.
LEMMA FlattenAppend ==
    ASSUME NEW S, NEW s \in Seq(Seq(S)), NEW e \in Seq(S)
    PROVE  FlattenSeq(Append(s, e)) = FlattenSeq(s) \o e
<1> DEFINE t == Append(s, e)
<1>1. /\ Len(s) \in Nat
      /\ Len(t) = Len(s) + 1
      /\ t[Len(s) + 1] = e
      /\ \A i \in 1..Len(s) : t[i] = s[i]
  BY AppendProperties
<1>2. s = <<>> <=> Len(s) = 0
  OBVIOUS
<1> HIDE DEF t
<1>3. PICK g : g = [i \in 1..Len(t) |-> Joined(t, g, i)] /\ FlattenSeq(t) = g[Len(t)]
  BY <1>1, FlattenDefined
<1>4. g[Len(t)] = Joined(t, g, Len(t))
  <2>1. Len(t) \in 1..Len(t)
    BY <1>1
  <2> QED  BY <1>3, <2>1
<1>5. CASE Len(s) = 0
  <2>1. FlattenSeq(t) = e
    BY <1>1, <1>3, <1>4, <1>5 DEF Joined
  <2>2. FlattenSeq(s) = <<>>
    BY <1>2, <1>5 DEF FlattenSeq
  <2>3. <<>> \o e = e
    BY ConcatEmptySeq
  <2> QED  BY <2>1, <2>2, <2>3 DEF t
<1>6. CASE Len(s) # 0
  <2>1. PICK f : f = [i \in 1..Len(s) |-> Joined(s, f, i)] /\ FlattenSeq(s) = f[Len(s)]
    BY <1>1, <1>6, FlattenDefined
  <2> DEFINE K == {k \in Nat : k \in 1..Len(s) => g[k] = f[k]}
  <2>2. 0 \in K
    OBVIOUS
  <2>3. ASSUME NEW k \in Nat, k \in K PROVE k + 1 \in K
    <3> SUFFICES ASSUME k + 1 <= Len(s) PROVE g[k + 1] = f[k + 1]
      OBVIOUS
    <3>1. k + 1 \in 1..Len(s) /\ k + 1 \in 1..Len(t)
      BY <1>1
    <3>2. f[k + 1] = Joined(s, f, k + 1)
      BY <2>1, <3>1
    <3>3. g[k + 1] = Joined(t, g, k + 1)
      BY <1>3, <3>1
    <3>4. k + 1 # 1 => g[k + 1 - 1] = f[k + 1 - 1]
      BY <1>1, <2>3, <3>1
    <3> QED  BY <1>1, <3>1, <3>2, <3>3, <3>4 DEF Joined
  <2> HIDE DEF K
  <2>4. Len(s) \in K
    BY <1>1, <2>2, <2>3, NumbersByInduction
  <2>5. g[Len(s)] = FlattenSeq(s)
    BY <1>1, <1>6, <2>1, <2>4 DEF K
  <2>6. Len(t) - 1 = Len(s) /\ Len(t) # 1
    BY <1>1, <1>6
  <2>7. FlattenSeq(t) = FlattenSeq(s) \o e
    BY <1>1, <1>3, <1>4, <2>5, <2>6 DEF Joined
  <2> QED  BY <2>7 DEF t
<1> QED  BY <1>1, <1>5, <1>6

\* An empty body says nothing.
LEMMA RenderOfNone == Render(<<>>) = <<>>
<1> DEFINE texts == [i \in DOMAIN <<>> |-> <<>>[i].text]
<1>1. texts = <<>>
  OBVIOUS
<1>2. FlattenSeq(<<>>) = <<>>
  BY DEF FlattenSeq
<1> QED  BY <1>1, <1>2 DEF Render

\* The texts of a body are texts.
LEMMA TextsType ==
    ASSUME NEW body \in Seq(Segment)
    PROVE  [i \in DOMAIN body |-> body[i].text] \in Seq(Seq(Word))
<1>1. DOMAIN body = 1..Len(body) /\ Len(body) \in Nat
  OBVIOUS
<1>2. ASSUME NEW i \in DOMAIN body PROVE body[i].text \in Seq(Word)
  <2>1. body[i] \in Segment
    BY <1>1, ElementOfSeq
  <2> QED  BY <2>1 DEF Segment
<1> QED  BY <1>1, <1>2

\* One segment more says its text at the end.
LEMMA RenderAppend ==
    ASSUME NEW body \in Seq(Segment), NEW seg \in Segment
    PROVE  Render(Append(body, seg)) = Render(body) \o seg.text
<1> DEFINE texts(b) == [i \in DOMAIN b |-> b[i].text]
           more == Append(body, seg)
<1>1. /\ texts(body) \in Seq(Seq(Word))
      /\ seg.text \in Seq(Word)
      /\ more \in Seq(Segment)
  <2>1. texts(body) \in Seq(Seq(Word))
    BY TextsType
  <2>2. seg.text \in Seq(Word)
    BY DEF Segment
  <2>3. more \in Seq(Segment)
    OBVIOUS
  <2> QED  BY <2>1, <2>2, <2>3
<1>2. /\ Len(body) \in Nat
      /\ DOMAIN body = 1..Len(body) /\ DOMAIN more = 1..(Len(body) + 1)
      /\ more[Len(body) + 1] = seg
      /\ \A i \in 1..Len(body) : more[i] = body[i]
  BY AppendProperties, LenProperties
<1>3. Len(texts(body)) = Len(body)
  BY <1>2
<1>4. texts(more) = Append(texts(body), seg.text)
  <2> DEFINE new == Append(texts(body), seg.text)
  <2>1. /\ Len(new) = Len(body) + 1
        /\ new[Len(body) + 1] = seg.text
        /\ \A i \in 1..Len(body) : new[i] = texts(body)[i]
        /\ new \in Seq(Seq(Word))
    BY <1>1, <1>3, AppendProperties
  <2>2. texts(more) \in Seq(Seq(Word)) /\ Len(texts(more)) = Len(body) + 1
    BY <1>1, <1>2, TextsType
  <2>3. \A i \in 1..(Len(body) + 1) : texts(more)[i] = new[i]
    <3> SUFFICES ASSUME NEW i \in 1..(Len(body) + 1) PROVE more[i].text = new[i]
      BY <1>2
    <3>1. CASE i = Len(body) + 1
      BY <1>2, <2>1, <3>1
    <3>2. CASE i \in 1..Len(body)
      <4>1. new[i] = body[i].text
        BY <1>2, <2>1, <3>2
      <4> QED  BY <1>2, <3>2, <4>1
    <3> QED  BY <1>2, <3>1, <3>2
  <2> HIDE DEF new, texts
  <2>4. texts(more) = new
    BY <2>1, <2>2, <2>3, SeqEqual
  <2> QED  BY <2>4 DEF new
<1> HIDE DEF texts
<1>5. FlattenSeq(texts(more)) = FlattenSeq(texts(body)) \o seg.text
  BY <1>1, <1>4, FlattenAppend
<1> QED  BY <1>5 DEF Render, texts

\* What a body says is a text.
LEMMA RenderType == \A body \in Seq(Segment) : Render(body) \in Seq(Word)
<1> DEFINE T == {b \in Seq(Segment) : Render(b) \in Seq(Word)}
<1>1. <<>> \in T
  <2>1. Render(<<>>) \in Seq(Word)
    BY RenderOfNone, EmptySeq
  <2> QED  BY <2>1
<1>2. ASSUME NEW b \in Seq(Segment), NEW e \in Segment, b \in T PROVE Append(b, e) \in T
  <2>1. Render(b) \in Seq(Word) /\ e.text \in Seq(Word)
    BY <1>2 DEF Segment
  <2>2. Render(Append(b, e)) \in Seq(Word)
    BY <2>1, RenderAppend, ConcatProperties
  <2> QED  BY <2>2
<1> HIDE DEF T
<1>3. Seq(Segment) \subseteq T
  BY <1>1, <1>2, SequencesByInduction
<1> QED  BY <1>3 DEF T

\* What two bodies say, one after the other.
LEMMA RenderConcat ==
    ASSUME NEW a \in Seq(Segment)
    PROVE  \A b \in Seq(Segment) : Render(a \o b) = Render(a) \o Render(b)
<1> DEFINE T == {b \in Seq(Segment) : Render(a \o b) = Render(a) \o Render(b)}
<1>1. <<>> \in T
  <2>1. a \o <<>> = a /\ Render(a) \o <<>> = Render(a)
    BY RenderType, ConcatEmptySeq
  <2>2. Render(a \o <<>>) = Render(a) \o Render(<<>>)
    BY <2>1, RenderOfNone
  <2>3. <<>> \in Seq(Segment)
    OBVIOUS
  <2> QED  BY <2>2, <2>3
<1>2. ASSUME NEW b \in Seq(Segment), NEW e \in Segment, b \in T PROVE Append(b, e) \in T
  <2>1. a \o b \in Seq(Segment) /\ a \o Append(b, e) = Append(a \o b, e)
    BY SMTT(30)
  <2>2. Render(a) \in Seq(Word) /\ Render(b) \in Seq(Word) /\ e.text \in Seq(Word)
    BY RenderType DEF Segment
  <2>3. Render(Append(a \o b, e)) = Render(a \o b) \o e.text
    BY <2>1, RenderAppend
  <2>4. Render(Append(b, e)) = Render(b) \o e.text
    BY RenderAppend
  <2>5. (Render(a) \o Render(b)) \o e.text = Render(a) \o (Render(b) \o e.text)
    <3> DEFINE x == Render(a)
               y == Render(b)
               z == e.text
    <3> HIDE DEF x, y, z
    <3>1. x \in Seq(Word) /\ y \in Seq(Word) /\ z \in Seq(Word)
      BY <2>2 DEF x, y, z
    <3>2. (x \o y) \o z = x \o (y \o z)
      BY <3>1, ConcatAssociative, SMTT(30)
    <3> QED  BY <3>2 DEF x, y, z
  <2>6. Render(a \o b) = Render(a) \o Render(b)
    BY <1>2
  <2>7. Render(a \o Append(b, e)) = Render(a) \o Render(Append(b, e))
    BY <2>1, <2>3, <2>4, <2>5, <2>6
  <2>8. Append(b, e) \in Seq(Segment)
    OBVIOUS
  <2> QED  BY <2>7, <2>8
<1> HIDE DEF T
<1>3. Seq(Segment) \subseteq T
  BY <1>1, <1>2, SequencesByInduction
<1> QED  BY <1>3 DEF T

-----------------------------------------------------------------------------
(***************************************************************************)
(* Cutting and replacing.                                                  *)
(***************************************************************************)
\* Two sequences joined are cut where they were joined.
LEMMA CutConcat ==
    ASSUME NEW S, NEW s \in Seq(S), NEW t \in Seq(S)
    PROVE  /\ SubSeq(s \o t, 1, Len(s)) = s
           /\ SubSeq(s \o t, Len(s) + 1, Len(s) + Len(t)) = t
<1>1. Len(s) \in Nat /\ Len(t) \in Nat /\ s \o t \in Seq(S)
  OBVIOUS
<1>2. SubSeq(s \o t, 1, Len(s)) = s
  <2>1. CASE Len(s) = 0
    BY <1>1, <2>1, SubSeqEmpty
  <2>2. CASE Len(s) # 0
    <3>1. SubSeq(s \o t, 1, Len(s)) = SubSeq(s, 1, Len(s))
      BY <1>1, <2>2, SubSeqOfConcat1
    <3> QED  BY <3>1, SubSeqFull
  <2> QED  BY <2>1, <2>2
<1>3. SubSeq(s \o t, Len(s) + 1, Len(s) + Len(t)) = t
  <2>1. CASE Len(t) = 0
    BY <1>1, <2>1, SubSeqEmpty
  <2>2. CASE Len(t) # 0
    <3> DEFINE m == Len(s) + 1
               n == Len(s) + Len(t)
    <3>1. m \in Len(s) + 1 .. Len(s) + Len(t) /\ n \in Len(s) + 1 .. Len(s) + Len(t)
      BY <1>1, <2>2
    <3>2. m - Len(s) = 1 /\ n - Len(s) = Len(t)
      BY <1>1
    <3> HIDE DEF m, n
    <3>3. SubSeq(s \o t, m, n) = SubSeq(t, m - Len(s), n - Len(s))
      BY <3>1, SubSeqOfConcat2
    <3>4. SubSeq(s \o t, m, n) = t
      BY <3>2, <3>3, SubSeqFull
    <3> QED  BY <3>4 DEF m, n
  <2> QED  BY <2>1, <2>2
<1> QED  BY <1>2, <1>3

\* A piece of a beginning of a sequence is one of every longer beginning.
LEMMA PiecesOfPrefix ==
    ASSUME NEW S, NEW s \in Seq(S), NEW j \in Nat, NEW k \in Nat, j <= k, k <= Len(s),
           NEW x, x # <<>>, x \in SubSeqs(SubSeq(s, 1, j))
    PROVE  x \in SubSeqs(SubSeq(s, 1, k))
<1> DEFINE u == SubSeq(s, 1, j)
           v == SubSeq(s, 1, k)
<1>1. Len(s) \in Nat /\ j \in 0..Len(s) /\ k \in 0..Len(s)
  OBVIOUS
<1>2. u \in Seq(S) /\ v \in Seq(S) /\ Len(u) = j /\ Len(v) = k
  BY <1>1
<1>3. PICK m, n \in 0..j : x = SubSeq(u, m + 1, n)
  <2> HIDE DEF u
  <2>1. x \in SubSeqs(u)
    BY DEF u
  <2>2. PICK m, n \in 0..Len(u) : x = SubSeq(u, m + 1, n)
    BY <2>1 DEF SubSeqs
  <2> QED  BY <1>2, <2>2
<1>4. m < n
  <2> SUFFICES ASSUME n < m + 1 PROVE FALSE
    OBVIOUS
  <2>1. x = <<>>
    BY <1>3, SubSeqEmpty
  <2> QED  BY <2>1
<1>5. /\ j >= 1 /\ k >= 1
      /\ m + 1 \in 1..j /\ n \in 1..j /\ m + 1 \in 1..k /\ n \in 1..k
  BY <1>4
<1>6. SubSeq(u, m + 1, n) = SubSeq(s, m + 1, n)
  BY <1>1, <1>5, SubSeqOfSubSeq
<1>7. SubSeq(v, m + 1, n) = SubSeq(s, m + 1, n)
  BY <1>1, <1>5, SubSeqOfSubSeq
<1>8. m \in 0..Len(v) /\ n \in 0..Len(v) /\ x = SubSeq(v, m + 1, n)
  BY <1>2, <1>3, <1>5, <1>6, <1>7
<1> HIDE DEF v
<1>9. x \in SubSeqs(v)
  BY <1>8 DEF SubSeqs
<1> QED  BY <1>9 DEF v

\* Replacing keeps what stands before and after.
LEMMA ReplacedAt ==
    ASSUME NEW i, NEW r, NEW s, NEW t
    PROVE  ReplaceSubSeqAt(i, r, s, t)
               = (SubSeq(t, 1, i - 1) \o r) \o SubSeq(t, i + Len(s), Len(t))
  BY DEF ReplaceSubSeqAt

\* If a text occurs in another after a and not before, it is replaced after a.
LEMMA ReplacedThere ==
    ASSUME NEW S, NEW a \in Seq(S), NEW lead \in Seq(S), NEW b \in Seq(S), NEW new \in Seq(S),
           lead # <<>>, lead \notin SubSeqs(Front(a \o lead))
    PROVE  ReplaceFirstSubSeq(new, lead, (a \o lead) \o b) = (a \o new) \o b
<1> DEFINE u   == a \o lead
           raw == u \o b
           p   == Len(u)
<1>1. /\ Len(a) \in Nat /\ Len(lead) \in Nat \ {0} /\ Len(b) \in Nat
      /\ u \in Seq(S) /\ p = Len(a) + Len(lead) /\ p \in Nat /\ p > Len(a)
      /\ raw \in Seq(S) /\ Len(raw) = p + Len(b)
  BY ConcatProperties
<1>2. SubSeq(raw, 1, p) = u /\ SubSeq(raw, p + 1, Len(raw)) = b
  <2> HIDE DEF u
  <2> QED  BY <1>1, CutConcat
<1>3. SubSeq(u, 1, Len(a)) = a /\ SubSeq(u, Len(a) + 1, p) = lead
  BY <1>1, CutConcat
<1> HIDE DEF u
<1>4. /\ SubSeq(raw, 1, p - 1) = SubSeq(u, 1, p - 1)
      /\ SubSeq(raw, 1, Len(a)) = SubSeq(u, 1, Len(a))
      /\ SubSeq(raw, Len(a) + 1, p) = SubSeq(u, Len(a) + 1, p)
  <2>1. ASSUME NEW m \in 1..p, NEW n \in 0..p PROVE SubSeq(raw, m, n) = SubSeq(u, m, n)
    <3>1. CASE n = 0
      BY <3>1, SubSeqEmpty
    <3>2. CASE n \in 1..p
      BY <1>1, <3>2, SubSeqOfConcat1
    <3> QED  BY <1>1, <3>1, <3>2
  <2>2. /\ 1 \in 1..p /\ Len(a) + 1 \in 1..p
        /\ p - 1 \in 0..p /\ Len(a) \in 0..p /\ p \in 0..p
    BY <1>1
  <2> HIDE DEF raw, p
  <2> QED  BY <2>1, <2>2
<1> HIDE DEF raw, p
<1>5. lead \in SubSeqs(SubSeq(raw, 1, p)) /\ lead \in SubSeqs(raw)
  <2>1. Len(a) \in 0..Len(u) /\ p \in 0..Len(u) /\ Len(a) \in 0..Len(raw) /\ p \in 0..Len(raw)
    BY <1>1 DEF p
  <2>2. lead \in SubSeqs(u)
    BY <1>3, <2>1, SMTT(30) DEF SubSeqs
  <2>3. lead \in SubSeqs(raw)
    BY <1>3, <1>4, <2>1 DEF SubSeqs
  <2> QED  BY <1>2, <2>2, <2>3
<1>6. ASSUME NEW j \in 0..(p - 1) PROVE lead \notin SubSeqs(SubSeq(raw, 1, j))
  <2> SUFFICES ASSUME lead \in SubSeqs(SubSeq(raw, 1, j)) PROVE FALSE
    OBVIOUS
  <2>1. p - 1 \in Nat /\ j \in Nat /\ j <= p - 1 /\ p - 1 <= Len(raw)
    BY <1>1
  <2>2. lead \in SubSeqs(SubSeq(raw, 1, p - 1))
    BY <1>1, <2>1, PiecesOfPrefix
  <2>3. SubSeq(raw, 1, p - 1) = Front(u)
    BY <1>4 DEF Front, p
  <2> QED  BY <2>2, <2>3 DEF u
<1> DEFINE First(i) == /\ lead \in SubSeqs(SubSeq(raw, 1, i))
                       /\ \A j \in 0..i-1 : lead \notin SubSeqs(SubSeq(raw, 1, j))
           last == CHOOSE i \in 0..Len(raw) : First(i)
<1>7. p \in 0..Len(raw) /\ First(p)
  BY <1>1, <1>5, <1>6
<1>8. \A i \in 0..Len(raw) : First(i) => i = p
  <2> SUFFICES ASSUME NEW i \in 0..Len(raw), First(i) PROVE i = p
    OBVIOUS
  <2>1. CASE i < p
    <3>1. i \in 0..(p - 1)
      BY <1>1, <2>1
    <3> QED  BY <1>6, <3>1
  <2>2. CASE i > p
    <3>1. p \in 0..i-1
      BY <1>1, <2>2
    <3> QED  BY <1>5, <3>1
  <2> QED  BY <1>1, <2>1, <2>2
<1> HIDE DEF First
<1>9. last = p
  BY <1>7, <1>8
<1>10. IndexFirstSubSeq(lead, raw) = last - (Len(lead) - 1)
  BY DEF IndexFirstSubSeq, First
<1> HIDE DEF last
<1>11. IndexFirstSubSeq(lead, raw) = Len(a) + 1
  BY <1>1, <1>9, <1>10
<1>12. ReplaceFirstSubSeq(new, lead, raw) = ReplaceSubSeqAt(Len(a) + 1, new, lead, raw)
  BY <1>5, <1>11 DEF ReplaceFirstSubSeq
<1>13. ReplaceSubSeqAt(Len(a) + 1, new, lead, raw)
           = (SubSeq(raw, 1, Len(a)) \o new) \o SubSeq(raw, Len(a) + Len(lead) + 1, Len(raw))
  <2> DEFINE i == Len(a) + 1
  <2>1. i - 1 = Len(a) /\ i + Len(lead) = Len(a) + Len(lead) + 1
    BY <1>1
  <2> HIDE DEF i
  <2>2. ReplaceSubSeqAt(i, new, lead, raw)
            = (SubSeq(raw, 1, i - 1) \o new) \o SubSeq(raw, i + Len(lead), Len(raw))
    BY ReplacedAt
  <2> QED  BY <2>1, <2>2 DEF i
<1>14. ReplaceFirstSubSeq(new, lead, raw) = (a \o new) \o b
  BY <1>1, <1>2, <1>3, <1>4, <1>12, <1>13
<1> QED  BY <1>14 DEF raw, u

\* A text that is not blank is its trimmed text between two blank ones.
LEMMA Trimmed ==
    ASSUME NEW S, NEW text \in Seq(S), Solid(text) # {}
    PROVE  /\ Trim(text) \in Seq(S) /\ Trim(text) # <<>>
           /\ \E pre, post \in Seq(S) :
                 /\ Words(pre) = <<>> /\ Words(post) = <<>>
                 /\ SubSeq(text, 1, Max(Solid(text))) = pre \o Trim(text)
                 /\ text = (pre \o Trim(text)) \o post
<1> DEFINE lo   == Min(Solid(text))
           hi   == Max(Solid(text))
           pre  == SubSeq(text, 1, lo - 1)
           post == SubSeq(text, hi + 1, Len(text))
<1>1. Len(text) \in Nat /\ DOMAIN text = 1..Len(text) /\ Solid(text) \in SUBSET (1..Len(text))
  BY DEF Solid
<1>2. /\ lo \in Solid(text) /\ \A i \in Solid(text) : lo <= i
      /\ hi \in Solid(text) /\ \A i \in Solid(text) : i <= hi
  <2>1. Solid(text) \in SUBSET Nat
    BY <1>1
  <2> QED  BY <1>1, <2>1, Least, Greatest
<1> HIDE DEF lo, hi
<1>3. lo \in 1..Len(text) /\ hi \in 1..Len(text) /\ lo <= hi
  BY <1>1, <1>2
<1>4. Trim(text) = SubSeq(text, lo, hi)
  BY DEF Trim, lo, hi
<1>5. /\ Trim(text) \in Seq(S) /\ Len(Trim(text)) = hi - lo + 1
      /\ pre \in Seq(S) /\ Len(pre) = lo - 1 /\ \A i \in 1..(lo - 1) : pre[i] = text[i]
  BY <1>3, <1>4
<1>6. /\ post \in Seq(S) /\ Len(post) = Len(text) - hi
      /\ \A i \in 1..(Len(text) - hi) : post[i] = text[hi + i]
  <2>1. /\ \A i \in hi + 1..Len(text) : text[i] \in S
        /\ Len(text) - (hi + 1) + 1 = Len(text) - hi
        /\ hi + 1 \in Int /\ Len(text) \in Int
    BY <1>1, <1>3, ElementOfSeq
  <2>2. /\ post \in Seq(S)
        /\ Len(post) = IF hi + 1 <= Len(text) THEN Len(text) - (hi + 1) + 1 ELSE 0
        /\ \A i \in 1..Len(text) - (hi + 1) + 1 : post[i] = text[hi + 1 + i - 1]
    BY <2>1, SubSeqProperties
  <2> HIDE DEF post
  <2>3. \A i \in 1..(Len(text) - hi) : hi + 1 + i - 1 = hi + i
    BY <1>1, <1>3
  <2>4. Len(post) = Len(text) - hi
    <3> DEFINE n == Len(text)
    <3>1. n \in Nat /\ hi \in 1..n /\ Len(post) = IF hi + 1 <= n THEN n - (hi + 1) + 1 ELSE 0
      BY <1>1, <1>3, <2>2
    <3> HIDE DEF n
    <3>2. Len(post) = n - hi
      BY <3>1
    <3> QED  BY <3>2 DEF n
  <2>5. \A i \in 1..(Len(text) - hi) : post[i] = text[hi + i]
    BY <2>1, <2>2, <2>3
  <2> QED  BY <2>2, <2>4, <2>5
<1>7. pre \o Trim(text) = SubSeq(text, 1, hi)
  BY <1>1, <1>3, <1>4, ConcatAdjacentSubSeq
<1>8. SubSeq(text, 1, hi) \o post = text
  <2>1. 1 \in 1..Len(text) + 1 /\ hi \in 1 - 1..Len(text) /\ Len(text) \in hi..Len(text)
    BY <1>1, <1>3
  <2>2. SubSeq(text, 1, hi) \o post = SubSeq(text, 1, Len(text))
    BY <2>1, ConcatAdjacentSubSeq
  <2> QED  BY <2>2, SubSeqFull
<1> HIDE DEF pre, post
<1>9. Solid(pre) = {}
  <2> SUFFICES ASSUME NEW i \in Solid(pre) PROVE FALSE
    OBVIOUS
  <2>1. i \in 1..(lo - 1) /\ text[i] # Blank
    BY <1>5 DEF Solid
  <2>2. i \in Solid(text)
    BY <1>1, <1>3, <2>1 DEF Solid
  <2> QED  BY <1>1, <1>2, <1>3, <2>1, <2>2
<1>10. Solid(post) = {}
  <2> SUFFICES ASSUME NEW i \in Solid(post) PROVE FALSE
    OBVIOUS
  <2>1. i \in 1..(Len(text) - hi) /\ text[hi + i] # Blank
    BY <1>6 DEF Solid
  <2>2. hi + i \in Solid(text)
    BY <1>1, <1>3, <2>1 DEF Solid
  <2> QED  BY <1>1, <1>2, <1>3, <2>1, <2>2
<1>11. Words(pre) = <<>> /\ Words(post) = <<>>
  BY <1>5, <1>6, <1>9, <1>10, WordsOfBlank
<1>12. Trim(text) # <<>>
  BY <1>3, <1>5
<1>13. SubSeq(text, 1, Max(Solid(text))) = pre \o Trim(text) /\ text = (pre \o Trim(text)) \o post
  BY <1>7, <1>8 DEF hi
<1> HIDE DEF Trim
<1> QED  BY <1>5, <1>6, <1>11, <1>12, <1>13

-----------------------------------------------------------------------------
(***************************************************************************)
(* Rewrite.                                                                *)
(***************************************************************************)
\* A message that begins with a prefix has a first text, which is not blank.
LEMMA LeadFound ==
    ASSUME NEW rule \in MessageRule, NEW msg \in Message, PrefixHits(rule, msg) # {}
    PROVE  LET at  == Min(TextAt(msg))
               hit == Min(PrefixHits(rule, msg))
           IN  /\ msg.body \in Seq(Segment)
               /\ at \in 1..Len(msg.body) /\ at \in TextAt(msg)
               /\ msg.body[at] \in Segment
               /\ Lead(msg) = Trim(msg.body[at].text)
               /\ Solid(msg.body[at].text) # {}
               /\ Len(rule.prefix[hit]) \in Nat
<1> DEFINE at  == Min(TextAt(msg))
           hit == Min(PrefixHits(rule, msg))
<1>1. msg.body \in Seq(Segment)
  BY DEF Message, Segment
<1>2. Lead(msg) # <<>>
  BY DEF PrefixHits
<1>3. TextAt(msg) # {}
  BY <1>2 DEF Lead
<1>4. TextAt(msg) \in SUBSET Nat /\ TextAt(msg) \subseteq 1..Len(msg.body)
  BY <1>1 DEF TextAt
<1>5. at \in TextAt(msg) /\ at \in 1..Len(msg.body)
  BY <1>3, <1>4, Least
<1>6. Lead(msg) = Trim(msg.body[at].text)
  BY <1>3 DEF Lead
<1>7. Solid(msg.body[at].text) # {}
  <2> HIDE DEF at
  <2> QED  BY <1>2, <1>6 DEF Trim
<1>8. msg.body[at] \in Segment
  <2> HIDE DEF at
  <2> QED  BY <1>1, <1>5, ElementOfSeq
<1>9. Len(rule.prefix[hit]) \in Nat
  <2>1. rule.prefix \in Seq(Seq(Word))
    BY DEF MessageRule
  <2>2. PrefixHits(rule, msg) \subseteq DOMAIN rule.prefix
    BY DEF PrefixHits
  <2>3. DOMAIN rule.prefix = 1..Len(rule.prefix)
    BY <2>1
  <2>4. PrefixHits(rule, msg) \in SUBSET Nat
    BY <2>2, <2>3
  <2>5. hit \in DOMAIN rule.prefix
    BY <2>2, <2>4, Least
  <2> HIDE DEF hit
  <2>6. rule.prefix[hit] \in Seq(Word)
    BY <2>1, <2>5
  <2> QED  BY <2>6
<1> QED  BY <1>1, <1>5, <1>6, <1>7, <1>8, <1>9

\* A body is what stands before a segment, the segment and what stands after.
LEMMA SplitAt ==
    \A s \in Seq(Segment), e \in Segment : \A i \in 1..Len(s) :
        /\ SubSeq(s, 1, i - 1) \in Seq(Segment) /\ SubSeq(s, i + 1, Len(s)) \in Seq(Segment)
        /\ s = (SubSeq(s, 1, i - 1) \o <<s[i]>>) \o SubSeq(s, i + 1, Len(s))
        /\ [s EXCEPT ![i] = e] = (SubSeq(s, 1, i - 1) \o <<e>>) \o SubSeq(s, i + 1, Len(s))
        /\ RemoveAt([s EXCEPT ![i] = e], i) = RemoveAt(s, i)
<1> TAKE s \in Seq(Segment), e \in Segment
<1> TAKE i \in 1..Len(s)
<1> DEFINE l == SubSeq(s, 1, i - 1)
           r == SubSeq(s, i + 1, Len(s))
<1>1. ASSUME NEW t \in Seq(Segment), Len(t) = Len(s), \A j \in 1..Len(s) : j # i => t[j] = s[j]
      PROVE  /\ SubSeq(t, 1, i - 1) = l /\ SubSeq(t, i + 1, Len(s)) = r
             /\ t = (l \o <<t[i]>>) \o r
  <2>1. SubSeq(t, 1, i - 1) = l
    BY <1>1
  <2>2. SubSeq(t, i + 1, Len(s)) = r
    BY <1>1
  <2>3. 1 \in 1..Len(t) + 1 /\ i - 1 \in 1 - 1..Len(t) /\ i \in i - 1..Len(t) /\ i \in 1 - 1..Len(t)
        /\ Len(t) \in i..Len(t) /\ i - 1 + 1 = i
    BY <1>1
  <2>4. SubSeq(t, 1, i) = l \o SubSeq(t, i, i)
    BY <2>1, <2>3, ConcatAdjacentSubSeq
  <2>5. SubSeq(t, i, i) = <<t[i]>>
    <3>1. i \in 1..Len(t) /\ i \in i..Len(t) /\ i < i + 1 /\ t[i] \in Segment
      BY <1>1
    <3>2. SubSeq(t, i, i) = <<t[i]>> \o SubSeq(t, i + 1, i)
      BY <3>1, SubSeqRecursiveFirst
    <3>3. SubSeq(t, i + 1, i) = <<>>
      BY <3>1, SubSeqEmpty
    <3>4. <<t[i]>> \in Seq(Segment)
      BY <3>1
    <3> QED  BY <3>2, <3>3, <3>4, ConcatEmptySeq
  <2>6. SubSeq(t, 1, Len(t)) = SubSeq(t, 1, i) \o SubSeq(t, i + 1, Len(t))
    BY <2>3, ConcatAdjacentSubSeq
  <2> QED  BY <1>1, <2>1, <2>2, <2>4, <2>5, <2>6, SubSeqFull
<1>2. l \in Seq(Segment) /\ r \in Seq(Segment)
  OBVIOUS
<1> DEFINE t == [s EXCEPT ![i] = e]
<1>3. t \in Seq(Segment) /\ Len(t) = Len(s) /\ t[i] = e /\ \A j \in 1..Len(s) : j # i => t[j] = s[j]
  BY ExceptSeq
<1> HIDE DEF l, r, t
<1>4. SubSeq(t, 1, i - 1) = l /\ SubSeq(t, i + 1, Len(s)) = r /\ t = (l \o <<e>>) \o r
  BY <1>1, <1>3
<1>5. SubSeq(s, 1, i - 1) = l /\ SubSeq(s, i + 1, Len(s)) = r /\ s = (l \o <<s[i]>>) \o r
  BY <1>1
<1>6. RemoveAt(t, i) = RemoveAt(s, i)
  BY <1>3, <1>4, <1>5 DEF RemoveAt
<1> QED  BY <1>2, <1>4, <1>5, <1>6 DEF l, r, t

\* Texts joined, as an operator of its own: what follows needs no more of it than laws.
Join(a, b) == a \o b

\* The laws of joining.
LEMMA JoinLaws ==
    /\ \A a, b \in Seq(Word) : Join(a, b) \in Seq(Word)
    /\ \A a, b, c \in Seq(Word) : Join(Join(a, b), c) = Join(a, Join(b, c))
    /\ \A a \in Seq(Word) : Join(a, <<>>) = a /\ Join(<<>>, a) = a
    /\ \A a, b \in Seq(Word) : Words(Join(a, b)) = Join(Words(a), Words(b))
    /\ \A a \in Seq(Word) : Words(a) \in Seq(Word)
<1>1. \A a, b \in Seq(Word) : Join(a, b) \in Seq(Word)
  BY ConcatProperties DEF Join
<1>2. \A a, b, c \in Seq(Word) : Join(Join(a, b), c) = Join(a, Join(b, c))
  BY ConcatAssociative DEF Join
<1>3. \A a \in Seq(Word) : Join(a, <<>>) = a /\ Join(<<>>, a) = a
  BY ConcatEmptySeq DEF Join
<1>4. \A a, b \in Seq(Word) : Words(Join(a, b)) = Join(Words(a), Words(b))
  BY WordsConcat DEF Join
<1>5. \A a \in Seq(Word) : Words(a) \in Seq(Word)
  BY WordsType
<1> QED  BY <1>1, <1>2, <1>3, <1>4, <1>5

\* Replacing, in the terms of Join.
LEMMA JoinReplaced ==
    ASSUME NEW a \in Seq(Word), NEW lead \in Seq(Word), NEW b \in Seq(Word),
           NEW new \in Seq(Word), lead # <<>>, lead \notin SubSeqs(Front(Join(a, lead)))
    PROVE  ReplaceFirstSubSeq(new, lead, Join(Join(a, lead), b)) = Join(Join(a, new), b)
<1>1. lead \notin SubSeqs(Front(a \o lead))
  BY DEF Join
<1> QED  BY <1>1, ReplacedThere, SMTT(30) DEF Join

\* Trimming, in the terms of Join.
LEMMA JoinTrimmed ==
    ASSUME NEW text \in Seq(Word), Solid(text) # {}
    PROVE  /\ Trim(text) \in Seq(Word) /\ Trim(text) # <<>>
           /\ \E pre, post \in Seq(Word) :
                 /\ Words(pre) = <<>> /\ Words(post) = <<>>
                 /\ SubSeq(text, 1, Max(Solid(text))) = Join(pre, Trim(text))
                 /\ text = Join(Join(pre, Trim(text)), post)
  BY Trimmed DEF Join

\* What is said before, by and after a segment.
LEMMA JoinRendered ==
    ASSUME NEW l \in Seq(Segment), NEW r \in Seq(Segment), NEW seg \in Segment
    PROVE  /\ Render((l \o <<seg>>) \o r) = Join(Join(Render(l), seg.text), Render(r))
           /\ Render(l \o r) = Join(Render(l), Render(r))
<1>1. l \o <<seg>> = Append(l, seg) /\ Append(l, seg) \in Seq(Segment)
  BY AppendIsConcat, AppendProperties
<1>2. Render(l \o <<seg>>) = Render(l) \o seg.text
  BY <1>1, RenderAppend
<1> QED  BY <1>1, <1>2, RenderConcat DEF Join

\* If the text t, between blanks, is replaced by u where it stands in a raw message, then
\* the words of the message are those before t, of u and after t.
LEMMA RawReplaced ==
    ASSUME NEW a \in Seq(Word), NEW pre \in Seq(Word), NEW t \in Seq(Word),
           NEW post \in Seq(Word), NEW b \in Seq(Word), NEW u \in Seq(Word),
           t # <<>>, t \notin SubSeqs(Front(Join(a, Join(pre, t)))),
           Words(pre) = <<>>, Words(post) = <<>>
    PROVE  Words(ReplaceFirstSubSeq(u, t, Join(Join(a, Join(Join(pre, t), post)), b)))
               = Join(Join(Words(a), Words(u)), Words(b))
<1> DEFINE p == Join(a, pre)
           q == Join(post, b)
<1>1. p \in Seq(Word) /\ q \in Seq(Word)
  BY JoinLaws
<1>2. Words(p) = Words(a) /\ Words(q) = Words(b)
  BY JoinLaws
<1>3. Join(a, Join(pre, t)) = Join(p, t)
  BY JoinLaws
<1>4. Join(Join(a, Join(Join(pre, t), post)), b) = Join(Join(p, t), q)
  <2>1. Join(pre, t) \in Seq(Word) /\ Join(p, t) \in Seq(Word)
    BY <1>1, JoinLaws
  <2>2. Join(a, Join(Join(pre, t), post)) = Join(Join(p, t), post)
    BY <1>3, <2>1, JoinLaws
  <2>3. Join(Join(Join(p, t), post), b) = Join(Join(p, t), q)
    BY <2>1, JoinLaws
  <2> QED  BY <2>2, <2>3
<1> HIDE DEF p, q
<1>5. ReplaceFirstSubSeq(u, t, Join(Join(p, t), q)) = Join(Join(p, u), q)
  BY <1>1, <1>3, JoinReplaced
<1>6. Words(Join(Join(p, u), q)) = Join(Join(Words(p), Words(u)), Words(q))
  BY <1>1, JoinLaws
<1> QED  BY <1>2, <1>4, <1>5, <1>6

\* A blank text is what is trimmed to nothing.
LEMMA TrimmedToNothing ==
    ASSUME NEW S, NEW text \in Seq(S), Trim(text) = <<>>
    PROVE  Words(text) = <<>>
<1>1. Solid(text) = {}
  BY Trimmed
<1> QED  BY <1>1, WordsOfBlank

\* A blank text, and no other, is trimmed to nothing.
LEMMA BlankTrimmed ==
    ASSUME NEW S, NEW text \in Seq(S) PROVE Trim(text) = <<>> <=> Solid(text) = {}
  BY Trimmed DEF Trim

\* A message made of another by a rule: its first text is the replacement and what follows
\* a prefix, or is gone, and the other segments stay.
ReplacedBy(rule, before, after) ==
    LET at == Min(TextAt(before))
    IN  \E text \in Left(rule, Lead(before)) :
            IF Solid(text) = {} /\ before.format = "array"
            THEN after.body = RemoveAt(before.body, at)
            ELSE after.body = [before.body EXCEPT ![at].text = text]

\* What the first of its prefixes that a text begins with leaves of it is what the rule may
\* leave of it.
LEMMA LeftByFirst ==
    ASSUME NEW rule \in MessageRule, NEW old \in Seq(Word), NEW i \in DOMAIN rule.prefix,
           rule.prefix[i] # <<>>, IsPrefix(rule.prefix[i], old)
    PROVE  rule.replace \o SubSeq(old, Len(rule.prefix[i]) + 1, Len(old)) \in Left(rule, old)
<1> DEFINE p    == rule.prefix[i]
           rest == SubSeq(old, Len(p) + 1, Len(old))
<1>1. p \in Seq(Word) /\ p \in ToSet(rule.prefix) \ {<<>>}
  BY DEF MessageRule, ToSet
<1>2. Len(p) <= Len(old) /\ p = SubSeq(old, 1, Len(p)) /\ Len(p) \in Nat /\ Len(old) \in Nat
  BY <1>1 DEF IsPrefix
<1> HIDE DEF p
<1>3. p \o rest = old
  <2>1. 1 \in 1..Len(old) + 1 /\ Len(p) \in 1 - 1..Len(old) /\ Len(old) \in Len(p)..Len(old)
    BY <1>2
  <2>2. SubSeq(old, 1, Len(p)) \o SubSeq(old, Len(p) + 1, Len(old)) = SubSeq(old, 1, Len(old))
    BY <2>1, ConcatAdjacentSubSeq
  <2>3. SubSeq(old, 1, Len(old)) = old
    BY SubSeqFull
  <2> QED  BY <1>2, <2>2, <2>3
<1>4. rest \in Suffixes(old)
  <2>1. CASE Len(p) < Len(old)
    <3>1. Len(p) + 1 \in 1..Len(old)
      BY <1>2, <2>1
    <3> QED  BY <3>1 DEF Suffixes
  <2>2. CASE Len(p) = Len(old)
    <3>1. rest = <<>>
      BY <1>2, <2>2
    <3> QED  BY <3>1 DEF Suffixes
  <2> QED  BY <1>2, <2>1, <2>2
<1> QED  BY <1>1, <1>3, <1>4 DEF Left, p

\* Rewrite replaces a prefix of the rule, keeps all segments but the first text, and what
\* raw_message says of them.
LEMMA RewriteKeeps ==
    ASSUME NEW rule \in MessageRule, NEW msg \in Message, PrefixHits(rule, msg) # {}
    PROVE  LET after == Rewrite(rule, msg)
           IN  /\ ReplacedBy(rule, msg, after)
               /\ msg.raw = Render(msg.body) =>
                      \/ Words(Render(after.body)) = Words(after.raw)
                      \/ LeadOccursEarlier(msg)
<1> DEFINE after == Rewrite(rule, msg)
           at    == Min(TextAt(msg))
           seg   == msg.body[at]
           hit   == Min(PrefixHits(rule, msg))
           old   == Lead(msg)
           cut   == Len(rule.prefix[hit])
           text  == rule.replace \o SubSeq(old, cut + 1, Len(old))
           new   == [seg EXCEPT !.text = text]
           l     == SubSeq(msg.body, 1, at - 1)
           r     == SubSeq(msg.body, at + 1, Len(msg.body))
           gone  == Trim(text) = <<>> /\ msg.format = "array"
<1>1. /\ msg.body \in Seq(Segment)
      /\ at \in 1..Len(msg.body) /\ at \in TextAt(msg)
      /\ seg \in Segment
      /\ old = Trim(seg.text)
      /\ Solid(seg.text) # {}
      /\ cut \in Nat
  BY LeadFound
<1>2. after.body = IF gone THEN RemoveAt(msg.body, at) ELSE [msg.body EXCEPT ![at].text = text]
  BY DEF Rewrite, Message
<1>3. after.raw = ReplaceFirstSubSeq(text, old, msg.raw)
  BY DEF Rewrite, Message
<1> HIDE DEF after, at, hit, old, cut
<1>4. seg.text \in Seq(Word) /\ seg.kind = "text"
  BY <1>1 DEF Segment, TextAt
<1>5. old \in Seq(Word) /\ old # <<>>
  BY <1>1, <1>4, Trimmed
<1>6. text \in Seq(Word)
  <2>1. rule.replace \in Seq(Word)
    BY DEF MessageRule
  <2>2. SubSeq(old, cut + 1, Len(old)) \in Seq(Word)
    <3>1. Len(old) \in Nat /\ \A i \in cut + 1..Len(old) : old[i] \in Word
      BY <1>1, <1>5
    <3> QED  BY <1>1, <3>1, SubSeqProperties
  <2> QED  BY <2>1, <2>2, ConcatProperties
<1> HIDE DEF text
<1>7. /\ new \in Segment /\ new.text = text /\ new.kind = "text"
      /\ [msg.body EXCEPT ![at].text = text] = [msg.body EXCEPT ![at] = new]
  BY <1>1, <1>4, <1>6 DEF Segment
<1> HIDE DEF new, seg
<1>8. /\ l \in Seq(Segment) /\ r \in Seq(Segment)
      /\ msg.body = (l \o <<seg>>) \o r
      /\ [msg.body EXCEPT ![at] = new] = (l \o <<new>>) \o r
      /\ RemoveAt([msg.body EXCEPT ![at] = new], at) = RemoveAt(msg.body, at)
      /\ RemoveAt(msg.body, at) = l \o r
  <2> DEFINE body == msg.body
  <2>1. body \in Seq(Segment) /\ at \in 1..Len(body) /\ new \in Segment
    BY <1>1, <1>7
  <2> HIDE DEF body
  <2>2. /\ SubSeq(body, 1, at - 1) \in Seq(Segment)
        /\ SubSeq(body, at + 1, Len(body)) \in Seq(Segment)
        /\ body = (SubSeq(body, 1, at - 1) \o <<body[at]>>) \o SubSeq(body, at + 1, Len(body))
        /\ [body EXCEPT ![at] = new]
               = (SubSeq(body, 1, at - 1) \o <<new>>) \o SubSeq(body, at + 1, Len(body))
        /\ RemoveAt([body EXCEPT ![at] = new], at) = RemoveAt(body, at)
    BY <2>1, SplitAt, ZenonT(40)
  <2>3. RemoveAt(body, at) = SubSeq(body, 1, at - 1) \o SubSeq(body, at + 1, Len(body))
    BY DEF RemoveAt
  <2> QED  BY <2>2, <2>3 DEF body, seg
<1>9. ReplacedBy(rule, msg, after)
  <2>1. text \in Left(rule, old)
    <3>1. hit \in DOMAIN rule.prefix /\ rule.prefix[hit] # <<>> /\ IsPrefix(rule.prefix[hit], old)
      <4>1. PrefixHits(rule, msg) \in SUBSET Nat
        BY DEF PrefixHits, MessageRule
      <4>2. hit \in PrefixHits(rule, msg)
        BY <4>1, Least DEF hit
      <4> QED  BY <4>2 DEF PrefixHits, old
    <3> QED  BY <1>5, <3>1, LeftByFirst DEF text, cut
  <2>2. Trim(text) = <<>> <=> Solid(text) = {}
    BY <1>6, BlankTrimmed
  <2> QED  BY <1>2, <2>1, <2>2 DEF ReplacedBy, at, old
<1>10. ASSUME msg.raw = Render(msg.body), ~LeadOccursEarlier(msg)
       PROVE  Words(Render(after.body)) = Words(after.raw)
  <2> DEFINE a == Render(l)
             b == Render(r)
  <2> HIDE DEF l, r
  <2>1. a \in Seq(Word) /\ b \in Seq(Word)
    BY <1>8, RenderType
  <2>2. Render(msg.body) = Join(Join(a, seg.text), b)
    BY <1>1, <1>8, JoinRendered
  <2>3. PICK pre, post \in Seq(Word) :
            /\ Words(pre) = <<>> /\ Words(post) = <<>>
            /\ SubSeq(seg.text, 1, Max(Solid(seg.text))) = Join(pre, old)
            /\ seg.text = Join(Join(pre, old), post)
    BY <1>1, <1>4, JoinTrimmed
  <2>4. old \notin SubSeqs(Front(Join(a, Join(pre, old))))
    BY <1>10, <2>3 DEF LeadOccursEarlier, at, old, seg, l, Join
  <2> HIDE DEF a, b
  <2>5. Words(after.raw) = Join(Join(Words(a), Words(text)), Words(b))
    <3>1. msg.raw = Join(Join(a, Join(Join(pre, old), post)), b)
      BY <1>10, <2>2, <2>3
    <3>2. Words(ReplaceFirstSubSeq(text, old, msg.raw))
              = Join(Join(Words(a), Words(text)), Words(b))
      BY <1>5, <1>6, <2>1, <2>3, <2>4, <3>1, RawReplaced
    <3> QED  BY <1>3, <3>2
  <2>6. Words(a) \in Seq(Word) /\ Words(b) \in Seq(Word)
    BY <2>1, WordsType
  <2>7. CASE gone
    <3>1. after.body = l \o r
      BY <1>2, <1>8, <2>7
    <3>2. Render(after.body) = Join(a, b)
      BY <1>1, <1>8, <3>1, JoinRendered DEF a, b
    <3>3. Words(Render(after.body)) = Join(Words(a), Words(b))
      BY <2>1, <3>2, JoinLaws
    <3>4. Words(text) = <<>>
      BY <1>6, <2>7, TrimmedToNothing
    <3> QED  BY <2>5, <2>6, <3>3, <3>4, JoinLaws
  <2>8. CASE ~gone
    <3>1. after.body = (l \o <<new>>) \o r
      BY <1>2, <1>7, <1>8, <2>8
    <3>2. Render(after.body) = Join(Join(a, text), b)
      BY <1>7, <1>8, <3>1, JoinRendered DEF a, b
    <3>3. Words(Render(after.body)) = Join(Join(Words(a), Words(text)), Words(b))
      BY <1>6, <2>1, <3>2, JoinLaws
    <3> QED  BY <2>5, <3>3
  <2> QED  BY <2>7, <2>8
<1> QED  BY <1>9, <1>10 DEF after

-----------------------------------------------------------------------------
(***************************************************************************)
(* The machine.                                                            *)
(***************************************************************************)
\* The rule of a filter for the messages of a kind.
KindRule(f, msg) == IF msg.kind = "group" THEN f.groupMessage ELSE f.privateMessage

\* What a judgement made of a message: nothing, or, if it has its JSON, a rewrite under the
\* rule of its kind, one of whose prefixes it begins with.
Made(f, before, reason, after) ==
    IF reason = "prefix"
    THEN /\ before.intact
         /\ PrefixHits(KindRule(f, before), before) # {}
         /\ after = Rewrite(KindRule(f, before), before)
    ELSE after = before

MadeInv ==
    WasJudged =>
        /\ Made(filter, outcome.input, outcome.reason, outcome.msg)
        /\ outcome.reason = "prefix" => outcome.input \in Frames

\* A compiled message rule is a message rule.
LEMMA CompiledIsRule ==
    ASSUME NEW c \in CompiledRules
    PROVE  Compiled(c).privateMessage \in MessageRule /\ Compiled(c).groupMessage \in MessageRule
<1>1. \A rule \in MessageRule : CompileMessage(rule) \in MessageRule
  BY DEF CompileMessage, MessageRule
<1>2. /\ Inherit(c.privateMessage, c.message) \in MessageRule
      /\ Inherit(c.groupMessage, c.message) \in MessageRule
  BY DEF CompiledRules, Inherit
<1> QED  BY <1>1, <1>2 DEF Compiled

\* Allow rewrites a message under the rule of its kind, or leaves it as it is.
LEMMA AllowMakes ==
    ASSUME NEW f, f.privateMessage \in MessageRule, f.groupMessage \in MessageRule,
           NEW msg, msg.intact \in BOOLEAN
    PROVE  Made(f, msg, Allow(f, msg).reason, Allow(f, msg).msg)
<1>1. Made(f, msg, JudgeText(KindRule(f, msg), msg).reason, JudgeText(KindRule(f, msg), msg).msg)
  <2> DEFINE rule == KindRule(f, msg)
             v == JudgeText(rule, msg)
  <2>1. rule.mode \in Modes
    BY DEF MessageRule, KindRule
  <2> HIDE DEF rule
  <2>2. \/ v.reason # "prefix" /\ v.msg = msg
        \/ /\ v.reason = "prefix" /\ msg.intact
           /\ PrefixHits(rule, msg) # {} /\ v.msg = Rewrite(rule, msg)
    <3>1. CASE rule.mode \in {"", "on", "off"}
      BY <3>1 DEF JudgeText, Says
    <3>2. CASE rule.mode \notin {"", "on", "off"} /\ PrefixHits(rule, msg) # {}
      <4>1. v = IF msg.intact THEN Says(TRUE, "prefix", Rewrite(rule, msg))
                              ELSE Says(FALSE, "panic", msg)
        BY <3>2 DEF JudgeText
      <4> HIDE DEF v
      <4> QED  BY <3>2, <4>1 DEF Says
    <3>3. CASE rule.mode \in {"default", "unknown"} /\ PrefixHits(rule, msg) = {}
      BY <3>3 DEF JudgeText, Says
    <3>4. CASE rule.mode = "whitelist" /\ PrefixHits(rule, msg) = {}
      BY <3>4 DEF JudgeText, Says
    <3>5. CASE rule.mode = "blacklist" /\ PrefixHits(rule, msg) = {}
      BY <3>5 DEF JudgeText, Says
    <3> QED  BY <2>1, <3>1, <3>2, <3>3, <3>4, <3>5 DEF Modes
  <2> HIDE DEF v
  <2> QED  BY <2>2 DEF Made, rule, v
<1>2. \/ Allow(f, msg) = JudgeText(KindRule(f, msg), msg)
      \/ Allow(f, msg).reason # "prefix" /\ Allow(f, msg).msg = msg
  BY DEF Allow, Says, KindRule
<1> HIDE DEF KindRule
<1> QED  BY <1>1, <1>2 DEF Made

\* Each step keeps it: a frame or a probe is judged by Allow or passes as it is, and a
\* probe, which has no JSON, is not rewritten.
LEMMA MadeStep == FilterInv /\ MadeInv /\ [Next]_vars => MadeInv'
<1> SUFFICES ASSUME FilterInv, MadeInv, [Next]_vars PROVE MadeInv'
  OBVIOUS
<1>1. CASE Compile
  <2>1. ~WasJudged'
    BY <1>1 DEF Compile, WasJudged
  <2> QED  BY <2>1 DEF MadeInv
<1>2. ASSUME NEW msg, msg.intact \in BOOLEAN, filter # NoFilter
      PROVE  Made(filter, msg, Allow(filter, msg).reason, Allow(filter, msg).msg)
  <2>1. filter = Compiled(rules) /\ rules \in CompiledRules
    BY <1>2 DEF FilterInv
  <2> QED  BY <1>2, <2>1, CompiledIsRule, AllowMakes
<1>3. ASSUME NEW msg
      PROVE  /\ Made(filter, msg, Says(TRUE, "none", msg).reason, Says(TRUE, "none", msg).msg)
             /\ Says(TRUE, "none", msg).reason # "prefix"
  BY DEF Made, Says
<1>4. ASSUME NEW msg \in Frames, Deliver(msg) PROVE MadeInv'
  <2>1. msg.intact \in BOOLEAN
    BY RulesAssumption DEF Message
  <2>2. PICK v : Judged(msg, v) /\ Made(filter, msg, v.reason, v.msg)
    <3>1. CASE filter # NoFilter /\ Judged(msg, Allow(filter, msg))
      <4>1. Made(filter, msg, Allow(filter, msg).reason, Allow(filter, msg).msg)
        BY <1>2, <2>1, <3>1
      <4> QED  BY <3>1, <4>1
    <3>2. CASE Judged(msg, Says(TRUE, "none", msg))
      BY <1>3, <3>2
    <3> QED  BY <1>4, <3>1, <3>2 DEF Deliver
  <2> QED  BY <1>4, <2>2 DEF Deliver, Judged, MadeInv
<1>5. ASSUME NEW msg \in Frames, Probe(msg) PROVE MadeInv'
  <2> DEFINE asked == Asked(msg)
  <2>1. ~asked.intact /\ asked.intact \in BOOLEAN
    BY RulesAssumption DEF Asked, Message
  <2>2. \/ filter # NoFilter /\ Judged(asked, Allow(filter, asked))
        \/ Judged(asked, Says(TRUE, "none", asked))
    BY <1>5 DEF Probe
  <2> HIDE DEF asked
  <2>3. PICK v : Judged(asked, v) /\ Made(filter, asked, v.reason, v.msg)
    <3>1. CASE filter # NoFilter /\ Judged(asked, Allow(filter, asked))
      <4>1. Made(filter, asked, Allow(filter, asked).reason, Allow(filter, asked).msg)
        BY <1>2, <2>1, <3>1
      <4> QED  BY <3>1, <4>1
    <3>2. CASE Judged(asked, Says(TRUE, "none", asked))
      BY <1>3, <3>2
    <3> QED  BY <2>2, <3>1, <3>2
  <2>4. v.reason # "prefix"
    BY <2>1, <2>3 DEF Made
  <2>5. /\ filter' = filter
        /\ outcome'.input = asked /\ outcome'.reason = v.reason /\ outcome'.msg = v.msg
    <3>1. filter' = filter
      BY <1>5 DEF Probe
    <3> QED  BY <2>3, <3>1 DEF Judged
  <2> QED  BY <2>3, <2>4, <2>5 DEF MadeInv
<1>6. CASE UNCHANGED vars
  BY <1>6 DEF MadeInv, WasJudged, vars
<1> QED  BY <1>1, <1>4, <1>5, <1>6 DEF Next

\* Every judged message is the one that came in, or the rewrite of a frame under the rule
\* of the app's filter for its kind, one of whose prefixes it begins with.
THEOREM OnlyPrefixesRewrite == Spec => [](FilterInv /\ MadeInv)
<1>1. Init => MadeInv
  BY DEF Init, MadeInv, WasJudged
<1>2. Inv => FilterInv
  BY DEF Inv
<1> QED  BY <1>1, <1>2, MadeStep, Judgements, PTL DEF Spec

\* The compiled rule of a message's kind has the prefixes and the replacement of the rule
\* that judges its text as configured.
LEMMA JudgedBy ==
    ASSUME rules \in CompiledRules, NEW msg, NEW after,
           ReplacedBy(KindRule(Compiled(rules), msg), msg, after)
    PROVE  PrefixReplaced(msg, after)
<1> DEFINE text == TextRule(rules, msg)
           rule == KindRule(Compiled(rules), msg)
<1>1. rule = CompileMessage(text)
  BY DEF KindRule, Compiled, TextRule
<1>2. text \in MessageRule
  BY TextRuleIsRule
<1>3. text \in Judging(msg)
  BY Levels DEF Judging
<1> HIDE DEF text
<1>4. rule.prefix = text.prefix /\ rule.replace = text.replace
  BY <1>1, <1>2 DEF CompileMessage, MessageRule
<1> HIDE DEF rule
<1>5. Left(rule, Lead(msg)) = Left(text, Lead(msg))
  BY <1>4 DEF Left
<1>6. ReplacedBy(rule, msg, after)
  BY DEF rule
<1> QED  BY <1>3, <1>5, <1>6 DEF ReplacedBy, PrefixReplaced

\* For all rules and messages, prefixPass replaces a prefix of the rule as configured and
\* nothing else of the text, keeps the other segments in order, and keeps raw_message in
\* step with them unless the text it replaces occurs there earlier.
THEOREM RewriteCorrect == Spec => []RewriteKeepsRest
<1>1. FilterInv /\ MadeInv => RewriteKeepsRest
  <2> SUFFICES ASSUME FilterInv, MadeInv, WasJudged PROVE RewriteKeepsRest
    BY DEF RewriteKeepsRest
  <2> DEFINE before == outcome.input
             after  == outcome.msg
  <2>1. Made(filter, before, outcome.reason, after)
    BY DEF MadeInv
  <2>2. CASE outcome.reason # "prefix"
    BY <2>1, <2>2 DEF Made, RewriteKeepsRest
  <2>3. CASE outcome.reason = "prefix"
    <3> DEFINE rule == KindRule(filter, before)
    <3>1. PrefixHits(rule, before) # {} /\ after = Rewrite(rule, before)
      BY <2>1, <2>3 DEF Made
    <3>2. filter = Compiled(rules) /\ rules \in CompiledRules
      BY DEF FilterInv, WasJudged
    <3>3. rule \in MessageRule
      BY <3>2, CompiledIsRule DEF KindRule
    <3>4. before \in Message
      BY <2>3, RulesAssumption DEF MadeInv
    <3> HIDE DEF before, after, rule
    <3>5. /\ ReplacedBy(rule, before, after)
          /\ before.raw = Render(before.body) =>
                 \/ Words(Render(after.body)) = Words(after.raw)
                 \/ LeadOccursEarlier(before)
      BY <3>1, <3>3, <3>4, RewriteKeeps
    <3>6. PrefixReplaced(before, after)
      BY <3>2, <3>5, JudgedBy DEF rule
    <3> QED  BY <2>3, <3>5, <3>6 DEF RewriteKeepsRest, before, after
  <2> QED  BY <2>2, <2>3
<1> QED  BY <1>1, OnlyPrefixesRewrite, PTL

-----------------------------------------------------------------------------
(***************************************************************************)
(* What no frame meets.                                                    *)
(***************************************************************************)
\* No frame makes the judgement panic, whatever the rules: it has its JSON, into which
\* prefixPass writes.  Only a probe lacks it.
THEOREM FramesNeverPanic ==
    Spec => [][\A msg \in Frames : Deliver(msg) => outcome'.reason # "panic"]_vars
<1>1. ASSUME NEW rule, NEW msg, msg.intact, rule.mode \in Modes
      PROVE  JudgeText(rule, msg).reason # "panic"
  <2> DEFINE v == JudgeText(rule, msg)
  <2>1. CASE rule.mode \in {"", "on", "off"}
    BY <2>1 DEF JudgeText, Says
  <2>2. CASE rule.mode \notin {"", "on", "off"} /\ PrefixHits(rule, msg) # {}
    <3>1. v = Says(TRUE, "prefix", Rewrite(rule, msg))
      BY <1>1, <2>2 DEF JudgeText
    <3> QED  BY <3>1 DEF Says
  <2>3. CASE rule.mode \in {"default", "unknown"} /\ PrefixHits(rule, msg) = {}
    BY <2>3 DEF JudgeText, Says
  <2>4. CASE rule.mode = "whitelist" /\ PrefixHits(rule, msg) = {}
    BY <2>4 DEF JudgeText, Says
  <2>5. CASE rule.mode = "blacklist" /\ PrefixHits(rule, msg) = {}
    BY <2>5 DEF JudgeText, Says
  <2> QED  BY <1>1, <2>1, <2>2, <2>3, <2>4, <2>5 DEF Modes
<1>2. ASSUME FilterInv, NEW msg \in Frames, Deliver(msg) PROVE outcome'.reason # "panic"
  <2>1. /\ filter.privateMessage \in MessageRule /\ filter.groupMessage \in MessageRule
        /\ msg.intact
    BY <1>2, CompiledIsRule, RulesAssumption DEF FilterInv, Deliver
  <2>2. filter.privateMessage.mode \in Modes /\ filter.groupMessage.mode \in Modes
    BY <2>1 DEF MessageRule
  <2>3. \/ Allow(filter, msg) = JudgeText(filter.groupMessage, msg)
        \/ Allow(filter, msg) = JudgeText(filter.privateMessage, msg)
        \/ Allow(filter, msg).reason # "panic"
    BY DEF Allow, Says
  <2>4. Allow(filter, msg).reason # "panic"
    BY <1>1, <2>1, <2>2, <2>3
  <2>5. \E v : v.reason # "panic" /\ Judged(msg, v)
    BY <1>2, <2>4 DEF Deliver, Says
  <2> QED  BY <2>5 DEF Judged
<1>3. FilterInv /\ [Next]_vars
          => [\A msg \in Frames : Deliver(msg) => outcome'.reason # "panic"]_vars
  BY <1>2
<1>4. Inv => FilterInv
  BY DEF Inv
<1> QED  BY <1>3, <1>4, Judgements, PTL DEF Spec
=============================================================================
