------------------------ MODULE SessionEdits_proofs ------------------------
(***************************************************************************)
(* What holds of SessionEdits for every number of actors, every recording, *)
(* every pass over it and any number of requests, diarizations and edits.  *)
(*                                                                         *)
(* The lemmas follow the code from the inside: what joining and cutting    *)
(* sequences does, what each operation makes of the rows it is given, then *)
(* what a step leaves of the rows and of what everybody has read.  The     *)
(* text of rows is FlattenSeq, which recurs: what it is for every argument *)
(* is proved by induction, with a set for the statement (Inductive).       *)
(***************************************************************************)
EXTENDS SessionEdits, SequenceTheorems, WellFoundedInduction, TLAPS

-----------------------------------------------------------------------------
(* Numbers: a set of them has a least one, and what holds of 0 and is handed *)
(* on holds of all.                                                         *)
LEMMA LeastNumber ==
    ASSUME NEW S \in SUBSET Nat, S # {}
    PROVE  Min(S) \in S /\ \A j \in S : Min(S) <= j
<1> DEFINE R == OpToRel(<, Nat)
<1>1. IsWellFoundedOn(R, Nat)
  BY NatLessThanWellFounded
<1>2. \A j, k \in Nat : j < k => <<j, k>> \in R
  BY DEF OpToRel
<1> HIDE DEF R
<1>3. PICK k \in S : \A j \in S : ~(<<j, k>> \in R)
  BY <1>1, WFMin
<1>4. ASSUME NEW j \in S PROVE k <= j
  <2>1. j \in Nat /\ k \in Nat /\ ~(j < k)
    BY <1>2, <1>3
  <2>. QED
    BY <2>1
<1>. QED
  BY <1>4 DEF Min

(* Induction, with a set for the statement.                                 *)
LEMMA Inductive ==
    ASSUME NEW S, 0 \in S, \A n \in Nat : n \in S => n + 1 \in S
    PROVE  \A n \in Nat : n \in S
<1>1. SUFFICES ASSUME NEW n0 \in Nat \ S PROVE FALSE
  OBVIOUS
<1> DEFINE k == Min(Nat \ S)
<1>2. k \in Nat \ S /\ \A j \in Nat \ S : k <= j
  BY LeastNumber
<1> HIDE DEF k
<1>3. k # 0 /\ k - 1 \in Nat
  BY <1>2
<1>4. k - 1 \in S
  BY <1>2, <1>3
<1>. QED
  BY <1>2, <1>3, <1>4

-----------------------------------------------------------------------------
(* FlattenSeq: it is the last value of a function that recurs over the      *)
(* pieces.                                                                  *)
Joins(f, ss, n) == f = [i \in 1..n |-> IF i = 1 THEN ss[i] ELSE f[i - 1] \o ss[i]]

(* There is such a function for every length,                               *)
LEMMA JoinsExists ==
    ASSUME NEW ss
    PROVE  \A n \in Nat : \E f : Joins(f, ss, n)
<1> DEFINE S == {n \in Nat : \E f : Joins(f, ss, n)}
<1>1. 0 \in S
  <2>1. Joins([i \in 1..0 |-> <<>>], ss, 0)
    BY DEF Joins
  <2>. QED
    BY <2>1
<1>2. ASSUME NEW n \in Nat, n \in S PROVE n + 1 \in S
  <2>1. PICK f : Joins(f, ss, n)
    BY <1>2
  <2> DEFINE x == IF n = 0 THEN ss[1] ELSE f[n] \o ss[n + 1]
             g == [i \in 1..n + 1 |-> IF i = n + 1 THEN x ELSE f[i]]
  <2>2. ASSUME NEW i \in 1..n + 1
        PROVE  g[i] = IF i = 1 THEN ss[i] ELSE g[i - 1] \o ss[i]
    <3>1. CASE i = n + 1
      <4>1. g[i] = x /\ (n > 0 => g[n] = f[n]) /\ i - 1 = n
        BY <3>1
      <4>. HIDE DEF g
      <4>. QED
        BY <3>1, <4>1
    <3>2. CASE i \in 1..n
      <4>1. f[i] = IF i = 1 THEN ss[i] ELSE f[i - 1] \o ss[i]
        BY <2>1, <3>2 DEF Joins
      <4>2. g[i] = f[i] /\ (i # 1 => g[i - 1] = f[i - 1])
        BY <3>2
      <4>. HIDE DEF g
      <4>. QED
        BY <4>1, <4>2
    <3>. QED
      BY <3>1, <3>2
  <2>3. Joins(g, ss, n + 1)
    <3> DEFINE h == [i \in 1..n + 1 |-> IF i = 1 THEN ss[i] ELSE g[i - 1] \o ss[i]]
    <3>1. \A i \in 1..n + 1 : g[i] = h[i]
      <4> HIDE DEF g
      <4>. QED
        BY <2>2
    <3>2. g = h
      BY <3>1
    <3>. QED
      BY <3>2 DEF Joins
  <2>. QED
    BY <2>3
<1>. HIDE DEF S
<1>3. \A n \in Nat : n \in S
  BY <1>1, <1>2, Inductive
<1>. QED
  BY <1>3 DEF S

(* it is the one FlattenSeq takes,                                          *)
LEMMA FlattenIs ==
    ASSUME NEW ss
    PROVE  FlattenSeq(ss) = IF Len(ss) = 0 THEN ss
                            ELSE (CHOOSE f : Joins(f, ss, Len(ss)))[Len(ss)]
BY DEF FlattenSeq, Joins

(* and its values are sequences.                                            *)
LEMMA FlattenDef ==
    ASSUME NEW T, NEW ss \in Seq(Seq(T)), ss # <<>>
    PROVE  \E f : /\ Joins(f, ss, Len(ss)) /\ FlattenSeq(ss) = f[Len(ss)]
                  /\ \A i \in 1..Len(ss) : f[i] \in Seq(T)
<1> DEFINE f == CHOOSE f : Joins(f, ss, Len(ss))
<1>0. Len(ss) \in Nat
  OBVIOUS
<1>1. Joins(f, ss, Len(ss))
  BY <1>0, JoinsExists, Zenon
<1>2. FlattenSeq(ss) = f[Len(ss)]
  <2>1. FlattenSeq(ss) = IF Len(ss) = 0 THEN ss ELSE f[Len(ss)]
    BY FlattenIs
  <2>. QED
    BY <2>1
<1> HIDE DEF f
<1>3. \A i \in 1..Len(ss) : f[i] = IF i = 1 THEN ss[i] ELSE f[i - 1] \o ss[i]
  BY <1>1 DEF Joins
<1> DEFINE S == {n \in Nat : n \in 1..Len(ss) => f[n] \in Seq(T)}
<1>4. 0 \in S
  OBVIOUS
<1>5. ASSUME NEW n \in Nat, n \in S PROVE n + 1 \in S
  <2> SUFFICES ASSUME n + 1 \in 1..Len(ss) PROVE f[n + 1] \in Seq(T)
    OBVIOUS
  <2>1. f[n + 1] = IF n + 1 = 1 THEN ss[n + 1] ELSE f[n] \o ss[n + 1]
    BY <1>3
  <2>2. ss[n + 1] \in Seq(T) /\ (n # 0 => f[n] \in Seq(T))
    BY <1>5
  <2>. QED
    BY <2>1, <2>2
<1>6. \A n \in Nat : n \in S
  <2> HIDE DEF S
  <2>. QED
    BY <1>4, <1>5, Inductive
<1>. QED
  BY <1>1, <1>2, <1>6

(* Nothing flattens to nothing.                                             *)
LEMMA FlattenEmpty == FlattenSeq(<<>>) = <<>>
<1>1. Len(<<>>) = 0
  OBVIOUS
<1>. QED
  BY <1>1, FlattenIs

(* Flattening sequences over T gives one over T.                            *)
LEMMA FlattenType ==
    ASSUME NEW T, NEW ss \in Seq(Seq(T))
    PROVE  FlattenSeq(ss) \in Seq(T)
<1>1. CASE ss = <<>>
  <2>1. <<>> \in Seq(T)
    OBVIOUS
  <2>. QED
    BY <1>1, <2>1, FlattenEmpty
<1>2. CASE ss # <<>>
  <2>1. Len(ss) \in 1..Len(ss)
    BY <1>2
  <2>. QED
    BY <1>2, <2>1, FlattenDef
<1>. QED
  BY <1>1, <1>2

(* One more piece comes last.                                               *)
LEMMA FlattenAppend ==
    ASSUME NEW T, NEW ss \in Seq(Seq(T)), NEW s \in Seq(T)
    PROVE  FlattenSeq(Append(ss, s)) = FlattenSeq(ss) \o s
<1> DEFINE tt == Append(ss, s)
<1>1. /\ tt \in Seq(Seq(T)) /\ Len(tt) = Len(ss) + 1 /\ tt # <<>> /\ tt[Len(tt)] = s
      /\ \A i \in 1..Len(ss) : tt[i] = ss[i]
  BY AppendProperties
<1>0. tt = Append(ss, s)
  OBVIOUS
<1> HIDE DEF tt
<1>2. PICK g : /\ Joins(g, tt, Len(tt)) /\ FlattenSeq(tt) = g[Len(tt)]
  BY <1>1, FlattenDef
<1>3. \A i \in 1..Len(tt) : g[i] = IF i = 1 THEN tt[i] ELSE g[i - 1] \o tt[i]
  BY <1>2 DEF Joins
<1>4. CASE ss = <<>>
  <2>1. g[1] = s
    BY <1>1, <1>3, <1>4
  <2>. QED
    BY <1>1, <1>2, <1>4, <2>1, <1>0, FlattenEmpty
<1>5. CASE ss # <<>>
  <2>1. PICK f : Joins(f, ss, Len(ss)) /\ FlattenSeq(ss) = f[Len(ss)]
    BY <1>5, FlattenDef
  <2>2. \A i \in 1..Len(ss) : f[i] = IF i = 1 THEN ss[i] ELSE f[i - 1] \o ss[i]
    BY <2>1 DEF Joins
  <2> DEFINE S == {n \in Nat : n \in 1..Len(ss) => g[n] = f[n]}
  <2>3. 0 \in S
    OBVIOUS
  <2>4. ASSUME NEW n \in Nat, n \in S PROVE n + 1 \in S
    <3> SUFFICES ASSUME n + 1 \in 1..Len(ss) PROVE g[n + 1] = f[n + 1]
      OBVIOUS
    <3>1. g[n + 1] = IF n + 1 = 1 THEN tt[n + 1] ELSE g[n] \o tt[n + 1]
      BY <1>1, <1>3
    <3>2. f[n + 1] = IF n + 1 = 1 THEN ss[n + 1] ELSE f[n] \o ss[n + 1]
      BY <2>2
    <3>3. tt[n + 1] = ss[n + 1] /\ (n # 0 => g[n] = f[n])
      BY <1>1, <2>4
    <3>. QED
      BY <3>1, <3>2, <3>3
  <2>5. \A n \in Nat : n \in S
    <3> HIDE DEF S
    <3>. QED
      BY <2>3, <2>4, Inductive
  <2>6. Len(ss) \in Nat /\ Len(ss) # 0
    BY <1>5
  <2>7. g[Len(ss)] = f[Len(ss)]
    BY <2>5, <2>6
  <2>8. g[Len(tt)] = g[Len(ss)] \o tt[Len(tt)]
    <3>1. Len(tt) \in 1..Len(tt) /\ Len(tt) # 1 /\ Len(tt) - 1 = Len(ss)
      BY <1>1, <2>6
    <3>. QED
      BY <1>3, <3>1
  <2>. QED
    BY <1>0, <1>1, <1>2, <2>1, <2>7, <2>8
<1>. QED
  BY <1>4, <1>5

(* Which of two sequences are joined first does not matter.                  *)
Associate(a, b, c) == (a \o b) \o c = a \o (b \o c)
LEMMA ThreeAssociate ==
    ASSUME NEW T
    PROVE  \A a, b, c \in Seq(T) : Associate(a, b, c)
<1>1. ASSUME NEW a \in Seq(T), NEW b \in Seq(T), NEW c \in Seq(T)
      PROVE  (a \o b) \o c = a \o (b \o c)
  OBVIOUS
<1>. QED
  BY <1>1 DEF Associate

(* Pieces then pieces.                                                      *)
LEMMA FlattenConcat ==
    ASSUME NEW T, NEW ss \in Seq(Seq(T)), NEW tt \in Seq(Seq(T))
    PROVE  FlattenSeq(ss \o tt) = FlattenSeq(ss) \o FlattenSeq(tt)
<1> DEFINE S == {n \in Nat : n <= Len(tt) =>
                    FlattenSeq(ss \o SubSeq(tt, 1, n)) = FlattenSeq(ss) \o FlattenSeq(SubSeq(tt, 1, n))}
<1>1. 0 \in S
  <2>1. SubSeq(tt, 1, 0) = <<>>
    OBVIOUS
  <2>2. ss \o <<>> = ss /\ FlattenSeq(ss) \o <<>> = FlattenSeq(ss)
    BY FlattenType, ConcatEmptySeq
  <2>. QED
    BY <2>1, <2>2, FlattenEmpty
<1>2. ASSUME NEW n \in Nat, n \in S PROVE n + 1 \in S
  <2> SUFFICES ASSUME n + 1 <= Len(tt)
               PROVE  FlattenSeq(ss \o SubSeq(tt, 1, n + 1))
                        = FlattenSeq(ss) \o FlattenSeq(SubSeq(tt, 1, n + 1))
    OBVIOUS
  <2> DEFINE uu == SubSeq(tt, 1, n)
             t == tt[n + 1]
  <2>1. uu \in Seq(Seq(T)) /\ t \in Seq(T)
    OBVIOUS
  <2>2. SubSeq(tt, 1, n + 1) = Append(uu, t)
    OBVIOUS
  <2>3. FlattenSeq(ss \o uu) = FlattenSeq(ss) \o FlattenSeq(uu)
    BY <1>2
  <2> HIDE DEF uu, t
  <2>4. ss \o Append(uu, t) = Append(ss \o uu, t)
    BY <2>1
  <2>5. ss \o uu \in Seq(Seq(T))
    BY <2>1
  <2>6. FlattenSeq(ss \o Append(uu, t)) = FlattenSeq(ss \o uu) \o t
    BY <2>1, <2>4, <2>5, FlattenAppend
  <2>7. FlattenSeq(Append(uu, t)) = FlattenSeq(uu) \o t
    BY <2>1, FlattenAppend
  <2>8. (FlattenSeq(ss) \o FlattenSeq(uu)) \o t = FlattenSeq(ss) \o (FlattenSeq(uu) \o t)
    <3>1. FlattenSeq(ss) \in Seq(T) /\ FlattenSeq(uu) \in Seq(T)
      BY <2>1, FlattenType
    <3>2. t \in Seq(T)
      BY <2>1
    <3>3. Associate(FlattenSeq(ss), FlattenSeq(uu), t)
      BY <3>1, <3>2, ThreeAssociate, Zenon
    <3>. QED
      BY <3>3 DEF Associate
  <2>. QED
    BY <2>2, <2>3, <2>6, <2>7, <2>8
<1>3. \A n \in Nat : n \in S
  <2> HIDE DEF S
  <2>. QED
    BY <1>1, <1>2, Inductive
<1>4. Len(tt) \in S
  <2> HIDE DEF S
  <2>. QED
    BY <1>3
<1>5. SubSeq(tt, 1, Len(tt)) = tt
  BY SubSeqFull
<1>6. FlattenSeq(ss \o SubSeq(tt, 1, Len(tt))) = FlattenSeq(ss) \o FlattenSeq(SubSeq(tt, 1, Len(tt)))
  BY <1>4
<1>. HIDE DEF S
<1>. QED
  BY <1>5, <1>6, Zenon

(* One piece alone.                                                         *)
LEMMA FlattenOne ==
    ASSUME NEW T, NEW s \in Seq(T)
    PROVE  FlattenSeq(<<s>>) = s
<1>1. <<s>> = Append(<<>>, s) /\ <<>> \in Seq(Seq(T)) /\ <<>> \o s = s
  OBVIOUS
<1>. QED
  BY <1>1, FlattenAppend, FlattenEmpty

(* Min is the least of numbers up to n.                                     *)
LEMMA MinIsLeast ==
    ASSUME NEW n \in Nat, NEW S \in SUBSET (1..n), S # {}
    PROVE  Min(S) \in S /\ \A j \in S : Min(S) <= j
<1>1. S \in SUBSET Nat
  OBVIOUS
<1>. QED
  BY <1>1, LeastNumber

(* The texts of rows.                                                       *)
WordsOf(rs) == [i \in DOMAIN rs |-> rs[i].words]

(* The text of rows is a sequence of words.                                 *)
LEMMA TextType ==
    ASSUME NEW rs \in Seq(Row)
    PROVE  /\ WordsOf(rs) \in Seq(Seq(Words)) /\ Len(WordsOf(rs)) = Len(rs)
           /\ \A i \in 1..Len(rs) : WordsOf(rs)[i] = rs[i].words
           /\ TextOf(rs) = FlattenSeq(WordsOf(rs)) /\ TextOf(rs) \in Seq(Words)
<1>1. DOMAIN rs = 1..Len(rs) /\ Len(rs) \in Nat
  OBVIOUS
<1>2. ASSUME NEW i \in 1..Len(rs) PROVE rs[i].words \in Seq(Words)
  <2>1. rs[i] \in Row
    OBVIOUS
  <2>. QED
    BY <2>1 DEF Row
<1>3. WordsOf(rs) \in Seq(Seq(Words)) /\ Len(WordsOf(rs)) = Len(rs)
  BY <1>1, <1>2 DEF WordsOf
<1>4. \A i \in 1..Len(rs) : WordsOf(rs)[i] = rs[i].words
  BY <1>1 DEF WordsOf
<1>5. TextOf(rs) = FlattenSeq(WordsOf(rs))
  BY DEF TextOf, WordsOf
<1>. QED
  BY <1>3, <1>4, <1>5, FlattenType

(* No rows, no text.                                                        *)
LEMMA TextEmpty == TextOf(<<>>) = <<>>
<1>1. [i \in DOMAIN <<>> |-> <<>>[i].words] = <<>>
  OBVIOUS
<1>. QED
  BY <1>1, FlattenEmpty DEF TextOf

(* Only the words of the rows count.                                        *)
LEMMA TextSame ==
    ASSUME NEW rs \in Seq(Row), NEW qs \in Seq(Row), Len(rs) = Len(qs),
           \A i \in 1..Len(rs) : rs[i].words = qs[i].words
    PROVE  TextOf(rs) = TextOf(qs)
<1>1. WordsOf(rs) = WordsOf(qs)
  BY DEF WordsOf
<1>. QED
  BY <1>1, TextType

(* What is first u and then v.                                              *)
LEMMA IsConcat ==
    ASSUME NEW T, NEW u \in Seq(T), NEW v \in Seq(T), NEW w \in Seq(T), Len(w) = Len(u) + Len(v),
           \A i \in 1..Len(u) : w[i] = u[i], \A i \in 1..Len(v) : w[Len(u) + i] = v[i]
    PROVE  w = u \o v
<1>1. u \o v \in Seq(T) /\ Len(u \o v) = Len(w)
  OBVIOUS
<1>2. ASSUME NEW i \in 1..Len(w) PROVE w[i] = (u \o v)[i]
  <2>1. CASE i <= Len(u)
    BY <2>1
  <2>2. CASE ~(i <= Len(u))
    <3> DEFINE j == i - Len(u)
    <3>1. j \in 1..Len(v) /\ i = Len(u) + j
      BY <2>2
    <3>2. (u \o v)[i] = v[j]
      BY <2>2
    <3>. HIDE DEF j
    <3>. QED
      BY <3>1, <3>2
  <2>. QED
    BY <2>1, <2>2
<1>. QED
  BY <1>1, <1>2, SeqEqual

(* A sequence cut in two.                                                   *)
LEMMA TakeDrop ==
    ASSUME NEW T, NEW s \in Seq(T), NEW k \in 0..Len(s)
    PROVE  SubSeq(s, 1, k) \o SubSeq(s, k + 1, Len(s)) = s
<1> DEFINE a == SubSeq(s, 1, k)
           b == SubSeq(s, k + 1, Len(s))
<1>1. a \in Seq(T) /\ b \in Seq(T) /\ Len(a) = k /\ Len(b) = Len(s) - k
  OBVIOUS
<1>2. /\ \A i \in 1..k : s[i] = a[i]
      /\ \A i \in 1..Len(s) - k : s[k + i] = b[i]
  OBVIOUS
<1> HIDE DEF a, b
<1>3. /\ Len(s) = Len(a) + Len(b)
      /\ \A i \in 1..Len(a) : s[i] = a[i]
      /\ \A i \in 1..Len(b) : s[Len(a) + i] = b[i]
  BY <1>1, <1>2
<1>4. s = a \o b
  BY <1>1, <1>3, IsConcat, Zenon
<1>. QED
  BY <1>4 DEF a, b

(* The text of rows followed by rows.                                       *)
LEMMA TextConcat ==
    ASSUME NEW rs \in Seq(Row), NEW qs \in Seq(Row)
    PROVE  TextOf(rs \o qs) = TextOf(rs) \o TextOf(qs)
<1>1. rs \o qs \in Seq(Row) /\ Len(rs \o qs) = Len(rs) + Len(qs)
  OBVIOUS
<1> DEFINE u == WordsOf(rs)
           v == WordsOf(qs)
           w == WordsOf(rs \o qs)
<1>2. /\ u \in Seq(Seq(Words)) /\ Len(u) = Len(rs) /\ v \in Seq(Seq(Words)) /\ Len(v) = Len(qs)
      /\ w \in Seq(Seq(Words)) /\ Len(w) = Len(u) + Len(v)
  BY <1>1, TextType
<1>3. ASSUME NEW i \in 1..Len(rs) PROVE w[i] = u[i]
  <2>1. (rs \o qs)[i] = rs[i] /\ i \in 1..Len(rs \o qs)
    OBVIOUS
  <2>. QED
    BY <1>1, <2>1, TextType
<1>4. ASSUME NEW i \in 1..Len(qs) PROVE w[Len(rs) + i] = v[i]
  <2>1. (rs \o qs)[Len(rs) + i] = qs[i] /\ Len(rs) + i \in 1..Len(rs \o qs)
    OBVIOUS
  <2>. QED
    BY <1>1, <2>1, TextType
<1>5. FlattenSeq(w) = FlattenSeq(u) \o FlattenSeq(v)
  <2> HIDE DEF u, v, w
  <2>1. \A i \in 1..Len(u) : w[i] = u[i]
    BY <1>2, <1>3
  <2>2. \A i \in 1..Len(v) : w[Len(u) + i] = v[i]
    BY <1>2, <1>4
  <2>3. w = u \o v
    BY <1>2, <2>1, <2>2, IsConcat, Zenon
  <2>. QED
    BY <1>2, <2>3, FlattenConcat
<1>. QED
  BY <1>1, <1>5, TextType

(* The text of one row,                                                     *)
LEMMA TextOne ==
    ASSUME NEW r \in Row
    PROVE  TextOf(<<r>>) = r.words /\ r.words \in Seq(Words)
<1>1. r.words \in Seq(Words)
  BY DEF Row
<1>2. WordsOf(<<r>>) = <<r.words>>
  BY DEF WordsOf
<1>3. <<r>> \in Seq(Row)
  OBVIOUS
<1>. QED
  BY <1>1, <1>2, <1>3, TextType, FlattenOne

(* of rows and one more,                                                    *)
LEMMA TextAppend ==
    ASSUME NEW rs \in Seq(Row), NEW r \in Row
    PROVE  TextOf(Append(rs, r)) = TextOf(rs) \o r.words
<1>1. Append(rs, r) = rs \o <<r>> /\ <<r>> \in Seq(Row)
  OBVIOUS
<1>. QED
  BY <1>1, TextConcat, TextOne

(* and of two.                                                              *)
LEMMA TextTwo ==
    ASSUME NEW r \in Row, NEW q \in Row
    PROVE  TextOf(<<r, q>>) = r.words \o q.words
<1>1. <<r, q>> = Append(<<r>>, q) /\ <<r>> \in Seq(Row)
  OBVIOUS
<1>. QED
  BY <1>1, TextAppend, TextOne

(* Which of two texts are joined first does not matter.                     *)
LEMMA WordsAssociate ==
    \A a, b, c \in Seq(Words) : (a \o b) \o c = a \o (b \o c)
OBVIOUS

(* The rows before the k-th,                                                *)
LEMMA RowsBefore ==
    ASSUME NEW s \in Seq(Row), NEW k \in 1..Len(s) + 1
    PROVE  /\ SubSeq(s, 1, k - 1) \in Seq(Row) /\ Len(SubSeq(s, 1, k - 1)) = k - 1
           /\ \A m \in 1..k - 1 : SubSeq(s, 1, k - 1)[m] = s[m]
OBVIOUS

(* and those from it on.                                                    *)
LEMMA RowsFrom ==
    ASSUME NEW s \in Seq(Row), NEW k \in 1..Len(s) + 1
    PROVE  /\ SubSeq(s, k, Len(s)) \in Seq(Row) /\ Len(SubSeq(s, k, Len(s))) = Len(s) - k + 1
           /\ \A m \in 1..Len(s) - k + 1 : SubSeq(s, k, Len(s))[m] = s[k + m - 1]
OBVIOUS

(* A row of the second sequence.                                            *)
LEMMA RowsBehind ==
    ASSUME NEW u \in Seq(Row), NEW v \in Seq(Row), NEW m \in 1..Len(v)
    PROVE  (u \o v)[Len(u) + m] = v[m]
OBVIOUS

(* Rows in the place of rows with the same text leave the text as it was.   *)
LEMMA SplicedText ==
    ASSUME NEW T \in SUBSET Row, NEW rs \in Seq(T), NEW new \in Seq(T),
           NEW i \in 1..Len(rs) + 1, NEW j \in i - 1..Len(rs)
    PROVE  /\ Spliced(rs, i, j, new) \in Seq(T)
           /\ TextOf(new) = TextOf(SubSeq(rs, i, j)) => TextOf(Spliced(rs, i, j, new)) = TextOf(rs)
           /\ TextOf(Spliced(rs, i, j, new)) =
                TextOf(SubSeq(rs, 1, i - 1)) \o (TextOf(new) \o TextOf(SubSeq(rs, j + 1, Len(rs))))
<1> DEFINE front == SubSeq(rs, 1, i - 1)
           mid == SubSeq(rs, i, j)
           back == SubSeq(rs, j + 1, Len(rs))
<1>1. front \in Seq(T) /\ mid \in Seq(T) /\ back \in Seq(T)
  OBVIOUS
<1>2. rs = front \o mid \o back
  <2>0. i - 1 \in 0..Len(rs) /\ j \in 0..Len(rs) /\ 1 \in 1..Len(rs) + 1 /\ Len(rs) \in j..Len(rs)
        /\ (i - 1) + 1 = i
    OBVIOUS
  <2>1. front \o mid = SubSeq(rs, 1, j)
    BY <2>0, ConcatAdjacentSubSeq
  <2>2. SubSeq(rs, 1, j) \o back = rs
    BY <2>0, TakeDrop
  <2>. QED
    BY <2>1, <2>2
<1>3. Spliced(rs, i, j, new) = front \o new \o back
  BY DEF Spliced
<1> HIDE DEF front, mid, back
<1>4. ASSUME NEW m \in Seq(T)
      PROVE  TextOf(front \o m \o back) = TextOf(front) \o (TextOf(m) \o TextOf(back))
  <2>1. front \in Seq(Row) /\ m \in Seq(Row) /\ back \in Seq(Row) /\ front \o m \in Seq(Row)
    BY <1>1
  <2>2. /\ TextOf(front \o m \o back) = TextOf(front \o m) \o TextOf(back)
        /\ TextOf(front \o m) = TextOf(front) \o TextOf(m)
    BY <2>1, TextConcat
  <2>3. TextOf(front) \in Seq(Words) /\ TextOf(m) \in Seq(Words) /\ TextOf(back) \in Seq(Words)
    BY <2>1, TextType
  <2>. QED
    <3>1. (TextOf(front) \o TextOf(m)) \o TextOf(back) = TextOf(front) \o (TextOf(m) \o TextOf(back))
      BY <2>3, WordsAssociate, Zenon
    <3>. QED
      BY <2>2, <3>1
<1>5. front \o new \o back \in Seq(T)
  BY <1>1
<1>. QED
  BY <1>1, <1>2, <1>3, <1>4, <1>5 DEF front, mid, back

(* For any rows.                                                            *)
LEMMA SplicedRows ==
    ASSUME NEW rs \in Seq(Row), NEW new \in Seq(Row), NEW i \in 1..Len(rs) + 1, NEW j \in i - 1..Len(rs),
           TextOf(new) = TextOf(SubSeq(rs, i, j))
    PROVE  TextOf(Spliced(rs, i, j, new)) = TextOf(rs)
BY SplicedText

(* Pieces: where the piece that begins before or at i ends.                 *)
NextStart(s, starts, i) == Min({j \in starts \union {Len(s) + 1} : i < j})
Cut(s, starts) ==
    [i \in DOMAIN s |->
        IF i \in starts THEN <<SubSeq(s, i, NextStart(s, starts, i) - 1)>> ELSE <<>>]

(* It is the next position of starts, or the end.                           *)
LEMMA NextStartFacts ==
    ASSUME NEW T, NEW s \in Seq(T), NEW starts \in SUBSET (1..Len(s)), NEW i \in 0..Len(s)
    PROVE  LET k == NextStart(s, starts, i)
           IN  /\ k \in i + 1..Len(s) + 1 /\ k \in starts \union {Len(s) + 1}
               /\ \A j \in starts \union {Len(s) + 1} : i < j => k <= j
<1> DEFINE S == {j \in starts \union {Len(s) + 1} : i < j}
<1>1. S \in SUBSET Nat /\ Len(s) + 1 \in S
  <2>1. Len(s) \in Nat /\ i \in Nat /\ i < Len(s) + 1
    OBVIOUS
  <2>2. ASSUME NEW j \in starts \union {Len(s) + 1} PROVE j \in Nat
    OBVIOUS
  <2>3. Len(s) + 1 \in S
    BY <2>1
  <2>. QED
    BY <2>2, <2>3
<1>2. Min(S) \in S /\ \A j \in S : Min(S) <= j
  <2> HIDE DEF S
  <2>. QED
    BY <1>1, LeastNumber
<1>3. NextStart(s, starts, i) = Min(S)
  BY DEF NextStart
<1>4. Min(S) <= Len(s) + 1
  BY <1>1, <1>2
<1> DEFINE k == Min(S)
<1>5. k = Min(S)
  OBVIOUS
<1>6. /\ k \in starts \union {Len(s) + 1} /\ i < k /\ k <= Len(s) + 1
      /\ \A j \in starts \union {Len(s) + 1} : i < j => k <= j
  <2> HIDE DEF k
  <2>. QED
    BY <1>2, <1>4, <1>5
<1> HIDE DEF k, S
<1>. QED
  BY <1>3, <1>5, <1>6

(* Pieces in terms of it.                                                   *)
LEMMA PiecesAreCut == \A s, starts : Pieces(s, starts) = FlattenSeq(Cut(s, starts))
BY DEF Pieces, Cut, NextStart

(* No piece is empty.                                                       *)
LEMMA CutType ==
    ASSUME NEW T, NEW s \in Seq(T), NEW starts \in SUBSET (1..Len(s))
    PROVE  /\ Cut(s, starts) \in Seq(Seq(Seq(T) \ {<<>>})) /\ Len(Cut(s, starts)) = Len(s)
           /\ Pieces(s, starts) \in Seq(Seq(T) \ {<<>>})
<1>1. ASSUME NEW i \in 1..Len(s), i \in starts
      PROVE  SubSeq(s, i, NextStart(s, starts, i) - 1) \in Seq(T) \ {<<>>}
  <2> DEFINE k == NextStart(s, starts, i)
  <2>1. i \in 0..Len(s)
    OBVIOUS
  <2>2. k \in i + 1..Len(s) + 1
    BY <2>1, NextStartFacts
  <2> HIDE DEF k
  <2>3. SubSeq(s, i, k - 1) \in Seq(T) /\ Len(SubSeq(s, i, k - 1)) = k - i
    BY <2>2
  <2>4. SubSeq(s, i, k - 1) # <<>>
    BY <2>2, <2>3
  <2>. QED
    BY <2>3, <2>4 DEF k
<1>2. DOMAIN s = 1..Len(s) /\ Len(s) \in Nat
  OBVIOUS
<1>3. ASSUME NEW i \in 1..Len(s) PROVE Cut(s, starts)[i] \in Seq(Seq(T) \ {<<>>})
  <2>1. CASE i \in starts
    <3>1. Cut(s, starts)[i] = <<SubSeq(s, i, NextStart(s, starts, i) - 1)>>
      BY <1>2, <2>1 DEF Cut
    <3>. QED
      BY <1>1, <2>1, <3>1
  <2>2. CASE i \notin starts
    BY <1>2, <2>2 DEF Cut
  <2>. QED
    BY <2>1, <2>2
<1>4. Cut(s, starts) \in [1..Len(s) -> Seq(Seq(T) \ {<<>>})]
  BY <1>2, <1>3 DEF Cut
<1>5. Cut(s, starts) \in Seq(Seq(Seq(T) \ {<<>>})) /\ Len(Cut(s, starts)) = Len(s)
  BY <1>2, <1>4
<1>. QED
  BY <1>5, PiecesAreCut, FlattenType

(* The pieces are the sequence again.                                       *)
LEMMA PiecesJoin ==
    ASSUME NEW T, NEW s \in Seq(T), NEW starts \in SUBSET (1..Len(s)), s # <<>> => 1 \in starts
    PROVE  FlattenSeq(Pieces(s, starts)) = s
<1> DEFINE U == Seq(T) \ {<<>>}
           cut == Cut(s, starts)
           next(n) == NextStart(s, starts, n)
           F(n) == FlattenSeq(SubSeq(cut, 1, n))
           S == {n \in Nat : n <= Len(s) => FlattenSeq(F(n)) = SubSeq(s, 1, next(n) - 1)}
<1>1. cut \in Seq(Seq(U)) /\ Len(cut) = Len(s)
  BY CutType
<1>2. ASSUME NEW n \in 0..Len(s)
      PROVE  /\ next(n) \in n + 1..Len(s) + 1 /\ next(n) \in starts \union {Len(s) + 1}
             /\ \A j \in starts \union {Len(s) + 1} : n < j => next(n) <= j
  BY NextStartFacts
<1>3. \A n \in 1..Len(s) : cut[n] = IF n \in starts THEN <<SubSeq(s, n, next(n) - 1)>> ELSE <<>>
  BY DEF Cut
<1> HIDE DEF cut, next
<1>4. \A n \in 0..Len(s) : SubSeq(cut, 1, n) \in Seq(Seq(U))
  BY <1>1
<1>5. ASSUME NEW n \in 0..Len(s) PROVE F(n) \in Seq(U) /\ F(n) \in Seq(Seq(T))
  <2>1. F(n) \in Seq(U)
    BY <1>4, FlattenType
  <2>. QED
    BY <2>1
<1>6. 0 \in S
  <2>1. SubSeq(cut, 1, 0) = <<>> /\ SubSeq(s, 1, 0) = <<>>
    BY <1>1
  <2>2. FlattenSeq(F(0)) = <<>>
    BY <2>1, FlattenEmpty
  <2>3. next(0) = 1
    <3>1. 0 \in 0..Len(s)
      OBVIOUS
    <3>2. CASE s = <<>>
      BY <1>2, <3>1, <3>2
    <3>3. CASE s # <<>>
      BY <1>2, <3>1, <3>3
    <3>. QED
      BY <3>2, <3>3
  <2>4. FlattenSeq(F(0)) = SubSeq(s, 1, next(0) - 1)
    <3>1. next(0) - 1 = 0
      BY <2>3
    <3>. QED
      BY <2>1, <2>2, <3>1
  <2>. QED
    BY <2>4
<1>7. ASSUME NEW n \in Nat, n \in S PROVE n + 1 \in S
  <2> SUFFICES ASSUME n + 1 <= Len(s)
               PROVE  FlattenSeq(F(n + 1)) = SubSeq(s, 1, next(n + 1) - 1)
    OBVIOUS
  <2>1. n \in 0..Len(s) /\ n + 1 \in 1..Len(s) /\ n + 1 \in 0..Len(s)
    OBVIOUS
  <2>2. FlattenSeq(F(n)) = SubSeq(s, 1, next(n) - 1)
    BY <1>7
  <2> HIDE DEF S
  <2>3. F(n + 1) = F(n) \o cut[n + 1]
    <3>1. SubSeq(cut, 1, n + 1) = Append(SubSeq(cut, 1, n), cut[n + 1]) /\ cut[n + 1] \in Seq(U)
      BY <1>1, <2>1
    <3>. QED
      BY <1>4, <2>1, <3>1, FlattenAppend
  <2>4. CASE n + 1 \in starts
    <3> DEFINE piece == SubSeq(s, n + 1, next(n + 1) - 1)
    <3>1. next(n) = n + 1
      BY <1>2, <2>1, <2>4
    <3>2. piece \in Seq(T)
      BY <1>2, <2>1
    <3>3. F(n + 1) = Append(F(n), piece)
      <4>1. cut[n + 1] = <<piece>>
        BY <1>3, <2>1, <2>4
      <4>2. F(n) \in Seq(U) /\ piece \in Seq(T)
        BY <1>5, <2>1, <3>2
      <4> HIDE DEF piece, F
      <4>3. F(n) \o <<piece>> = Append(F(n), piece)
        BY <4>2
      <4>. QED
        BY <2>3, <4>1, <4>3
    <3>4. FlattenSeq(F(n + 1)) = FlattenSeq(F(n)) \o piece
      <4> HIDE DEF piece, F
      <4>. QED
        BY <1>5, <2>1, <3>2, <3>3, FlattenAppend
    <3>5. SubSeq(s, 1, n) \o SubSeq(s, n + 1, next(n + 1) - 1) = SubSeq(s, 1, next(n + 1) - 1)
      <4>1. 1 \in 1..Len(s) + 1 /\ n \in 1 - 1..Len(s) /\ next(n + 1) - 1 \in n..Len(s)
        BY <1>2, <2>1
      <4>. QED
        BY <4>1, ConcatAdjacentSubSeq
    <3>6. FlattenSeq(F(n)) = SubSeq(s, 1, n)
      <4>1. next(n) - 1 = n
        BY <3>1
      <4>. QED
        BY <2>2, <4>1
    <3> HIDE DEF F
    <3>. QED
      BY <3>4, <3>5, <3>6
  <2>5. CASE n + 1 \notin starts
    <3>1. F(n + 1) = F(n)
      <4>1. F(n) \o <<>> = F(n)
        BY <1>5, <2>1, ConcatEmptySeq
      <4>. QED
        BY <1>3, <2>1, <2>3, <2>5, <4>1
    <3>2. next(n + 1) = next(n)
      <4>1. next(n) # n + 1
        BY <1>2, <2>1, <2>5
      <4>2. n + 1 < next(n) /\ n < next(n + 1)
        BY <1>2, <2>1, <4>1
      <4>3. next(n + 1) <= next(n) /\ next(n) <= next(n + 1)
        BY <1>2, <2>1, <4>2
      <4>. QED
        BY <1>2, <2>1, <4>3
    <3>. QED
      BY <2>2, <3>1, <3>2
  <2>. QED
    BY <2>4, <2>5
<1>8. Len(s) \in S
  <2> HIDE DEF S
  <2>. QED
    BY <1>6, <1>7, Inductive
<1>9. SubSeq(cut, 1, Len(s)) = cut /\ SubSeq(s, 1, Len(s)) = s
  BY <1>1, SubSeqFull
<1>10. next(Len(s)) = Len(s) + 1
  BY <1>2
<1>11. FlattenSeq(F(Len(s))) = SubSeq(s, 1, next(Len(s)) - 1)
  BY <1>8
<1>12. next(Len(s)) - 1 = Len(s)
  BY <1>10
<1>13. FlattenSeq(FlattenSeq(cut)) = s
  <2> HIDE DEF S
  <2>. QED
    BY <1>9, <1>11, <1>12
<1>. QED
  BY <1>13, PiecesAreCut DEF cut

(* A sequence whose members are in S.                                       *)
LEMMA SeqOfThese ==
    ASSUME NEW R, NEW S, NEW q \in Seq(R), \A k \in 1..Len(q) : q[k] \in S
    PROVE  q \in Seq(S)
<1>1. q = [k \in 1..Len(q) |-> q[k]] /\ Len(q) \in Nat
  OBVIOUS
<1>2. [k \in 1..Len(q) |-> q[k]] \in [1..Len(q) -> S]
  OBVIOUS
<1>. QED
  BY <1>1, <1>2

(* More members, more sequences.                                            *)
LEMMA SeqOfMore ==
    ASSUME NEW R, NEW S, \A x \in R : x \in S
    PROVE  Seq(R) \subseteq Seq(S)
OBVIOUS

(* Three sequences of the same members.                                     *)
LEMMA SeqOfThree ==
    ASSUME NEW S, NEW a \in Seq(S), NEW b \in Seq(S), NEW c \in Seq(S)
    PROVE  a \o b \o c \in Seq(S)
OBVIOUS

(* Flattening, one piece at a time.                                         *)
LEMMA FlattenStep ==
    ASSUME NEW T, NEW ss \in Seq(Seq(T)), NEW n \in Nat, n + 1 <= Len(ss)
    PROVE  /\ SubSeq(ss, 1, n) \in Seq(Seq(T)) /\ ss[n + 1] \in Seq(T)
           /\ FlattenSeq(SubSeq(ss, 1, n)) \in Seq(T)
           /\ FlattenSeq(SubSeq(ss, 1, n + 1)) = FlattenSeq(SubSeq(ss, 1, n)) \o ss[n + 1]
<1>1. SubSeq(ss, 1, n) \in Seq(Seq(T)) /\ ss[n + 1] \in Seq(T)
  OBVIOUS
<1>2. SubSeq(ss, 1, n + 1) = Append(SubSeq(ss, 1, n), ss[n + 1])
  OBVIOUS
<1>3. FlattenSeq(Append(SubSeq(ss, 1, n), ss[n + 1])) = FlattenSeq(SubSeq(ss, 1, n)) \o ss[n + 1]
  BY <1>1, FlattenAppend
<1>. QED
  BY <1>1, <1>2, <1>3, FlattenType

(* Pieces of one member each.                                               *)
LEMMA FlattenSingles ==
    ASSUME NEW T, NEW u \in Seq(T), NEW ss \in Seq(Seq(T)), Len(ss) = Len(u),
           \A i \in 1..Len(u) : ss[i] = <<u[i]>>
    PROVE  FlattenSeq(ss) = u
<1> DEFINE S == {n \in Nat : n <= Len(ss) => FlattenSeq(SubSeq(ss, 1, n)) = SubSeq(u, 1, n)}
<1>1. 0 \in S
  <2>1. SubSeq(ss, 1, 0) = <<>> /\ SubSeq(u, 1, 0) = <<>>
    OBVIOUS
  <2>. QED
    BY <2>1, FlattenEmpty
<1>2. ASSUME NEW n \in Nat, n \in S PROVE n + 1 \in S
  <2> SUFFICES ASSUME n + 1 <= Len(ss)
               PROVE  FlattenSeq(SubSeq(ss, 1, n + 1)) = SubSeq(u, 1, n + 1)
    OBVIOUS
  <2>1. FlattenSeq(SubSeq(ss, 1, n)) = SubSeq(u, 1, n)
    BY <1>2
  <2>2. ss[n + 1] = <<u[n + 1]>>
    OBVIOUS
  <2>3. SubSeq(u, 1, n + 1) = SubSeq(u, 1, n) \o <<u[n + 1]>>
    OBVIOUS
  <2>4. FlattenSeq(SubSeq(ss, 1, n + 1)) = FlattenSeq(SubSeq(ss, 1, n)) \o ss[n + 1]
    BY FlattenStep
  <2>. QED
    BY <2>1, <2>2, <2>3, <2>4
<1>3. Len(ss) \in S
  <2>0. Len(ss) \in Nat
    OBVIOUS
  <2> HIDE DEF S
  <2>1. \A n \in Nat : n \in S
    BY <1>1, <1>2, Inductive
  <2>. QED
    BY <2>0, <2>1
<1>4. SubSeq(ss, 1, Len(ss)) = ss /\ SubSeq(u, 1, Len(ss)) = u
  BY SubSeqFull
<1>5. FlattenSeq(SubSeq(ss, 1, Len(ss))) = SubSeq(u, 1, Len(ss))
  BY <1>3
<1>. HIDE DEF S
<1>. QED
  BY <1>4, <1>5

(* Ids that no two pieces share stay distinct.                              *)
LEMMA DistinctConcat ==
    ASSUME NEW u \in Seq(Row), NEW v \in Seq(Row), DistinctIds(u), DistinctIds(v),
           \A i \in DOMAIN u, j \in DOMAIN v : u[i].id # v[j].id
    PROVE  DistinctIds(u \o v)
<1> DEFINE w == u \o v
<1>1. /\ DOMAIN w = 1..Len(u) + Len(v) /\ DOMAIN u = 1..Len(u) /\ DOMAIN v = 1..Len(v)
      /\ \A i \in 1..Len(u) : w[i] = u[i]
      /\ \A i \in DOMAIN w : i \notin 1..Len(u) =>
            i - Len(u) \in 1..Len(v) /\ w[i] = v[i - Len(u)]
      /\ Len(u) \in Nat /\ Len(v) \in Nat
  OBVIOUS
<1> HIDE DEF w
<1> SUFFICES ASSUME NEW i \in DOMAIN w, NEW j \in DOMAIN w, i # j PROVE w[i].id # w[j].id
  BY DEF DistinctIds, w
<1>2. CASE i \in 1..Len(u) /\ j \in 1..Len(u)
  BY <1>1, <1>2 DEF DistinctIds
<1>3. CASE i \in 1..Len(u) /\ j \notin 1..Len(u)
  BY <1>1, <1>3
<1>4. CASE i \notin 1..Len(u) /\ j \in 1..Len(u)
  BY <1>1, <1>4
<1>5. CASE i \notin 1..Len(u) /\ j \notin 1..Len(u)
  <2>1. i - Len(u) # j - Len(u)
    BY <1>1
  <2>. QED
    BY <1>1, <1>5, <2>1 DEF DistinctIds
<1>. QED
  BY <1>2, <1>3, <1>4, <1>5

(* And so for all pieces.                                                   *)
LEMMA FlattenDistinct ==
    ASSUME NEW ss \in Seq(Seq(Row)),
           \A i \in 1..Len(ss) : DistinctIds(ss[i]),
           \A i, j \in 1..Len(ss) : i # j =>
               \A k \in DOMAIN ss[i], l \in DOMAIN ss[j] : ss[i][k].id # ss[j][l].id
    PROVE  DistinctIds(FlattenSeq(ss))
<1> DEFINE In(n) == {r \in Row : \E i \in 1..n : \E k \in DOMAIN ss[i] : r = ss[i][k]}
           F(n) == FlattenSeq(SubSeq(ss, 1, n))
           S == {n \in Nat : n <= Len(ss) => DistinctIds(F(n))}
<1>1. ASSUME NEW n \in 0..Len(ss) PROVE F(n) \in Seq(In(n))
  <2> DEFINE tt == SubSeq(ss, 1, n)
  <2>1. tt \in Seq(Seq(Row)) /\ Len(tt) = n /\ \A i \in 1..n : tt[i] = ss[i]
    OBVIOUS
  <2> HIDE DEF tt
  <2>2. ASSUME NEW i \in 1..n PROVE tt[i] \in Seq(In(n))
    <3>1. tt[i] \in Seq(Row) /\ tt[i] = ss[i] /\ Len(tt[i]) \in Nat
      BY <2>1
    <3>2. ASSUME NEW k \in 1..Len(tt[i]) PROVE tt[i][k] \in In(n)
      <4>1. tt[i][k] \in Row /\ k \in DOMAIN ss[i]
        BY <3>1
      <4>. QED
        BY <3>1, <4>1
    <3> HIDE DEF In
    <3>. QED
      BY <3>1, <3>2, SeqOfThese, Zenon
  <2>3. tt \in Seq(Seq(In(n)))
    <3> HIDE DEF In
    <3>. QED
      BY <2>1, <2>2
  <2> HIDE DEF In
  <2>4. FlattenSeq(tt) \in Seq(In(n))
    BY <2>3, FlattenType, Zenon
  <2>. QED
    BY <2>4 DEF tt
<1>2. 0 \in S
  <2>1. SubSeq(ss, 1, 0) = <<>>
    OBVIOUS
  <2>2. F(0) = <<>>
    BY <2>1, FlattenEmpty
  <2>. QED
    BY <2>2 DEF DistinctIds
<1>3. ASSUME NEW n \in Nat, n \in S PROVE n + 1 \in S
  <2> SUFFICES ASSUME n + 1 <= Len(ss) PROVE DistinctIds(F(n + 1))
    OBVIOUS
  <2>1. DistinctIds(F(n))
    BY <1>3
  <2>2. F(n + 1) = F(n) \o ss[n + 1] /\ F(n) \in Seq(Row) /\ ss[n + 1] \in Seq(Row)
    BY FlattenStep
  <2>3. F(n) \in Seq(In(n))
    <3>1. n \in 0..Len(ss)
      OBVIOUS
    <3> HIDE DEF F, In, S
    <3>. QED
      BY <1>1, <3>1
  <2>4. ASSUME NEW i \in DOMAIN F(n), NEW j \in DOMAIN ss[n + 1] PROVE F(n)[i].id # ss[n + 1][j].id
    <3>1. F(n)[i] \in In(n)
      <4> HIDE DEF In, F
      <4>. QED
        BY <2>3
    <3>2. PICK m \in 1..n : \E k \in DOMAIN ss[m] : F(n)[i] = ss[m][k]
      BY <3>1
    <3>3. m \in 1..Len(ss) /\ n + 1 \in 1..Len(ss) /\ m # n + 1
      OBVIOUS
    <3> HIDE DEF In, F, S
    <3>. QED
      BY <3>2, <3>3
  <2>5. DistinctIds(ss[n + 1])
    OBVIOUS
  <2> HIDE DEF F, In, S
  <2>6. DistinctIds(F(n) \o ss[n + 1])
    BY <2>1, <2>2, <2>4, <2>5, DistinctConcat
  <2>. QED
    BY <2>2, <2>6
<1>4. Len(ss) \in S
  <2>0. Len(ss) \in Nat
    OBVIOUS
  <2> HIDE DEF S
  <2>1. \A n \in Nat : n \in S
    BY <1>2, <1>3, Inductive
  <2>. QED
    BY <2>0, <2>1
<1>5. SubSeq(ss, 1, Len(ss)) = ss /\ Len(ss) \in Nat
  BY SubSeqFull
<1>6. DistinctIds(F(Len(ss)))
  BY <1>4, <1>5
<1>7. F(Len(ss)) = FlattenSeq(ss)
  BY <1>5
<1> HIDE DEF F, In, S
<1>. QED
  BY <1>6, <1>7

(* The text of rows that were put together.                                 *)
LEMMA TextFlatten ==
    ASSUME NEW pp \in Seq(Seq(Row)), NEW ww \in Seq(Seq(Words)), Len(ww) = Len(pp),
           \A i \in 1..Len(pp) : TextOf(pp[i]) = ww[i]
    PROVE  TextOf(FlattenSeq(pp)) = FlattenSeq(ww)
<1> DEFINE S == {n \in Nat : n <= Len(pp) =>
                    TextOf(FlattenSeq(SubSeq(pp, 1, n))) = FlattenSeq(SubSeq(ww, 1, n))}
<1>1. 0 \in S
  <2>1. SubSeq(pp, 1, 0) = <<>> /\ SubSeq(ww, 1, 0) = <<>>
    OBVIOUS
  <2>. QED
    BY <2>1, FlattenEmpty, TextEmpty
<1>2. ASSUME NEW n \in Nat, n \in S PROVE n + 1 \in S
  <2> SUFFICES ASSUME n + 1 <= Len(pp)
               PROVE  TextOf(FlattenSeq(SubSeq(pp, 1, n + 1))) = FlattenSeq(SubSeq(ww, 1, n + 1))
    OBVIOUS
  <2>1. TextOf(FlattenSeq(SubSeq(pp, 1, n))) = FlattenSeq(SubSeq(ww, 1, n))
    BY <1>2
  <2>2. /\ FlattenSeq(SubSeq(pp, 1, n + 1)) = FlattenSeq(SubSeq(pp, 1, n)) \o pp[n + 1]
        /\ FlattenSeq(SubSeq(pp, 1, n)) \in Seq(Row) /\ pp[n + 1] \in Seq(Row)
    BY FlattenStep
  <2>3. FlattenSeq(SubSeq(ww, 1, n + 1)) = FlattenSeq(SubSeq(ww, 1, n)) \o ww[n + 1]
    BY FlattenStep
  <2>4. TextOf(pp[n + 1]) = ww[n + 1]
    OBVIOUS
  <2> HIDE DEF S
  <2>5. TextOf(FlattenSeq(SubSeq(pp, 1, n)) \o pp[n + 1])
          = TextOf(FlattenSeq(SubSeq(pp, 1, n))) \o TextOf(pp[n + 1])
    BY <2>2, TextConcat
  <2>. QED
    BY <2>1, <2>2, <2>3, <2>4, <2>5
<1>3. Len(pp) \in S
  <2>0. Len(pp) \in Nat
    OBVIOUS
  <2> HIDE DEF S
  <2>1. \A n \in Nat : n \in S
    BY <1>1, <1>2, Inductive
  <2>. QED
    BY <2>0, <2>1
<1>4. SubSeq(pp, 1, Len(pp)) = pp /\ SubSeq(ww, 1, Len(pp)) = ww
  BY SubSeqFull
<1>5. TextOf(FlattenSeq(SubSeq(pp, 1, Len(pp)))) = FlattenSeq(SubSeq(ww, 1, Len(pp)))
  BY <1>3
<1> HIDE DEF S
<1>. QED
  BY <1>4, <1>5, Zenon

(* Sets of rows that a new number leaves a row in.                          *)
Numbering(T) == \A r \in T, n \in Nat : [r EXCEPT !.ord = n] \in T

(* A number changes nothing but the number.                                 *)
LEMMA NumberingRow ==
    ASSUME NEW r \in Row, NEW n \in Nat
    PROVE  LET q == [r EXCEPT !.ord = n]
           IN  /\ q \in Row /\ q.id = r.id /\ q.words = r.words /\ q.trans = r.trans
               /\ q.status = r.status /\ q.speaker = r.speaker
BY DEF Row

(* So renumbering keeps texts and ids.                                      *)
LEMMA RenumberedFacts ==
    ASSUME NEW T \in SUBSET Row, Numbering(T), NEW rs \in Seq(T)
    PROVE  /\ Renumbered(rs) \in Seq(T)
           /\ TextOf(Renumbered(rs)) = TextOf(rs)
           /\ DistinctIds(rs) => DistinctIds(Renumbered(rs))
<1>1. DOMAIN rs = 1..Len(rs) /\ Len(rs) \in Nat /\ rs \in Seq(Row)
  OBVIOUS
<1> DEFINE q(i) == [rs[i] EXCEPT !.ord = i - 1]
<1>2. ASSUME NEW i \in 1..Len(rs)
      PROVE  q(i) \in T /\ q(i).id = rs[i].id /\ q(i).words = rs[i].words
  <2>1. rs[i] \in T /\ rs[i] \in Row /\ i - 1 \in Nat
    OBVIOUS
  <2>. QED
    BY <2>1, NumberingRow DEF Numbering
<1>3. Renumbered(rs) = [i \in 1..Len(rs) |-> q(i)]
  BY <1>1 DEF Renumbered
<1> HIDE DEF q
<1>4. /\ Renumbered(rs) \in Seq(T) /\ Len(Renumbered(rs)) = Len(rs)
      /\ DOMAIN Renumbered(rs) = 1..Len(rs)
      /\ \A i \in 1..Len(rs) : Renumbered(rs)[i] = q(i)
  BY <1>1, <1>2, <1>3
<1>5. Renumbered(rs) \in Seq(Row)
  BY <1>4
<1>6. TextOf(Renumbered(rs)) = TextOf(rs)
  BY <1>1, <1>2, <1>4, <1>5, TextSame
<1>7. DistinctIds(rs) => DistinctIds(Renumbered(rs))
  BY <1>1, <1>2, <1>4 DEF DistinctIds
<1>. QED
  BY <1>4, <1>6, <1>7

(* What is inserted has distinct ids, and is all rows if those had.         *)
LEMMA InsertedFacts ==
    ASSUME NEW T \in SUBSET Row, NEW new \in Seq(T)
    PROVE  /\ Inserted(new) \in Seq(T)
           /\ DistinctIds(Inserted(new))
           /\ DistinctIds(new) => Inserted(new) = new
<1> DEFINE there == {j \in DOMAIN new : \E i \in 1..j - 1 : new[i].id = new[j].id}
<1>1. DOMAIN new = 1..Len(new) /\ Len(new) \in Nat
  OBVIOUS
<1>2. there \in SUBSET (1..Len(new))
  BY <1>1
<1>3. \A j \in 1..Len(new) : j \in there <=> \E i \in 1..j - 1 : new[i].id = new[j].id
  BY <1>1
<1>4. Inserted(new) = IF there = {} THEN new ELSE SubSeq(new, 1, Min(there) - 1)
  BY DEF Inserted
<1>5. there # {} => Min(there) \in there /\ \A j \in there : Min(there) <= j
  <2> HIDE DEF there
  <2>. QED
    BY <1>1, <1>2, MinIsLeast
<1> DEFINE m == IF there = {} THEN Len(new) ELSE Min(there) - 1
<1>6. m \in 0..Len(new) /\ \A j \in 1..m : j \notin there
  <2> HIDE DEF there
  <2>1. CASE there = {}
    BY <1>1, <2>1
  <2>2. CASE there # {}
    <3>1. Min(there) \in 1..Len(new) /\ m = Min(there) - 1
      BY <1>2, <1>5, <2>2
    <3>2. ASSUME NEW j \in there PROVE Min(there) <= j
      BY <1>5
    <3>. QED
      BY <1>1, <3>1, <3>2
  <2>. QED
    BY <2>1, <2>2
<1>7. Inserted(new) = SubSeq(new, 1, m)
  <2> HIDE DEF there
  <2>1. CASE there = {}
    BY <1>4, <2>1, SubSeqFull
  <2>2. CASE there # {}
    BY <1>4, <2>2
  <2>. QED
    BY <2>1, <2>2
<1>8. DistinctIds(new) => there = {}
  <2> SUFFICES ASSUME DistinctIds(new), NEW j \in there PROVE FALSE
    OBVIOUS
  <2>1. PICK i \in 1..j - 1 : new[i].id = new[j].id
    OBVIOUS
  <2>2. i \in DOMAIN new /\ j \in DOMAIN new /\ i # j
    BY <1>1, <1>2
  <2>. QED
    BY <2>1, <2>2 DEF DistinctIds
<1> HIDE DEF there, m
<1>9. /\ SubSeq(new, 1, m) \in Seq(T) /\ DOMAIN SubSeq(new, 1, m) = 1..m
      /\ \A i \in 1..m : SubSeq(new, 1, m)[i] = new[i]
  BY <1>6
<1>10. DistinctIds(SubSeq(new, 1, m))
  <2> SUFFICES ASSUME NEW i \in 1..m, NEW j \in 1..m, i # j PROVE new[i].id # new[j].id
    BY <1>9 DEF DistinctIds
  <2>1. CASE i < j
    <3>1. i \in 1..j - 1 /\ j \in 1..Len(new) /\ j \notin there
      BY <1>6, <2>1
    <3>. QED
      BY <1>3, <3>1
  <2>2. CASE j < i
    <3>1. j \in 1..i - 1 /\ i \in 1..Len(new) /\ i \notin there
      BY <1>6, <2>2
    <3>. QED
      BY <1>3, <3>1
  <2>. QED
    BY <2>1, <2>2
<1>. QED
  BY <1>4, <1>7, <1>8, <1>9, <1>10

(* Rows in the place of others: ids are distinct if those of the new rows    *)
(* are, and belong to nobody or to one they replace.                        *)
LEMMA SplicedDistinct ==
    ASSUME NEW rs \in Seq(Row), NEW new \in Seq(Row), NEW i \in 1..Len(rs) + 1, NEW j \in i - 1..Len(rs),
           DistinctIds(rs), DistinctIds(new),
           \A k \in DOMAIN new, l \in DOMAIN rs : new[k].id = rs[l].id => l \in i..j
    PROVE  DistinctIds(Spliced(rs, i, j, new))
<1> DEFINE front == SubSeq(rs, 1, i - 1)
           back == SubSeq(rs, j + 1, Len(rs))
<1>1. /\ front \in Seq(Row) /\ DOMAIN front = 1..i - 1
      /\ \A k \in 1..i - 1 : front[k] = rs[k] /\ k \in DOMAIN rs /\ k \notin i..j
  OBVIOUS
<1>2. /\ back \in Seq(Row) /\ DOMAIN back = 1..Len(rs) - j
      /\ \A k \in 1..Len(rs) - j : back[k] = rs[j + k] /\ j + k \in DOMAIN rs /\ j + k \notin i..j
  OBVIOUS
<1>3. i - 1 <= j /\ i \in Nat /\ j \in Nat /\ Len(rs) \in Nat
  OBVIOUS
<1>4. Spliced(rs, i, j, new) = (front \o new) \o back
  BY DEF Spliced
<1> HIDE DEF front, back
<1>5. DistinctIds(front)
  BY <1>1 DEF DistinctIds
<1>6. DistinctIds(back)
  <2> SUFFICES ASSUME NEW k \in 1..Len(rs) - j, NEW l \in 1..Len(rs) - j, k # l
               PROVE  back[k].id # back[l].id
    BY <1>2 DEF DistinctIds
  <2>1. j + k # j + l
    BY <1>3
  <2>. QED
    BY <1>2, <2>1 DEF DistinctIds
<1>7. DistinctIds(front \o new)
  <2>1. \A k \in DOMAIN front, l \in DOMAIN new : front[k].id # new[l].id
    BY <1>1
  <2>. QED
    BY <1>1, <1>5, <2>1, DistinctConcat
<1>8. /\ front \o new \in Seq(Row)
      /\ \A k \in DOMAIN (front \o new) :
            \/ k \in 1..i - 1 /\ (front \o new)[k] = rs[k]
            \/ \E l \in DOMAIN new : (front \o new)[k] = new[l]
  <2>1. /\ front \o new \in Seq(Row) /\ Len(front) = i - 1 /\ DOMAIN new = 1..Len(new)
        /\ DOMAIN (front \o new) = 1..(i - 1) + Len(new) /\ Len(new) \in Nat
    BY <1>1
  <2>2. ASSUME NEW k \in 1..i - 1 PROVE (front \o new)[k] = rs[k]
    BY <1>1, <2>1
  <2>3. ASSUME NEW k \in DOMAIN (front \o new), k \notin 1..i - 1
        PROVE  \E l \in DOMAIN new : (front \o new)[k] = new[l]
    <3>1. k - (i - 1) \in DOMAIN new /\ (front \o new)[k] = new[k - (i - 1)]
      BY <1>1, <2>1, <2>3
    <3>. QED
      BY <3>1
  <2>. QED
    BY <2>1, <2>2, <2>3
<1>9. ASSUME NEW k \in DOMAIN (front \o new), NEW l \in DOMAIN back
      PROVE  (front \o new)[k].id # back[l].id
  <2>1. back[l] = rs[j + l] /\ j + l \in DOMAIN rs /\ j + l \notin i..j /\ l \in Nat /\ l > 0
    BY <1>2
  <2>2. CASE k \in 1..i - 1 /\ (front \o new)[k] = rs[k]
    <3>1. k # j + l /\ k \in DOMAIN rs
      BY <1>1, <1>3, <2>1, <2>2
    <3>. QED
      BY <2>1, <2>2, <3>1 DEF DistinctIds
  <2>3. CASE \E m \in DOMAIN new : (front \o new)[k] = new[m]
    BY <2>1, <2>3
  <2>. QED
    BY <1>8, <2>2, <2>3
<1>10. DistinctIds((front \o new) \o back)
  BY <1>2, <1>6, <1>7, <1>8, <1>9, DistinctConcat
<1>. QED
  BY <1>4, <1>10

(* A row whose final translation is one of its text; a row of a speaker not *)
(* in L; a row no split after the n-th request can have made; a row no       *)
(* diarization has divided.                                                  *)
Fit == {r \in Row : Fits(r)}
FitBut(H) == {r \in Row : r.id \in H \/ Fits(r)}
Said == {r \in Row : r.words # <<>>}
Unnamed(L) == {r \in Row : r.speaker \notin L}
Before(n) == {r \in Row : r.id.of = "split" => r.id.n < n}
Whole == {r \in Row : ~IsPart(r)}

(* All of these are such sets.                                              *)
LEMMA NumberingKinds ==
    /\ Fit \in SUBSET Row /\ Whole \in SUBSET Row
    /\ Numbering(Row) /\ Numbering(Fit) /\ Numbering(Whole)
    /\ \A H : Fit \in SUBSET FitBut(H) /\ FitBut(H) \in SUBSET Row /\ Numbering(FitBut(H))
    /\ \A L : Unnamed(L) \in SUBSET Row /\ Numbering(Unnamed(L))
    /\ \A n \in Nat : Before(n) \in SUBSET Row /\ Numbering(Before(n))
<1>1. Fit \in SUBSET Row /\ Whole \in SUBSET Row
  BY DEF Fit, Whole
<1>2. Numbering(Row)
  BY NumberingRow DEF Numbering
<1>3. Numbering(Fit)
  BY NumberingRow DEF Numbering, Fit, Fits
<1>4. Numbering(Whole)
  BY NumberingRow DEF Numbering, Whole, IsPart
<1>5. ASSUME NEW L PROVE Unnamed(L) \in SUBSET Row /\ Numbering(Unnamed(L))
  BY NumberingRow DEF Numbering, Unnamed
<1>6. ASSUME NEW n \in Nat PROVE Before(n) \in SUBSET Row /\ Numbering(Before(n))
  BY NumberingRow DEF Numbering, Before
<1>7. ASSUME NEW H PROVE Fit \in SUBSET FitBut(H) /\ FitBut(H) \in SUBSET Row /\ Numbering(FitBut(H))
  BY NumberingRow DEF Numbering, Fit, FitBut, Fits
<1>. QED
  BY <1>1, <1>2, <1>3, <1>4, <1>5, <1>6, <1>7

(* One member of a sequence.                                                *)
LEMMA SubSeqOne ==
    ASSUME NEW T, NEW s \in Seq(T), NEW i \in 1..Len(s)
    PROVE  SubSeq(s, i, i) = <<s[i]>>
<1> DEFINE q == SubSeq(s, i, i)
<1>1. q \in Seq(T) /\ Len(q) = 1 /\ q[1] = s[i]
  OBVIOUS
<1> HIDE DEF q
<1>2. q = <<s[i]>>
  BY <1>1
<1>. QED
  BY <1>2 DEF q

(* The id of a new half.                                                    *)
LEMMA NewIdFacts ==
    ASSUME NEW n \in Nat
    PROVE  NewId(n) \in Id /\ NewId(n).of = "split" /\ NewId(n).n = n /\ NewId(n).part = <<>>
<1>1. <<>> \in Seq(Nat)
  OBVIOUS
<1>. QED
  BY <1>1 DEF NewId, Id

(* split_segment: the halves are the row's text, fit whatever they had and   *)
(* keep its speaker.                                                         *)
LEMMA HalvesFacts ==
    ASSUME NEW r \in Row, NEW k \in SplitPoints(r), NEW n \in Nat
    PROVE  LET a == Halves(r, k, NewId(n))[1]
               b == Halves(r, k, NewId(n))[2]
           IN  /\ Halves(r, k, NewId(n)) = <<a, b>>
               /\ a \in Fit /\ b \in Fit
               /\ a.words \o b.words = r.words
               /\ a.id = r.id /\ b.id = NewId(n)
               /\ a.speaker = r.speaker /\ b.speaker = r.speaker
<1> DEFINE h == Halves(r, k, NewId(n))
           u == SubSeq(r.words, 1, k)
           v == SubSeq(r.words, k + 1, Len(r.words))
           a == [r EXCEPT !.trans = <<>>, !.status = "skipped", !.words = u]
           b == [r EXCEPT !.trans = <<>>, !.status = "skipped", !.words = v, !.id = NewId(n)]
<1>1. r.words \in Seq(Words) /\ k \in 1..Len(r.words) - 1 /\ Len(r.words) \in Nat
  BY DEF Row, SplitPoints
<1>2. u \in Seq(Words) /\ v \in Seq(Words) /\ Len(u) = k /\ Len(v) = Len(r.words) - k
  BY <1>1
<1>3. u # <<>> /\ v # <<>>
  BY <1>1, <1>2
<1>4. u \o v = r.words
  <2>1. k \in 0..Len(r.words)
    BY <1>1
  <2>. QED
    BY <1>1, <2>1, TakeDrop
<1>5. h = <<a, b>>
  BY DEF Halves, Untranslated, Row
<1>6. <<>> \in Seq(Words) /\ NewId(n) \in Id
  BY NewIdFacts
<1> HIDE DEF u, v
<1>7. /\ a \in Row /\ a.id = r.id /\ a.words = u /\ a.status = "skipped" /\ a.speaker = r.speaker
      /\ b \in Row /\ b.id = NewId(n) /\ b.words = v /\ b.status = "skipped" /\ b.speaker = r.speaker
  BY <1>2, <1>6 DEF Row
<1> HIDE DEF a, b, h
<1>8. h[1] = a /\ h[2] = b
  BY <1>5
<1>9. a \in Fit /\ b \in Fit
  BY <1>3, <1>7 DEF Fit, Fits
<1>. QED
  BY <1>4, <1>5, <1>7, <1>8, <1>9 DEF h

(* What is true of a row and of its halves is true after a split.           *)
LEMMA SplitsInto ==
    ASSUME NEW T \in SUBSET Row, Numbering(T), NEW n \in Nat, NEW rs \in Seq(T),
           \A r \in T : \A k \in SplitPoints(r) : Halves(r, k, NewId(n)) \in Seq(T),
           NEW new \in Splits(rs, NewId(n))
    PROVE  new \in Seq(T)
<1>0. PICK i \in DOMAIN rs :
        \E k \in SplitPoints(rs[i]) :
            new = Renumbered(Spliced(rs, i, i, Halves(rs[i], k, NewId(n))))
  BY DEF Splits
<1>1. PICK k \in SplitPoints(rs[i]) :
        new = Renumbered(Spliced(rs, i, i, Halves(rs[i], k, NewId(n))))
  BY <1>0
<1>2. i \in 1..Len(rs) + 1 /\ i \in i - 1..Len(rs) /\ rs[i] \in T
  OBVIOUS
<1>3. Halves(rs[i], k, NewId(n)) \in Seq(T)
  BY <1>2
<1>4. Spliced(rs, i, i, Halves(rs[i], k, NewId(n))) \in Seq(T)
  BY <1>2, <1>3, SplicedText
<1>. QED
  BY <1>1, <1>4, RenumberedFacts

(* A split keeps the text, and the ids distinct.                            *)
LEMMA SplitsFacts ==
    ASSUME NEW rs \in Seq(Row), NEW n \in Nat, NEW new \in Splits(rs, NewId(n))
    PROVE  /\ new \in Seq(Row)
           /\ TextOf(new) = TextOf(rs)
           /\ \A H : rs \in Seq(FitBut(H)) => new \in Seq(FitBut(H))
           /\ \A L : rs \in Seq(Unnamed(L)) => new \in Seq(Unnamed(L))
           /\ rs \in Seq(Before(n)) => new \in Seq(Before(n + 1))
           /\ rs \in Seq(Whole) => new \in Seq(Whole)
           /\ rs \in Seq(Before(n)) /\ DistinctIds(rs) => DistinctIds(new)
<1>1. \A r \in Row : \A k \in SplitPoints(r) : Halves(r, k, NewId(n)) \in Seq(Row)
  <2> TAKE r \in Row
  <2> TAKE k \in SplitPoints(r)
  <2> DEFINE a == Halves(r, k, NewId(n))[1]
             b == Halves(r, k, NewId(n))[2]
  <2>1. a \in Row /\ b \in Row /\ Halves(r, k, NewId(n)) = <<a, b>>
    BY HalvesFacts DEF Fit
  <2> HIDE DEF a, b
  <2>. QED
    BY <2>1
<1>2. new \in Seq(Row)
  BY <1>1, NumberingKinds, SplitsInto
<1>3. ASSUME NEW H, rs \in Seq(FitBut(H)) PROVE new \in Seq(FitBut(H))
  <2>1. ASSUME NEW r \in FitBut(H), NEW k \in SplitPoints(r)
        PROVE  Halves(r, k, NewId(n)) \in Seq(FitBut(H))
    <3>1. r \in Row
      BY DEF FitBut
    <3> DEFINE a == Halves(r, k, NewId(n))[1]
               b == Halves(r, k, NewId(n))[2]
    <3>2. a \in Fit /\ b \in Fit /\ Halves(r, k, NewId(n)) = <<a, b>>
      BY <3>1, HalvesFacts
    <3> HIDE DEF a, b
    <3>3. a \in FitBut(H) /\ b \in FitBut(H)
      BY <3>2, NumberingKinds
    <3>. QED
      BY <3>2, <3>3
  <2>2. FitBut(H) \in SUBSET Row /\ Numbering(FitBut(H))
    BY NumberingKinds
  <2>. QED
    BY <1>3, <2>1, <2>2, SplitsInto
<1>4. ASSUME NEW L, rs \in Seq(Unnamed(L)) PROVE new \in Seq(Unnamed(L))
  <2>1. ASSUME NEW r \in Unnamed(L), NEW k \in SplitPoints(r)
        PROVE  Halves(r, k, NewId(n)) \in Seq(Unnamed(L))
    <3>1. r \in Row /\ r.speaker \notin L
      BY DEF Unnamed
    <3> DEFINE a == Halves(r, k, NewId(n))[1]
               b == Halves(r, k, NewId(n))[2]
    <3>2. /\ a \in Fit /\ b \in Fit /\ Halves(r, k, NewId(n)) = <<a, b>>
          /\ a.speaker = r.speaker /\ b.speaker = r.speaker
      BY <3>1, HalvesFacts
    <3> HIDE DEF a, b
    <3>3. a \in Unnamed(L) /\ b \in Unnamed(L)
      BY <3>1, <3>2 DEF Unnamed, Fit
    <3>. QED
      BY <3>2, <3>3
  <2>. QED
    BY <1>4, <2>1, NumberingKinds, SplitsInto
<1>5. ASSUME rs \in Seq(Before(n)) PROVE new \in Seq(Before(n + 1))
  <2>1. ASSUME NEW r \in Before(n + 1), NEW k \in SplitPoints(r)
        PROVE  Halves(r, k, NewId(n)) \in Seq(Before(n + 1))
    <3>1. r \in Row
      BY DEF Before
    <3> DEFINE a == Halves(r, k, NewId(n))[1]
               b == Halves(r, k, NewId(n))[2]
    <3>2. /\ a \in Fit /\ b \in Fit /\ Halves(r, k, NewId(n)) = <<a, b>>
          /\ a.id = r.id /\ b.id = NewId(n)
      BY <3>1, HalvesFacts
    <3> HIDE DEF a, b
    <3>3. a \in Before(n + 1) /\ b \in Before(n + 1)
      BY <3>2, NewIdFacts DEF Before, Fit
    <3>. QED
      BY <3>2, <3>3
  <2>2. rs \in Seq(Before(n + 1))
    <3>1. \A r \in Before(n) : r \in Before(n + 1)
      BY DEF Before, Row, Id
    <3>. QED
      BY <1>5, <3>1
  <2>3. Before(n + 1) \in SUBSET Row /\ Numbering(Before(n + 1))
    BY NumberingKinds
  <2>. QED
    BY <2>1, <2>2, <2>3, SplitsInto
<1>6. ASSUME rs \in Seq(Whole) PROVE new \in Seq(Whole)
  <2>1. ASSUME NEW r \in Whole, NEW k \in SplitPoints(r) PROVE Halves(r, k, NewId(n)) \in Seq(Whole)
    <3>1. r \in Row /\ r.id.part = <<>>
      BY DEF Whole, IsPart
    <3> DEFINE a == Halves(r, k, NewId(n))[1]
               b == Halves(r, k, NewId(n))[2]
    <3>2. /\ a \in Fit /\ b \in Fit /\ Halves(r, k, NewId(n)) = <<a, b>>
          /\ a.id = r.id /\ b.id = NewId(n)
      BY <3>1, HalvesFacts
    <3> HIDE DEF a, b
    <3>3. a \in Whole /\ b \in Whole
      BY <3>1, <3>2, NewIdFacts DEF Whole, Fit, IsPart
    <3>. QED
      BY <3>2, <3>3
  <2>. QED
    BY <1>6, <2>1, NumberingKinds, SplitsInto
<1>0. PICK i \in DOMAIN rs :
        \E k \in SplitPoints(rs[i]) :
            new = Renumbered(Spliced(rs, i, i, Halves(rs[i], k, NewId(n))))
  BY DEF Splits
<1>7. PICK k \in SplitPoints(rs[i]) :
        new = Renumbered(Spliced(rs, i, i, Halves(rs[i], k, NewId(n))))
  BY <1>0
<1> DEFINE a == Halves(rs[i], k, NewId(n))[1]
           b == Halves(rs[i], k, NewId(n))[2]
<1>8. i \in 1..Len(rs) + 1 /\ i \in i - 1..Len(rs) /\ rs[i] \in Row /\ i \in 1..Len(rs)
  OBVIOUS
<1>9. /\ Halves(rs[i], k, NewId(n)) = <<a, b>> /\ a \in Row /\ b \in Row
      /\ a.words \o b.words = rs[i].words /\ a.id = rs[i].id /\ b.id = NewId(n)
  BY <1>8, HalvesFacts DEF Fit
<1> HIDE DEF a, b
<1>10. <<a, b>> \in Seq(Row) /\ Spliced(rs, i, i, <<a, b>>) \in Seq(Row)
  <2>1. <<a, b>> \in Seq(Row)
    BY <1>9
  <2>. QED
    BY <1>8, <2>1, SplicedText
<1>11. TextOf(new) = TextOf(rs)
  <2>1. SubSeq(rs, i, i) = <<rs[i]>>
    BY <1>8, SubSeqOne
  <2>2. TextOf(<<a, b>>) = TextOf(SubSeq(rs, i, i))
    BY <1>8, <1>9, <2>1, TextTwo, TextOne
  <2>3. TextOf(Spliced(rs, i, i, <<a, b>>)) = TextOf(rs)
    BY <1>8, <1>10, <2>2, SplicedRows, Zenon
  <2>. QED
    BY <1>7, <1>9, <1>10, <2>3, NumberingKinds, RenumberedFacts
<1>12. ASSUME rs \in Seq(Before(n)), DistinctIds(rs) PROVE DistinctIds(new)
  <2>1. ASSUME NEW l \in DOMAIN rs PROVE rs[l].id # NewId(n)
    <3>1. rs[l] \in Before(n)
      BY <1>12
    <3>. QED
      BY <3>1, NewIdFacts DEF Before
  <2>2. DistinctIds(<<a, b>>)
    BY <1>8, <1>9, <2>1 DEF DistinctIds
  <2>3. ASSUME NEW m \in DOMAIN <<a, b>>, NEW l \in DOMAIN rs, <<a, b>>[m].id = rs[l].id
        PROVE  l \in i..i
    <3>1. CASE m = 1
      <4>1. rs[l].id = rs[i].id
        BY <1>9, <2>3, <3>1
      <4>. QED
        BY <1>8, <1>12, <4>1 DEF DistinctIds
    <3>2. CASE m = 2
      BY <1>9, <2>1, <2>3, <3>2
    <3>. QED
      BY <3>1, <3>2
  <2>4. DistinctIds(Spliced(rs, i, i, <<a, b>>))
    BY <1>8, <1>10, <1>12, <2>2, <2>3, SplicedDistinct
  <2>. QED
    BY <1>7, <1>9, <1>10, <2>4, NumberingKinds, RenumberedFacts
<1>. QED
  BY <1>2, <1>3, <1>4, <1>5, <1>6, <1>11, <1>12

(* merge_with_next.                                                          *)
LEMMA MergedFacts ==
    ASSUME NEW a \in Row, NEW b \in Row
    PROVE  LET m == Merged(a, b)
           IN  /\ m \in Row /\ m.id = a.id /\ m.speaker = a.speaker /\ m.words = a.words \o b.words
               /\ a \in Fit /\ b \in Fit => m \in Fit
<1> DEFINE s == IF a.trans \o b.trans = <<>> THEN "skipped"
                ELSE IF a.status = "final" /\ b.status = "final" THEN "final" ELSE "stale"
           u == a.words \o b.words
           v == a.trans \o b.trans
           m == [a EXCEPT !.words = u, !.trans = v, !.status = s]
<1>1. /\ u \in Seq(Words) /\ v \in Seq(Words) /\ s \in {"final", "skipped", "stale"}
      /\ a.words \in Seq(Words) /\ b.words \in Seq(Words)
  BY DEF Row
<1>2. Merged(a, b) = m
  BY DEF Merged, Row
<1>3. s = "final" => a.status = "final" /\ b.status = "final"
  OBVIOUS
<1>4. a.words # <<>> => u # <<>>
  <2>1. ASSUME NEW x \in Seq(Words), NEW y \in Seq(Words), x \o y = <<>> PROVE x = <<>>
    <3>1. Len(x \o y) = Len(x) + Len(y) /\ Len(x) \in Nat /\ Len(y) \in Nat
      OBVIOUS
    <3>2. Len(x \o y) = 0
      BY <2>1
    <3>. QED
      BY <3>1, <3>2
  <2>. QED
    BY <1>1, <2>1
<1>5. a.trans = a.words /\ b.trans = b.words => v = u
  OBVIOUS
<1> HIDE DEF s, u, v
<1>6. m \in Row /\ m.id = a.id /\ m.speaker = a.speaker /\ m.words = u /\ m.trans = v /\ m.status = s
  BY <1>1 DEF Row
<1>7. a \in Fit /\ b \in Fit => m \in Fit
  BY <1>3, <1>4, <1>5, <1>6 DEF Fit, Fits
<1>. QED
  BY <1>2, <1>6, <1>7 DEF u

(* What is true of the rows and of two of them merged is true after a merge. *)
LEMMA MergesInto ==
    ASSUME NEW T \in SUBSET Row, Numbering(T), NEW rs \in Seq(T), NEW new \in Merges(rs),
           NEW i \in 1..Len(rs) - 1,
           new = Renumbered(Spliced(rs, i, i + 1, <<Merged(rs[i], rs[i + 1])>>)),
           Merged(rs[i], rs[i + 1]) \in T
    PROVE  new \in Seq(T)
<1>1. i \in 1..Len(rs) + 1 /\ i + 1 \in i - 1..Len(rs)
  OBVIOUS
<1>2. <<Merged(rs[i], rs[i + 1])>> \in Seq(T)
  OBVIOUS
<1>3. Spliced(rs, i, i + 1, <<Merged(rs[i], rs[i + 1])>>) \in Seq(T)
  BY <1>1, <1>2, SplicedText
<1>. QED
  BY <1>3, RenumberedFacts

(* Two members of a sequence.                                               *)
LEMMA SubSeqTwo ==
    ASSUME NEW T, NEW s \in Seq(T), NEW i \in 1..Len(s) - 1
    PROVE  SubSeq(s, i, i + 1) = <<s[i], s[i + 1]>>
<1> DEFINE q == SubSeq(s, i, i + 1)
<1>0. i \in Nat /\ i + 1 \in 1..Len(s) /\ i \in 1..Len(s) /\ Len(s) \in Nat /\ i + 1 >= i
  OBVIOUS
<1>1. q \in Seq(T) /\ Len(q) = 2 /\ q[1] = s[i] /\ q[2] = s[i + 1]
  <2>1. q \in Seq(T)
    BY <1>0
  <2>2. Len(q) = 2
    BY <1>0
  <2>3. q[1] = s[i]
    BY <1>0
  <2>4. q[2] = s[i + 1]
    BY <1>0
  <2>. QED
    BY <2>1, <2>2, <2>3, <2>4
<1> HIDE DEF q
<1>2. q = <<s[i], s[i + 1]>>
  BY <1>1
<1>. QED
  BY <1>2 DEF q

(* A merge keeps the text, and the ids distinct; what a user did to either    *)
(* row is seen in the merged one.                                            *)
LEMMA MergesFacts ==
    ASSUME NEW rs \in Seq(Row), NEW new \in Merges(rs)
    PROVE  /\ new \in Seq(Row)
           /\ TextOf(new) = TextOf(rs)
           /\ DistinctIds(rs) /\ rs \in Seq(FitBut(byHand))
                  => new \in Seq(FitBut(byHand \union Inherited(rs, new)))
           /\ \A L : rs \in Seq(Unnamed(L)) => new \in Seq(Unnamed(L))
           /\ \A n \in Nat : rs \in Seq(Before(n)) => new \in Seq(Before(n))
           /\ rs \in Seq(Whole) => new \in Seq(Whole)
           /\ DistinctIds(rs) => DistinctIds(new)
<1>6. PICK i \in 1..Len(rs) - 1 :
         new = Renumbered(Spliced(rs, i, i + 1, <<Merged(rs[i], rs[i + 1])>>))
  BY DEF Merges
<1>0. i \in DOMAIN rs /\ i + 1 \in DOMAIN rs
  OBVIOUS
<1>1. new \in Seq(Row)
  <2>0. rs[i] \in Row /\ rs[i + 1] \in Row
    BY <1>0
  <2>1. Merged(rs[i], rs[i + 1]) \in Row
    BY <2>0, MergedFacts
  <2>. QED
    BY <1>6, <2>1, NumberingKinds, MergesInto
<1>2. ASSUME DistinctIds(rs), rs \in Seq(FitBut(byHand))
      PROVE  new \in Seq(FitBut(byHand \union Inherited(rs, new)))
  <2> DEFINE gone == rs[i + 1].id
             others == {r \in Row : r.id # gone}
             H == byHand \union Inherited(rs, new)
  <2>1. gone \in byHand => rs[i].id \in Inherited(rs, new)
    <3>1. ASSUME NEW j \in DOMAIN new PROVE new[j].id # gone
      <4>1. others \in SUBSET Row /\ Numbering(others)
        BY NumberingRow DEF Numbering
      <4>2. ASSUME NEW l \in DOMAIN rs, l # i + 1 PROVE rs[l] \in others
        <5>1. rs[l].id # rs[i + 1].id /\ rs[l] \in Row
          BY <1>0, <1>2, <4>2 DEF DistinctIds
        <5>. QED
          BY <5>1
      <4>3. Merged(rs[i], rs[i + 1]) \in others
        <5>1. rs[i] \in others /\ rs[i] \in Row /\ rs[i + 1] \in Row
          BY <1>0, <4>2
        <5>2. Merged(rs[i], rs[i + 1]) \in Row /\ Merged(rs[i], rs[i + 1]).id = rs[i].id
          BY <5>1, MergedFacts
        <5>. QED
          BY <5>1, <5>2
      <4> HIDE DEF others
      <4>4. new \in Seq(others)
        <5> DEFINE m == <<Merged(rs[i], rs[i + 1])>>
                   b == SubSeq(rs, 1, i - 1)
                   c == SubSeq(rs, (i + 1) + 1, Len(rs))
        <5>1. m \in Seq(others)
          BY <4>3
        <5>2. b \in Seq(others)
          <6>1. b \in Seq(Row) /\ Len(b) = i - 1 /\ \A l \in 1..i - 1 : b[l] = rs[l]
            BY <1>0, RowsBefore
          <6>2. \A l \in 1..Len(b) : b[l] \in others
            BY <4>2, <6>1
          <6> HIDE DEF b
          <6>. QED
            BY <6>1, <6>2, SeqOfThese
        <5>3. c \in Seq(others)
          <6>0. (i + 1) + 1 \in 1..Len(rs) + 1 /\ i \in Nat /\ Len(rs) \in Nat
            BY <1>0
          <6>1. /\ c \in Seq(Row) /\ Len(c) = Len(rs) - ((i + 1) + 1) + 1
                /\ \A l \in 1..Len(rs) - ((i + 1) + 1) + 1 : c[l] = rs[(i + 1) + 1 + l - 1]
            BY <6>0, RowsFrom
          <6>2. \A l \in 1..Len(c) : c[l] \in others
            <7> TAKE l \in 1..Len(c)
            <7>1. /\ (i + 1) + 1 + l - 1 \in DOMAIN rs /\ (i + 1) + 1 + l - 1 # i + 1
                  /\ c[l] = rs[(i + 1) + 1 + l - 1]
              BY <6>0, <6>1
            <7>. QED
              BY <4>2, <7>1
          <6> HIDE DEF c
          <6>. QED
            BY <6>1, <6>2, SeqOfThese
        <5>4. Spliced(rs, i, i + 1, m) = b \o m \o c
          BY DEF Spliced
        <5> HIDE DEF m, b, c
        <5>6. b \o m \o c \in Seq(others)
          BY <5>1, <5>2, <5>3, SeqOfThree
        <5>5. Spliced(rs, i, i + 1, m) \in Seq(others)
          BY <5>4, <5>6
        <5>. QED
          BY <1>6, <4>1, <5>5, RenumberedFacts DEF m
      <4>5. new[j] \in others
        BY <4>4
      <4>. QED
        BY <4>5 DEF others
    <3>. QED
      BY <1>0, <3>1 DEF Inherited
  <2> HIDE DEF gone
  <2>2. FitBut(H) \in SUBSET Row /\ Numbering(FitBut(H))
    BY NumberingKinds
  <2>3. rs \in Seq(FitBut(H))
    <3>1. \A r \in FitBut(byHand) : r \in FitBut(H)
      BY DEF FitBut
    <3>2. Seq(FitBut(byHand)) \subseteq Seq(FitBut(H))
      BY <3>1, SeqOfMore, Zenon
    <3>. QED
      BY <1>2, <3>2, Zenon
  <2>4. Merged(rs[i], rs[i + 1]) \in FitBut(H)
    <3>1. rs[i] \in FitBut(byHand) /\ rs[i + 1] \in FitBut(byHand)
      BY <1>0, <1>2
    <3>2. rs[i] \in Row /\ rs[i + 1] \in Row
      BY <1>0
    <3>3. /\ Merged(rs[i], rs[i + 1]) \in Row /\ Merged(rs[i], rs[i + 1]).id = rs[i].id
          /\ rs[i] \in Fit /\ rs[i + 1] \in Fit => Merged(rs[i], rs[i + 1]) \in Fit
      BY <3>2, MergedFacts
    <3>4. CASE rs[i].id \in byHand
      BY <3>3, <3>4 DEF FitBut
    <3>5. CASE gone \in byHand
      BY <2>1, <3>3, <3>5 DEF FitBut
    <3>6. CASE rs[i].id \notin byHand /\ gone \notin byHand
      <4>1. rs[i] \in Fit /\ rs[i + 1] \in Fit
        BY <3>1, <3>2, <3>6 DEF FitBut, Fit, gone
      <4>. QED
        BY <3>3, <4>1, NumberingKinds
    <3>. QED
      BY <3>4, <3>5, <3>6
  <2> HIDE DEF H
  <2>5. new \in Seq(FitBut(H))
    BY <1>6, <2>2, <2>3, <2>4, MergesInto
  <2>. QED
    BY <2>5 DEF H
<1>3. ASSUME NEW L, rs \in Seq(Unnamed(L)) PROVE new \in Seq(Unnamed(L))
  <2>1. Merged(rs[i], rs[i + 1]) \in Unnamed(L)
    <3>1. rs[i] \in Unnamed(L) /\ rs[i + 1] \in Row
      BY <1>0, <1>3
    <3>. QED
      BY <3>1, MergedFacts DEF Unnamed
  <2>. QED
    BY <1>3, <1>6, <2>1, NumberingKinds, MergesInto
<1>4. ASSUME NEW n \in Nat, rs \in Seq(Before(n)) PROVE new \in Seq(Before(n))
  <2>1. Merged(rs[i], rs[i + 1]) \in Before(n)
    <3>1. rs[i] \in Before(n) /\ rs[i + 1] \in Row
      BY <1>0, <1>4
    <3>. QED
      BY <3>1, MergedFacts DEF Before
  <2>. QED
    BY <1>4, <1>6, <2>1, NumberingKinds, MergesInto
<1>5. ASSUME rs \in Seq(Whole) PROVE new \in Seq(Whole)
  <2>1. Merged(rs[i], rs[i + 1]) \in Whole
    <3>1. rs[i] \in Whole /\ rs[i + 1] \in Row
      BY <1>0, <1>5
    <3>. QED
      BY <3>1, MergedFacts DEF Whole, IsPart
  <2>. QED
    BY <1>5, <1>6, <2>1, NumberingKinds, MergesInto
<1> DEFINE m == Merged(rs[i], rs[i + 1])
<1>7. /\ i \in 1..Len(rs) + 1 /\ i + 1 \in i - 1..Len(rs) /\ rs[i] \in Row /\ rs[i + 1] \in Row
      /\ i \in DOMAIN rs
  OBVIOUS
<1>8. m \in Row /\ m.id = rs[i].id /\ m.words = rs[i].words \o rs[i + 1].words
  BY <1>7, MergedFacts
<1>9. Spliced(rs, i, i + 1, <<m>>) \in Seq(Row) /\ <<m>> \in Seq(Row) /\ new = Renumbered(Spliced(rs, i, i + 1, <<m>>))
  <2>1. <<m>> \in Seq(Row)
    BY <1>8
  <2>. QED
    BY <1>6, <1>7, <2>1, SplicedText
<1> HIDE DEF m
<1>10. TextOf(new) = TextOf(rs)
  <2>1. SubSeq(rs, i, i + 1) = <<rs[i], rs[i + 1]>>
    BY SubSeqTwo
  <2>2. TextOf(<<m>>) = TextOf(SubSeq(rs, i, i + 1))
    BY <1>7, <1>8, <2>1, TextTwo, TextOne
  <2>3. TextOf(Spliced(rs, i, i + 1, <<m>>)) = TextOf(rs)
    BY <1>7, <1>9, <2>2, SplicedRows, Zenon
  <2>. QED
    BY <1>9, <2>3, NumberingKinds, RenumberedFacts
<1>11. ASSUME DistinctIds(rs) PROVE DistinctIds(new)
  <2>1. DistinctIds(<<m>>)
    BY DEF DistinctIds
  <2>2. ASSUME NEW k \in DOMAIN <<m>>, NEW l \in DOMAIN rs, <<m>>[k].id = rs[l].id
        PROVE  l \in i..i + 1
    <3>1. rs[l].id = rs[i].id
      BY <1>8, <2>2
    <3>2. l = i
      BY <1>7, <1>11, <3>1 DEF DistinctIds
    <3>. QED
      BY <3>2
  <2>3. DistinctIds(Spliced(rs, i, i + 1, <<m>>))
    BY <1>7, <1>9, <1>11, <2>1, <2>2, SplicedDistinct
  <2>. QED
    BY <1>9, <2>3, NumberingKinds, RenumberedFacts
<1>. QED
  BY <1>1, <1>2, <1>3, <1>4, <1>5, <1>10, <1>11

(* refine_session: new rows, whatever the old ones were.                     *)
LEMMA RefinedFacts ==
    ASSUME NEW rs \in Seq(Row), NEW new \in Refined(rs)
    PROVE  /\ new \in Seq(Row) /\ new \in Seq(Fit) /\ new \in Seq(Whole)
           /\ \A n \in Nat : new \in Seq(Before(n))
           /\ \A L : rs \in Seq(Unnamed(L)) /\ NoSpeaker \notin L => new \in Seq(Unnamed(L))
           /\ DistinctIds(new)
<1>1. PICK who \in CarriedSpeakers(rs), translated \in BOOLEAN :
        new = [i \in DOMAIN PassHears |->
                 [id |-> PassId(i), ord |-> i - 1, words |-> PassHears[i],
                  trans |-> IF translated THEN PassHears[i] ELSE <<>>,
                  status |-> IF translated THEN "final" ELSE "skipped", speaker |-> who]]
  BY DEF Refined
<1>2. /\ DOMAIN PassHears = 1..Len(PassHears) /\ Len(PassHears) \in Nat
      /\ \A i \in 1..Len(PassHears) : PassHears[i] \in Seq(Words) /\ PassHears[i] # <<>>
  BY EditsAssumption
<1>3. who \in Labels \union {Name, NoSpeaker}
  <2>1. ASSUME NEW i \in DOMAIN rs PROVE rs[i].speaker \in Labels \union {Name, NoSpeaker}
    <3>1. rs[i] \in Row
      OBVIOUS
    <3>. QED
      BY <3>1 DEF Row
  <2>. QED
    BY <2>1 DEF CarriedSpeakers
<1>4. ASSUME NEW i \in 1..Len(PassHears)
      PROVE  /\ new[i].id = PassId(i) /\ new[i].words = PassHears[i] /\ new[i].speaker = who
             /\ new[i] \in Row /\ (new[i].status = "final" => new[i].trans = new[i].words)
  <2>1. new[i] = [id |-> PassId(i), ord |-> i - 1, words |-> PassHears[i],
                  trans |-> IF translated THEN PassHears[i] ELSE <<>>,
                  status |-> IF translated THEN "final" ELSE "skipped", speaker |-> who]
    BY <1>1, <1>2
  <2>2. PassId(i) \in Id /\ i - 1 \in Nat
    <3>1. <<>> \in Seq(Nat) /\ i \in Nat
      OBVIOUS
    <3>. QED
      BY <3>1 DEF PassId, Id
  <2>3. (IF translated THEN PassHears[i] ELSE <<>>) \in Seq(Words)
    BY <1>2
  <2>. QED
    BY <1>2, <1>3, <2>1, <2>2, <2>3 DEF Row
<1>5. Len(new) = Len(PassHears) /\ DOMAIN new = 1..Len(PassHears) /\ new \in Seq(Row)
  <2>1. DOMAIN new = 1..Len(PassHears)
    BY <1>1, <1>2
  <2>2. new = [i \in 1..Len(PassHears) |-> new[i]]
    BY <1>1, <1>2
  <2>3. new \in [1..Len(PassHears) -> Row]
    BY <1>4, <2>2
  <2>. QED
    BY <1>2, <2>3
<1>50. \A i \in 1..Len(new) :
          new[i].id.of = "pass" /\ new[i].id.n = i /\ new[i].id.part = <<>> /\ new[i] \in Row
  <2> TAKE i \in 1..Len(new)
  <2>1. new[i].id = PassId(i) /\ new[i] \in Row
    BY <1>4, <1>5
  <2>2. PassId(i).of = "pass" /\ PassId(i).n = i /\ PassId(i).part = <<>>
    BY DEF PassId
  <2>. QED
    BY <2>1, <2>2
<1>6. \A i \in 1..Len(new) : new[i] \in Fit
  BY <1>2, <1>4, <1>5 DEF Fit, Fits
<1>7. \A i \in 1..Len(new) : new[i] \in Whole
  BY <1>50 DEF Whole, IsPart
<1>8. \A n \in Nat : \A i \in 1..Len(new) : new[i] \in Before(n)
  BY <1>50 DEF Before
<1>9. ASSUME NEW L, rs \in Seq(Unnamed(L)), NoSpeaker \notin L
      PROVE  \A i \in 1..Len(new) : new[i] \in Unnamed(L)
  <2>1. ASSUME NEW i \in DOMAIN rs PROVE rs[i].speaker \notin L
    <3>1. rs[i] \in Unnamed(L)
      BY <1>9
    <3>. QED
      BY <3>1 DEF Unnamed
  <2>2. who \notin L
    BY <1>9, <2>1 DEF CarriedSpeakers
  <2>. QED
    BY <1>4, <1>5, <2>2 DEF Unnamed
<1>10. DistinctIds(new)
  BY <1>5, <1>50 DEF DistinctIds
<1>11. new \in Seq(Fit) /\ new \in Seq(Whole)
  BY <1>5, <1>6, <1>7, SeqOfThese, Zenon
<1>12. \A n \in Nat : new \in Seq(Before(n))
  BY <1>5, <1>8, SeqOfThese, Zenon
<1>13. \A L : rs \in Seq(Unnamed(L)) /\ NoSpeaker \notin L => new \in Seq(Unnamed(L))
  BY <1>5, <1>9, SeqOfThese, Zenon
<1>. QED
  BY <1>5, <1>10, <1>11, <1>12, <1>13

(* translation_candidates: some of the rows, none of them without a text.    *)
LEMMA CandidatesFacts ==
    ASSUME NEW T, NEW rs \in Seq(T), NEW all \in BOOLEAN
    PROVE  Candidates(rs, all) \in Seq({r \in T : r.words # <<>>})
<1> DEFINE one(i) == IF rs[i].words # <<>> /\ (all \/ Missing(rs[i])) THEN <<rs[i]>> ELSE <<>>
           cc == [i \in DOMAIN rs |-> one(i)]
           said == {r \in T : r.words # <<>>}
<1>1. DOMAIN rs = 1..Len(rs) /\ Len(rs) \in Nat
  OBVIOUS
<1>2. ASSUME NEW i \in 1..Len(rs) PROVE one(i) \in Seq(said)
  <2>1. rs[i].words # <<>> => rs[i] \in said
    OBVIOUS
  <2> HIDE DEF said
  <2>2. rs[i].words # <<>> => <<rs[i]>> \in Seq(said)
    BY <2>1
  <2>3. <<>> \in Seq(said)
    OBVIOUS
  <2>. QED
    BY <2>2, <2>3
<1>3. Candidates(rs, all) = FlattenSeq(cc)
  BY DEF Candidates
<1> HIDE DEF one, said
<1>4. cc \in [1..Len(rs) -> Seq(said)]
  BY <1>1, <1>2
<1> HIDE DEF cc
<1>5. cc \in Seq(Seq(said))
  BY <1>1, <1>4
<1>6. FlattenSeq(cc) \in Seq(said)
  BY <1>5, FlattenType
<1>. QED
  BY <1>3, <1>6 DEF said

(* The turns of a text are the text, none is empty.                         *)
LEMMA TurnsFacts ==
    ASSUME NEW w \in Seq(Words)
    PROVE  TurnsOf(w) \in Seq(Seq(Words) \ {<<>>}) /\ FlattenSeq(TurnsOf(w)) = w
<1> DEFINE starts == {i \in DOMAIN w : i = 1 \/ w[i] \in Turns}
<1>1. starts \in SUBSET (1..Len(w)) /\ (w # <<>> => 1 \in starts)
  OBVIOUS
<1>2. TurnsOf(w) = Pieces(w, starts)
  BY DEF TurnsOf
<1> HIDE DEF starts
<1>. QED
  BY <1>1, <1>2, CutType, PiecesJoin

(* A row without its translation.                                           *)
LEMMA UntranslatedFacts ==
    ASSUME NEW r \in Row
    PROVE  LET q == Untranslated(r)
           IN  /\ q \in Row /\ q.id = r.id /\ q.words = r.words /\ q.status = "skipped"
<1>1. <<>> \in Seq(Words)
  OBVIOUS
<1>. QED
  BY <1>1 DEF Untranslated, Row

(* One row for each dialogue turn of a row: the same text.                   *)
LEMMA ChunkFacts ==
    ASSUME NEW r \in Row, NEW w \in Seq(Words), w # <<>>, NEW k \in Nat
    PROVE  LET q == Chunk(r, w, k)
           IN  /\ q \in Row /\ q.words = w /\ q.status = "skipped" /\ q \in Fit
               /\ q.id.of = r.id.of /\ q.id.n = r.id.n /\ q.id.part = Append(r.id.part, k)
<1> DEFINE id == [r.id EXCEPT !.part = Append(@, k)]
           q == [r EXCEPT !.trans = <<>>, !.status = "skipped", !.id = id, !.words = w]
<1>1. r.id \in Id /\ r.id.part \in Seq(Nat)
  BY DEF Row, Id
<1>2. Append(r.id.part, k) \in Seq(Nat)
  BY <1>1
<1>3. id \in Id /\ id.of = r.id.of /\ id.n = r.id.n /\ id.part = Append(r.id.part, k)
  BY <1>1, <1>2 DEF Id
<1>4. Chunk(r, w, k) = q
  BY DEF Chunk, Untranslated, Row
<1>5. id = [r.id EXCEPT !.part = Append(@, k)] /\ <<>> \in Seq(Words)
  OBVIOUS
<1> HIDE DEF id
<1>6. q \in Row /\ q.words = w /\ q.status = "skipped" /\ q.id = id
  BY <1>3, <1>5 DEF Row
<1> HIDE DEF q
<1>7. q \in Fit
  BY <1>6 DEF Fit, Fits
<1>. QED
  BY <1>3, <1>4, <1>5, <1>6, <1>7

(* The rows c are parts of the row r.                                        *)
ComeOf(c, r) == \A k \in DOMAIN c : c[k].id.of = r.id.of /\ c[k].id.n = r.id.n

(* And so for all of its turns: each part has an id, and nothing is lost but  *)
(* the later turns of a silent row.                                          *)
LEMMA ChunksFacts ==
    ASSUME NEW r \in Row, NEW silent, NEW i
    PROVE  /\ Chunks(r, i \in silent) \in Seq(Fit) /\ Chunks(r, i \in silent) \in Seq(Row)
           /\ TextOf(Chunks(r, i \in silent)) =
                 IF i \in silent /\ Len(TurnsOf(r.words)) > 1 THEN TurnsOf(r.words)[1] ELSE r.words
           /\ ComeOf(Chunks(r, i \in silent), r)
           /\ DistinctIds(Chunks(r, i \in silent))
<1> DEFINE turns == TurnsOf(r.words)
           q(k) == Chunk(r, turns[k], k)
           c == [k \in DOMAIN turns |-> q(k)]
           u == [Untranslated(r) EXCEPT !.words = turns[1]]
<1>1. r.words \in Seq(Words) /\ r.id.part \in Seq(Nat)
  BY DEF Row, Id
<1>2. turns \in Seq(Seq(Words) \ {<<>>}) /\ FlattenSeq(turns) = r.words
  BY <1>1, TurnsFacts
<1>3. Chunks(r, i \in silent) = IF turns = <<>> THEN <<>>
                          ELSE IF Len(turns) = 1 \/ i \in silent THEN <<u>> ELSE c
  BY DEF Chunks
<1>8. TurnsOf(r.words) = turns
  OBVIOUS
<1> HIDE DEF turns
<1>4. DOMAIN turns = 1..Len(turns) /\ Len(turns) \in Nat
      /\ \A k \in 1..Len(turns) : turns[k] \in Seq(Words) /\ turns[k] # <<>>
  BY <1>2
<1>5. CASE turns = <<>>
  <2>1. Chunks(r, i \in silent) = <<>> /\ r.words = <<>> /\ ~(Len(turns) > 1)
    BY <1>2, <1>3, <1>5, FlattenEmpty
  <2>2. <<>> \in Seq(Fit) /\ <<>> \in Seq(Row) /\ DOMAIN <<>> = {}
    OBVIOUS
  <2>. QED
    BY <1>8, <2>1, <2>2, TextEmpty DEF DistinctIds, ComeOf
<1>6. CASE turns # <<>> /\ (Len(turns) = 1 \/ i \in silent)
  <2> DEFINE t == turns[1]
  <2>0. Len(turns) > 0
    BY <1>2, <1>6
  <2>1. Chunks(r, i \in silent) = <<u>>
    BY <1>3, <1>6
  <2>2. t \in Seq(Words) /\ t # <<>>
    BY <1>4, <2>0
  <2>3. t = IF i \in silent /\ Len(turns) > 1 THEN turns[1] ELSE r.words
    <3>1. CASE Len(turns) = 1
      <4>1. turns = <<t>>
        BY <1>2, <3>1
      <4> HIDE DEF t
      <4>. QED
        BY <1>2, <2>2, <3>1, <4>1, FlattenOne
    <3>2. CASE Len(turns) # 1
      BY <1>4, <1>6, <2>0, <3>2
    <3>. QED
      BY <3>1, <3>2
  <2>4. u \in Row /\ u \in Fit /\ u.words = t /\ u.id = r.id
    <3>1. Untranslated(r) \in Row /\ Untranslated(r).status = "skipped" /\ Untranslated(r).id = r.id
      BY UntranslatedFacts
    <3>2. u = [Untranslated(r) EXCEPT !.words = t]
      OBVIOUS
    <3> HIDE DEF t, u
    <3>3. u \in Row /\ u.words = t /\ u.id = r.id /\ u.status = "skipped"
      BY <2>2, <3>1, <3>2 DEF Row
    <3>. QED
      BY <2>2, <3>3 DEF Fit, Fits
  <2> HIDE DEF u
  <2>5. <<u>> \in Seq(Fit) /\ <<u>> \in Seq(Row) /\ DistinctIds(<<u>>) /\ TextOf(<<u>>) = t
    BY <2>4, TextOne DEF DistinctIds
  <2>6. ComeOf(<<u>>, r)
    BY <2>4 DEF ComeOf
  <2> HIDE DEF t
  <2>. QED
    BY <1>8, <2>1, <2>3, <2>5, <2>6
<1>7. CASE turns # <<>> /\ ~(Len(turns) = 1 \/ i \in silent)
  <2>1. Chunks(r, i \in silent) = c /\ i \notin silent
    BY <1>3, <1>7
  <2>2. ASSUME NEW k \in 1..Len(turns)
        PROVE  /\ q(k) \in Fit /\ q(k) \in Row /\ q(k).words = turns[k]
               /\ q(k).id.of = r.id.of /\ q(k).id.n = r.id.n /\ q(k).id.part = Append(r.id.part, k)
    <3>1. turns[k] \in Seq(Words) /\ turns[k] # <<>> /\ k \in Nat
      BY <1>4
    <3>. QED
      BY <3>1, ChunkFacts
  <2>3. ASSUME NEW k \in 1..Len(turns), NEW l \in 1..Len(turns), k # l PROVE q(k).id # q(l).id
    <3>1. ASSUME NEW p \in Seq(Nat) PROVE Append(p, k) # Append(p, l)
      <4>1. Append(p, k)[Len(p) + 1] = k /\ Append(p, l)[Len(p) + 1] = l
        OBVIOUS
      <4>. QED
        BY <2>3, <4>1
    <3> HIDE DEF q
    <3>. QED
      BY <1>1, <2>2, <3>1
  <2> HIDE DEF q
  <2>4. c \in [1..Len(turns) -> Fit] /\ c \in [1..Len(turns) -> Row] /\ DOMAIN c = 1..Len(turns)
        /\ \A k \in 1..Len(turns) : c[k] = q(k)
    BY <1>4, <2>2
  <2> HIDE DEF c
  <2>5. c \in Seq(Fit) /\ c \in Seq(Row) /\ Len(c) = Len(turns)
    BY <1>4, <2>4
  <2>6. DistinctIds(c)
    BY <2>3, <2>4 DEF DistinctIds
  <2>7. TextOf(c) = r.words
    <3>1. WordsOf(c) = turns
      <4>1. DOMAIN WordsOf(c) = DOMAIN turns /\ \A k \in DOMAIN turns : WordsOf(c)[k] = turns[k]
        BY <1>4, <2>2, <2>4 DEF WordsOf
      <4>2. WordsOf(c) = [k \in DOMAIN turns |-> WordsOf(c)[k]]
        BY <1>4, <2>4 DEF WordsOf
      <4>3. turns = [k \in DOMAIN turns |-> turns[k]]
        BY <1>2
      <4>. QED
        BY <4>1, <4>2, <4>3
    <3>. QED
      BY <1>2, <2>5, <3>1, TextType
  <2>8. ComeOf(c, r)
    BY <2>2, <2>4 DEF ComeOf
  <2>. QED
    BY <1>8, <2>1, <2>5, <2>6, <2>7, <2>8
<1>. QED
  BY <1>5, <1>6, <1>7

(* Parts of one row that follow each other become that row again: the same   *)
(* text; where no row is a part, the same rows.                              *)
LEMMA BaseFacts ==
    ASSUME NEW r \in Row
    PROVE  /\ Base(r) \in Id /\ Base(r).of = r.id.of /\ Base(r).n = r.id.n
           /\ ~IsPart(r) => Base(r) = r.id
<1>1. r.id \in Id /\ r.id.part \in Seq(Nat)
  BY DEF Row, Id
<1>2. CASE IsPart(r)
  <2>1. Front(r.id.part) \in Seq(Nat)
    <3>1. Front(r.id.part) = SubSeq(r.id.part, 1, Len(r.id.part) - 1)
      BY DEF Front
    <3>2. r.id.part # <<>> /\ Len(r.id.part) \in Nat
      BY <1>1, <1>2 DEF IsPart
    <3>. QED
      BY <1>1, <3>1, <3>2
  <2>2. Base(r) = [r.id EXCEPT !.part = Front(@)]
    BY <1>2 DEF Base
  <2>. QED
    BY <1>1, <1>2, <2>1, <2>2 DEF Id
<1>3. CASE ~IsPart(r)
  BY <1>1, <1>3 DEF Base
<1>. QED
  BY <1>2, <1>3

(* Gathered rows keep their text, their origin, and if undivided their ids. *)
LEMMA GatheredFacts ==
    ASSUME NEW rs \in Seq(Row)
    PROVE  /\ Gathered(rs) \in Seq(Row)
           /\ TextOf(Gathered(rs)) = TextOf(rs)
           /\ \A n \in Nat : rs \in Seq(Before(n)) => Gathered(rs) \in Seq(Before(n))
           /\ rs \in Seq(Whole) => /\ Len(Gathered(rs)) = Len(rs)
                                   /\ \A i \in 1..Len(rs) : Gathered(rs)[i].id = rs[i].id
<1> DEFINE starts == {i \in DOMAIN rs : i = 1 \/ ~SameRow(rs[i - 1], rs[i])}
           groups == Pieces(rs, starts)
           q(g) == [groups[g][1] EXCEPT !.id = Base(groups[g][1]), !.words = TextOf(groups[g])]
<1>1. starts \in SUBSET (1..Len(rs)) /\ (rs # <<>> => 1 \in starts)
  OBVIOUS
<1>2. rs \in Seq(Whole) => starts = 1..Len(rs)
  <2> SUFFICES ASSUME rs \in Seq(Whole), NEW i \in 1..Len(rs) PROVE i \in starts
    BY <1>1
  <2>1. rs[i] \in Whole
    OBVIOUS
  <2>2. ~SameRow(rs[i - 1], rs[i])
    BY <2>1 DEF SameRow, Whole
  <2>. QED
    BY <2>2
<1> HIDE DEF starts
<1>3. groups \in Seq(Seq(Row) \ {<<>>}) /\ FlattenSeq(groups) = rs
  BY <1>1, CutType, PiecesJoin
<1>4. Gathered(rs) = [g \in DOMAIN groups |-> q(g)]
  BY DEF Gathered, starts
<1>40. groups = Pieces(rs, starts)
  OBVIOUS
<1> HIDE DEF groups
<1>5. DOMAIN groups = 1..Len(groups) /\ Len(groups) \in Nat
      /\ \A g \in 1..Len(groups) : groups[g] \in Seq(Row) /\ groups[g] # <<>> /\ groups[g][1] \in Row
  <2>1. ASSUME NEW s \in Seq(Row), s # <<>> PROVE s[1] \in Row
    BY <2>1
  <2>2. DOMAIN groups = 1..Len(groups) /\ Len(groups) \in Nat
        /\ \A g \in 1..Len(groups) : groups[g] \in Seq(Row) \ {<<>>}
    BY <1>3
  <2>. QED
    BY <2>1, <2>2
<1>6. ASSUME NEW g \in 1..Len(groups)
      PROVE  /\ q(g) \in Row /\ q(g).words = TextOf(groups[g])
             /\ q(g).id = Base(groups[g][1])
  <2> DEFINE r == groups[g][1]
             t == TextOf(groups[g])
  <2>1. r \in Row /\ t \in Seq(Words) /\ Base(r) \in Id
    BY <1>5, TextType, BaseFacts
  <2>2. q(g) = [r EXCEPT !.id = Base(r), !.words = t]
    OBVIOUS
  <2> HIDE DEF r, t, q
  <2>3. q(g) \in Row /\ q(g).words = t /\ q(g).id = Base(r)
    BY <2>1, <2>2 DEF Row
  <2>. QED
    BY <2>3 DEF r, t
<1> HIDE DEF q
<1>7. /\ Gathered(rs) \in Seq(Row) /\ Len(Gathered(rs)) = Len(groups)
      /\ \A g \in 1..Len(groups) : Gathered(rs)[g] = q(g)
  BY <1>4, <1>5, <1>6
<1>8. TextOf(Gathered(rs)) = TextOf(rs)
  <2> DEFINE ww == WordsOf(Gathered(rs))
  <2>1. /\ ww \in Seq(Seq(Words)) /\ Len(ww) = Len(groups) /\ TextOf(Gathered(rs)) = FlattenSeq(ww)
        /\ \A g \in 1..Len(groups) : ww[g] = Gathered(rs)[g].words
    BY <1>7, TextType
  <2>2. \A g \in 1..Len(groups) : TextOf(groups[g]) = ww[g]
    BY <1>6, <1>7, <2>1
  <2>3. groups \in Seq(Seq(Row))
    BY <1>3
  <2> HIDE DEF ww
  <2>4. TextOf(FlattenSeq(groups)) = FlattenSeq(ww)
    BY <2>1, <2>2, <2>3, TextFlatten
  <2>. QED
    BY <1>3, <2>1, <2>4
<1>9. ASSUME NEW n \in Nat, rs \in Seq(Before(n)) PROVE Gathered(rs) \in Seq(Before(n))
  <2>1. groups \in Seq(Seq(Before(n)) \ {<<>>})
    BY <1>1, <1>9, <1>40, CutType
  <2>2. ASSUME NEW g \in 1..Len(groups) PROVE Gathered(rs)[g] \in Before(n)
    <3>1. groups[g] \in Seq(Before(n)) /\ groups[g] # <<>>
      BY <2>1
    <3>2. ASSUME NEW s \in Seq(Before(n)), s # <<>> PROVE s[1] \in Before(n)
      BY <3>2
    <3>3. groups[g][1] \in Before(n)
      BY <3>1, <3>2
    <3>4. q(g) \in Row /\ q(g).id = Base(groups[g][1]) /\ groups[g][1] \in Row
      BY <1>5, <1>6
    <3>5. q(g) \in Before(n)
      BY <3>3, <3>4, BaseFacts DEF Before
    <3>. QED
      BY <1>7, <3>5
  <2>. QED
    BY <1>7, <2>2, SeqOfThese, Zenon
<1>10. ASSUME rs \in Seq(Whole)
       PROVE  Len(Gathered(rs)) = Len(rs) /\ \A i \in 1..Len(rs) : Gathered(rs)[i].id = rs[i].id
  <2>1. starts = 1..Len(rs)
    BY <1>2, <1>10
  <2> DEFINE ones == [i \in 1..Len(rs) |-> <<rs[i]>>]
             cut == Cut(rs, starts)
  <2>2. /\ ones \in Seq(Seq(Row)) /\ Len(ones) = Len(rs) /\ DOMAIN rs = 1..Len(rs)
        /\ \A i \in 1..Len(rs) : ones[i] = <<rs[i]>>
    OBVIOUS
  <2>3. ASSUME NEW i \in 1..Len(rs) PROVE cut[i] = <<ones[i]>>
    <3>1. NextStart(rs, starts, i) = i + 1
      <4> DEFINE k == NextStart(rs, starts, i)
      <4>1. i \in 0..Len(rs)
        OBVIOUS
      <4>2. k \in i + 1..Len(rs) + 1 /\ \A j \in starts \union {Len(rs) + 1} : i < j => k <= j
        BY <1>1, <4>1, NextStartFacts
      <4>3. i + 1 \in starts \union {Len(rs) + 1} /\ i < i + 1
        BY <2>1
      <4> HIDE DEF k
      <4>4. k = i + 1
        BY <4>2, <4>3
      <4>. QED
        BY <4>4 DEF k
    <3>2. cut[i] = <<SubSeq(rs, i, i)>>
      <4>1. i \in DOMAIN rs /\ i \in starts /\ (i + 1) - 1 = i
        BY <2>1, <2>2
      <4>2. cut[i] = <<SubSeq(rs, i, NextStart(rs, starts, i) - 1)>>
        BY <4>1 DEF Cut
      <4>. QED
        BY <3>1, <4>1, <4>2
    <3>3. SubSeq(rs, i, i) = <<rs[i]>>
      BY SubSeqOne
    <3>. QED
      BY <2>2, <3>2, <3>3
  <2>4. groups = ones
    <3>1. cut \in Seq(Seq(Seq(Row))) /\ Len(cut) = Len(rs)
      <4>1. cut \in Seq(Seq(Seq(Row) \ {<<>>})) /\ Len(cut) = Len(rs)
        BY <1>1, CutType
      <4> HIDE DEF cut
      <4>. QED
        BY <4>1
    <3> HIDE DEF cut, ones
    <3>2. FlattenSeq(cut) = ones
      <4>1. ones \in Seq(Seq(Row)) /\ Len(cut) = Len(ones)
            /\ \A i \in 1..Len(ones) : cut[i] = <<ones[i]>>
        BY <2>2, <2>3, <3>1
      <4>. QED
        BY <3>1, <4>1, FlattenSingles, Zenon
    <3>. QED
      BY <1>40, <3>2, PiecesAreCut DEF cut
  <2> HIDE DEF ones, cut
  <2>5. ASSUME NEW i \in 1..Len(rs) PROVE Gathered(rs)[i].id = rs[i].id
    <3>1. rs[i] \in Whole /\ rs[i] \in Row
      BY <1>10
    <3>2. groups[i] = <<rs[i]>> /\ i \in 1..Len(groups)
      BY <2>2, <2>4
    <3>3. groups[i][1] = rs[i]
      BY <3>2
    <3>4. q(i).id = Base(rs[i])
      BY <1>6, <3>2, <3>3
    <3>. QED
      BY <1>7, <3>1, <3>2, <3>4, BaseFacts DEF Whole
  <2>. QED
    BY <1>7, <2>2, <2>4, <2>5
<1>. QED
  BY <1>7, <1>8, <1>9, <1>10

(* A function on 1..n is a sequence.                                        *)
LEMMA FunctionIsSeq ==
    ASSUME NEW S, NEW n \in Nat, NEW f \in [1..n -> S]
    PROVE  f \in Seq(S) /\ Len(f) = n
OBVIOUS

(* What silence leaves of a text is a text; without silence, all of it.      *)
LEMMA TextLeftFacts ==
    ASSUME NEW rs \in Seq(Row), NEW silent \in SUBSET Several(rs)
    PROVE  TextLeft(rs, silent) \in Seq(Words) /\ TextLeft(rs, {}) = TextOf(rs)
<1> DEFINE g == Gathered(rs)
           t(i) == IF i \in silent THEN TurnsOf(g[i].words)[1] ELSE g[i].words
           ww == [i \in DOMAIN g |-> t(i)]
<1>1. g \in Seq(Row) /\ TextOf(g) = TextOf(rs)
  BY GatheredFacts
<1>2. TextLeft(rs, silent) = FlattenSeq(ww)
  BY DEF TextLeft
<1>3. Several(rs) = {i \in DOMAIN g : Len(TurnsOf(g[i].words)) > 1}
  BY DEF Several
<1>4. TextLeft(rs, {}) = FlattenSeq(WordsOf(g))
  <2>1. TextLeft(rs, {}) = FlattenSeq([i \in DOMAIN g |-> g[i].words])
    BY DEF TextLeft
  <2>. QED
    BY <2>1 DEF WordsOf
<1> HIDE DEF g
<1>5. ASSUME NEW i \in DOMAIN g PROVE t(i) \in Seq(Words)
  <2>1. g[i].words \in Seq(Words)
    <3>1. g[i] \in Row
      BY <1>1
    <3>. QED
      BY <3>1 DEF Row
  <2>2. ASSUME i \in silent PROVE TurnsOf(g[i].words)[1] \in Seq(Words)
    <3> DEFINE turns == TurnsOf(g[i].words)
    <3>1. turns \in Seq(Seq(Words) \ {<<>>}) /\ Len(turns) > 1
      BY <1>3, <2>1, <2>2, TurnsFacts
    <3> HIDE DEF turns
    <3>2. turns[1] \in Seq(Words)
      BY <3>1
    <3>. QED
      BY <3>2 DEF turns
  <2>. QED
    BY <2>1, <2>2
<1> HIDE DEF t
<1>6. ww \in Seq(Seq(Words))
  <2>1. DOMAIN g = 1..Len(g) /\ Len(g) \in Nat
    BY <1>1
  <2>2. ww \in [1..Len(g) -> Seq(Words)]
    BY <1>5, <2>1
  <2> HIDE DEF ww
  <2>. QED
    BY <2>1, <2>2, FunctionIsSeq, Zenon
<1> HIDE DEF ww
<1>7. FlattenSeq(ww) \in Seq(Words)
  BY <1>6, FlattenType
<1>8. FlattenSeq(WordsOf(g)) = TextOf(rs)
  BY <1>1, TextType
<1>. QED
  BY <1>2, <1>4, <1>7, <1>8

(* _resegment_transcript keeps the text of any rows, but for what silence     *)
(* takes; the ids stay distinct where no row has been divided before.        *)
LEMMA ResegmentedFacts ==
    ASSUME NEW rs \in Seq(Row), NEW silent \in SUBSET Several(rs)
    PROVE  LET new == Resegmented(rs, silent)
           IN  /\ new \in Seq(Fit) /\ new \in Seq(Row)
               /\ TextOf(new) = TextLeft(rs, silent)
               /\ \A n \in Nat : rs \in Seq(Before(n)) => new \in Seq(Before(n))
               /\ rs \in Seq(Whole) /\ DistinctIds(rs) => DistinctIds(new)
<1> DEFINE g == Gathered(rs)
           pp == [i \in DOMAIN g |-> Chunks(g[i], i \in silent)]
           t(i) == IF i \in silent THEN TurnsOf(g[i].words)[1] ELSE g[i].words
           ww == [i \in DOMAIN g |-> t(i)]
<1>1. /\ g \in Seq(Row) /\ TextOf(g) = TextOf(rs)
      /\ \A n \in Nat : rs \in Seq(Before(n)) => g \in Seq(Before(n))
      /\ rs \in Seq(Whole) => Len(g) = Len(rs) /\ \A i \in 1..Len(rs) : g[i].id = rs[i].id
  BY GatheredFacts
<1>2. Resegmented(rs, silent) = Renumbered(FlattenSeq(pp))
  BY DEF Resegmented
<1>20. TextLeft(rs, silent) = FlattenSeq(ww)
  BY DEF TextLeft
<1>21. \A i \in silent : Len(TurnsOf(g[i].words)) > 1
  BY DEF Several
<1> HIDE DEF g
<1>3. DOMAIN g = 1..Len(g) /\ Len(g) \in Nat /\ \A i \in 1..Len(g) : g[i] \in Row
  BY <1>1
<1>4. /\ pp \in Seq(Seq(Fit)) /\ pp \in Seq(Seq(Row)) /\ Len(pp) = Len(g)
      /\ \A i \in 1..Len(g) : pp[i] = Chunks(g[i], i \in silent)
  <2>1. \A i \in 1..Len(g) :
           Chunks(g[i], i \in silent) \in Seq(Fit) /\ Chunks(g[i], i \in silent) \in Seq(Row)
    <3> TAKE i \in 1..Len(g)
    <3>1. g[i] \in Row
      BY <1>3
    <3>. QED
      BY <3>1, ChunksFacts
  <2>2. /\ pp \in [1..Len(g) -> Seq(Fit)] /\ pp \in [1..Len(g) -> Seq(Row)]
        /\ \A i \in 1..Len(g) : pp[i] = Chunks(g[i], i \in silent)
    BY <1>3, <2>1
  <2> HIDE DEF pp
  <2>3. pp \in Seq(Seq(Fit)) /\ pp \in Seq(Seq(Row)) /\ Len(pp) = Len(g)
    BY <1>3, <2>2, FunctionIsSeq, Zenon
  <2>. QED
    BY <2>2, <2>3
<1> HIDE DEF pp
<1>5. FlattenSeq(pp) \in Seq(Fit) /\ FlattenSeq(pp) \in Seq(Row)
  BY <1>4, FlattenType, Zenon
<1>6. TextOf(FlattenSeq(pp)) = TextLeft(rs, silent)
  <2>2. ASSUME NEW i \in 1..Len(pp) PROVE TextOf(pp[i]) = t(i) /\ t(i) \in Seq(Words)
    <3>1. g[i] \in Row /\ pp[i] = Chunks(g[i], i \in silent)
      BY <1>3, <1>4
    <3>2. i \in silent => Len(TurnsOf(g[i].words)) > 1
      BY <1>21
    <3>3. TextOf(pp[i]) = t(i)
      <4>1. TextOf(Chunks(g[i], i \in silent)) =
               IF i \in silent /\ Len(TurnsOf(g[i].words)) > 1
               THEN TurnsOf(g[i].words)[1] ELSE g[i].words
        BY <3>1, ChunksFacts, Zenon
      <4>. QED
        BY <3>1, <3>2, <4>1, Zenon
    <3> HIDE DEF t
    <3>4. pp[i] \in Seq(Row)
      BY <1>4
    <3>. QED
      BY <3>3, <3>4, TextType
  <2> HIDE DEF t
  <2>3. /\ ww \in Seq(Seq(Words)) /\ Len(ww) = Len(g) /\ \A i \in 1..Len(g) : ww[i] = t(i)
    <3>1. ww \in [1..Len(g) -> Seq(Words)] /\ \A i \in 1..Len(g) : ww[i] = t(i)
      BY <1>3, <1>4, <2>2
    <3> HIDE DEF ww
    <3>. QED
      BY <1>3, <3>1, FunctionIsSeq, Zenon
  <2> HIDE DEF ww
  <2>4. TextOf(FlattenSeq(pp)) = FlattenSeq(ww)
    BY <1>4, <2>2, <2>3, TextFlatten
  <2>. QED
    BY <1>20, <2>4
<1>7. ASSUME NEW n \in Nat, rs \in Seq(Before(n)) PROVE FlattenSeq(pp) \in Seq(Before(n))
  <2>1. ASSUME NEW i \in 1..Len(pp) PROVE pp[i] \in Seq(Before(n))
    <3>1. g[i] \in Before(n) /\ g[i] \in Row
      BY <1>1, <1>4, <1>7
    <3>2. pp[i] \in Seq(Row) /\ pp[i] = Chunks(g[i], i \in silent)
      BY <1>4
    <3>3. \A k \in DOMAIN pp[i] : pp[i][k].id.of = g[i].id.of /\ pp[i][k].id.n = g[i].id.n
      <4>1. ComeOf(Chunks(g[i], i \in silent), g[i])
        BY <3>1, ChunksFacts, Zenon
      <4>. QED
        BY <3>2, <4>1, Zenon DEF ComeOf
    <3>4. \A k \in 1..Len(pp[i]) : pp[i][k] \in Before(n)
      <4> DEFINE q == pp[i]
      <4>1. q \in Seq(Row) /\ \A k \in DOMAIN q : q[k].id.of = g[i].id.of /\ q[k].id.n = g[i].id.n
        BY <3>2, <3>3
      <4> HIDE DEF q
      <4>2. \A k \in 1..Len(q) : q[k] \in Row /\ k \in DOMAIN q
        BY <4>1
      <4>3. \A k \in 1..Len(q) : q[k] \in Before(n)
        BY <3>1, <4>1, <4>2 DEF Before
      <4>. QED
        BY <4>3 DEF q
    <3>. QED
      BY <3>2, <3>4, SeqOfThese, Zenon
  <2>2. pp \in Seq(Seq(Before(n)))
    BY <1>4, <2>1, SeqOfThese, Zenon
  <2>. QED
    BY <2>2, FlattenType, Zenon
<1>8. ASSUME rs \in Seq(Whole), DistinctIds(rs) PROVE DistinctIds(FlattenSeq(pp))
  <2>1. \A i \in 1..Len(pp) : DistinctIds(pp[i])
    <3> TAKE i \in 1..Len(pp)
    <3>1. g[i] \in Row /\ pp[i] = Chunks(g[i], i \in silent)
      BY <1>3, <1>4
    <3>. QED
      BY <3>1, ChunksFacts
  <2>2. ASSUME NEW i \in 1..Len(pp), NEW j \in 1..Len(pp), i # j,
               NEW k \in DOMAIN pp[i], NEW l \in DOMAIN pp[j]
        PROVE  pp[i][k].id # pp[j][l].id
    <3>1. /\ i \in 1..Len(rs) /\ j \in 1..Len(rs) /\ i \in DOMAIN rs /\ j \in DOMAIN rs
          /\ g[i] \in Row /\ g[j] \in Row /\ g[i].id = rs[i].id /\ g[j].id = rs[j].id
          /\ rs[i] \in Row /\ rs[j] \in Row
      BY <1>1, <1>3, <1>4, <1>8
    <3>2. rs[i].id # rs[j].id /\ ~IsPart(rs[i]) /\ ~IsPart(rs[j])
      <4>1. rs[i] \in Whole /\ rs[j] \in Whole
        BY <1>8, <3>1
      <4>. QED
        BY <1>8, <2>2, <3>1, <4>1 DEF DistinctIds, Whole
    <3>3. rs[i].id.of # rs[j].id.of \/ rs[i].id.n # rs[j].id.n
      <4>1. rs[i].id \in Id /\ rs[j].id \in Id
        BY <3>1 DEF Row
      <4>2. rs[i].id.part = <<>> /\ rs[j].id.part = <<>>
        BY <3>2 DEF IsPart
      <4>3. ASSUME NEW a \in Id, NEW b \in Id, a.of = b.of, a.n = b.n, a.part = b.part PROVE a = b
        BY <4>3 DEF Id
      <4>. QED
        BY <3>2, <4>1, <4>2, <4>3
    <3>4. /\ pp[i][k].id.of = g[i].id.of /\ pp[i][k].id.n = g[i].id.n
          /\ pp[j][l].id.of = g[j].id.of /\ pp[j][l].id.n = g[j].id.n
      <4>1. \A m \in 1..Len(g) : \A h \in DOMAIN pp[m] :
               pp[m][h].id.of = g[m].id.of /\ pp[m][h].id.n = g[m].id.n
        <5> TAKE m \in 1..Len(g)
        <5>1. g[m] \in Row /\ pp[m] = Chunks(g[m], m \in silent)
          BY <1>3, <1>4
        <5>2. ComeOf(Chunks(g[m], m \in silent), g[m])
          BY <5>1, ChunksFacts, Zenon
        <5>. QED
          BY <5>1, <5>2, Zenon DEF ComeOf
      <4>2. i \in 1..Len(g) /\ j \in 1..Len(g)
        BY <1>4
      <4>. QED
        BY <4>1, <4>2
    <3>. QED
      BY <3>1, <3>3, <3>4
  <2>. QED
    BY <1>4, <2>1, <2>2, FlattenDistinct
<1>9. /\ Renumbered(FlattenSeq(pp)) \in Seq(Fit) /\ Renumbered(FlattenSeq(pp)) \in Seq(Row)
      /\ TextOf(Renumbered(FlattenSeq(pp))) = TextOf(FlattenSeq(pp))
      /\ DistinctIds(FlattenSeq(pp)) => DistinctIds(Renumbered(FlattenSeq(pp)))
  <2>1. Fit \in SUBSET Row /\ Row \in SUBSET Row /\ Numbering(Fit) /\ Numbering(Row)
    BY NumberingKinds
  <2>. QED
    BY <1>5, <2>1, RenumberedFacts, Zenon
<1>10. ASSUME NEW n \in Nat, rs \in Seq(Before(n))
       PROVE  Renumbered(FlattenSeq(pp)) \in Seq(Before(n))
  <2>1. Before(n) \in SUBSET Row /\ Numbering(Before(n))
    BY NumberingKinds
  <2>. QED
    BY <1>7, <1>10, <2>1, RenumberedFacts, Zenon
<1>. QED
  BY <1>2, <1>6, <1>8, <1>9, <1>10

(* Diarization keeps the text, but for what silence takes; ids stay distinct  *)
(* where no row was divided.                                                 *)
LEMMA DiarizedFacts ==
    ASSUME NEW rs \in Seq(Row), NEW silent \in SUBSET Several(rs), NEW new \in Diarized(rs, silent)
    PROVE  /\ new \in Seq(Row) /\ new \in Seq(Fit)
           /\ TextOf(new) = TextLeft(rs, silent)
           /\ \A n \in Nat : rs \in Seq(Before(n)) => new \in Seq(Before(n))
           /\ rs \in Seq(Whole) /\ DistinctIds(rs) => DistinctIds(new)
<1> DEFINE s == Resegmented(rs, silent)
<1>1. PICK f \in [DOMAIN s -> Labels] : new = [i \in DOMAIN s |-> [s[i] EXCEPT !.speaker = f[i]]]
  BY DEF Diarized
<1>2. /\ s \in Seq(Fit) /\ s \in Seq(Row) /\ TextOf(s) = TextLeft(rs, silent)
      /\ \A n \in Nat : rs \in Seq(Before(n)) => s \in Seq(Before(n))
      /\ rs \in Seq(Whole) /\ DistinctIds(rs) => DistinctIds(s)
  BY ResegmentedFacts
<1> HIDE DEF s
<1>3. DOMAIN s = 1..Len(s) /\ Len(s) \in Nat /\ \A i \in 1..Len(s) : s[i] \in Row /\ s[i] \in Fit
  BY <1>2
<1>4. ASSUME NEW i \in 1..Len(s)
      PROVE  /\ new[i] \in Row /\ new[i] \in Fit
             /\ new[i].id = s[i].id /\ new[i].words = s[i].words
  <2>1. ASSUME NEW r \in Fit, NEW who \in Labels
        PROVE  LET q == [r EXCEPT !.speaker = who]
               IN  q \in Row /\ q \in Fit /\ q.id = r.id /\ q.words = r.words
    BY DEF Fit, Fits, Row
  <2>2. f[i] \in Labels /\ new[i] = [s[i] EXCEPT !.speaker = f[i]]
    BY <1>1, <1>3
  <2>. QED
    BY <1>3, <2>1, <2>2
<1>5. Len(new) = Len(s) /\ DOMAIN new = 1..Len(s) /\ new \in Seq(Row) /\ new \in Seq(Fit)
  <2>1. DOMAIN new = 1..Len(s) /\ new = [i \in 1..Len(s) |-> new[i]]
    BY <1>1, <1>3
  <2>2. new \in [1..Len(s) -> Row] /\ new \in [1..Len(s) -> Fit]
    BY <1>4, <2>1
  <2>. QED
    BY <1>3, <2>2
<1>6. TextOf(new) = TextLeft(rs, silent)
  BY <1>2, <1>4, <1>5, TextSame
<1>7. ASSUME NEW n \in Nat, rs \in Seq(Before(n)) PROVE new \in Seq(Before(n))
  <2>1. ASSUME NEW i \in 1..Len(new) PROVE new[i] \in Before(n)
    <3>1. s[i] \in Before(n)
      BY <1>2, <1>5, <1>7
    <3>. QED
      BY <1>4, <1>5, <3>1 DEF Before
  <2>. QED
    BY <1>5, <2>1, SeqOfThese, Zenon
<1>8. DistinctIds(s) => DistinctIds(new)
  BY <1>3, <1>4, <1>5 DEF DistinctIds
<1>. QED
  BY <1>2, <1>5, <1>6, <1>7, <1>8

(* upsert_segment_trans: no row loses its text or its id; a row that was     *)
(* gone comes back without a text.                                           *)
LEMMA AnsweredFacts ==
    ASSUME NEW r \in Row, NEW t \in Seq(Words)
    PROVE  LET q == Answered(r, t)
           IN  /\ q \in Row /\ q.id = r.id /\ q.words = r.words /\ q.speaker = r.speaker
               /\ r.words # <<>> /\ t \in {r.words, <<>>} => q \in Fit
BY DEF Answered, Row, Fit, Fits

(* Rows changed in their places.                                            *)
LEMMA Replaced ==
    ASSUME NEW T \in SUBSET Row, NEW rs \in Seq(T), NEW qs, DOMAIN qs = DOMAIN rs,
           qs = [i \in DOMAIN qs |-> qs[i]],
           \A i \in DOMAIN rs : qs[i] \in T /\ qs[i].id = rs[i].id
    PROVE  /\ qs \in Seq(T) /\ Len(qs) = Len(rs)
           /\ DistinctIds(rs) => DistinctIds(qs)
           /\ (\A i \in DOMAIN rs : qs[i].words = rs[i].words) => TextOf(qs) = TextOf(rs)
<1>1. DOMAIN rs = 1..Len(rs) /\ Len(rs) \in Nat /\ rs \in Seq(Row)
  OBVIOUS
<1>2. qs \in [1..Len(rs) -> T]
  BY <1>1
<1>3. qs \in Seq(T) /\ Len(qs) = Len(rs) /\ qs \in Seq(Row)
  BY <1>1, <1>2
<1>4. DistinctIds(rs) => DistinctIds(qs)
  BY DEF DistinctIds
<1>5. (\A i \in DOMAIN rs : qs[i].words = rs[i].words) => TextOf(qs) = TextOf(rs)
  BY <1>1, <1>3, TextSame
<1>. QED
  BY <1>3, <1>4, <1>5

Lost(r, t) == Answered([r EXCEPT !.words = <<>>, !.speaker = NoSpeaker], t)

(* Where the answered row, or the lost one, is in T, so are all rows.       *)
LEMMA UpsertedInto ==
    ASSUME NEW T \in SUBSET Row, rows \in Seq(T), DistinctIds(rows),
           NEW r \in Row, NEW t \in Seq(Words),
           \A i \in DOMAIN rows : rows[i].id = r.id => Answered(rows[i], t) \in T,
           (\A i \in DOMAIN rows : rows[i].id # r.id) => Lost(r, t) \in T
    PROVE  LET u == Upserted(r, t)
           IN  /\ u \in Seq(T) /\ DistinctIds(u) /\ TextOf(u) = TextOf(rows)
               /\ \A i \in DOMAIN rows : \E j \in DOMAIN u :
                     u[j].id = rows[i].id /\ u[j].words = rows[i].words
<1> DEFINE at == {i \in DOMAIN rows : rows[i].id = r.id}
           S == {i \in DOMAIN rows : rows[i].ord > r.ord} \union {Len(rows) + 1}
           behind == Min(S)
           answered == [i \in DOMAIN rows |-> IF i \in at THEN Answered(rows[i], t) ELSE rows[i]]
           spliced == Spliced(rows, behind, behind - 1, <<Lost(r, t)>>)
<1>1. Upserted(r, t) = IF at # {} THEN answered ELSE spliced
  BY DEF Upserted, Lost
<1>2. DOMAIN rows = 1..Len(rows) /\ Len(rows) \in Nat /\ rows \in Seq(Row)
  OBVIOUS
<1>3. CASE at # {}
  <2>1. DOMAIN answered = DOMAIN rows /\ answered = [i \in DOMAIN answered |-> answered[i]]
    OBVIOUS
  <2>2. ASSUME NEW i \in DOMAIN rows
        PROVE  answered[i] \in T /\ answered[i].id = rows[i].id /\ answered[i].words = rows[i].words
    <3>1. rows[i] \in Row /\ rows[i] \in T
      BY <1>2
    <3>2. CASE i \in at
      BY <3>1, <3>2, AnsweredFacts
    <3>3. CASE i \notin at
      BY <3>1, <3>3
    <3>. QED
      BY <3>2, <3>3
  <2>3. Upserted(r, t) = answered
    BY <1>1, <1>3
  <2> HIDE DEF answered
  <2>4. answered \in Seq(T) /\ DistinctIds(answered) /\ TextOf(answered) = TextOf(rows)
    BY <2>1, <2>2, Replaced
  <2>. QED
    BY <2>1, <2>2, <2>3, <2>4
<1>4. CASE at = {}
  <2> DEFINE lost == Lost(r, t)
  <2>1. lost \in T /\ lost \in Row /\ lost.id = r.id /\ lost.words = <<>>
    <3> DEFINE q == [r EXCEPT !.words = <<>>, !.speaker = NoSpeaker]
    <3>1. q \in Row /\ q.id = r.id /\ q.words = <<>>
      <4>1. <<>> \in Seq(Words)
        OBVIOUS
      <4>. QED
        BY <4>1 DEF Row
    <3>2. lost = Answered(q, t)
      BY DEF Lost
    <3> HIDE DEF q
    <3>3. lost \in Row /\ lost.id = r.id /\ lost.words = <<>>
      BY <3>1, <3>2, AnsweredFacts
    <3>4. lost \in T
      BY <1>4
    <3>. QED
      BY <3>3, <3>4
  <2>2. behind \in 1..Len(rows) + 1
    <3>1. S \in SUBSET (1..Len(rows) + 1) /\ S # {} /\ Len(rows) + 1 \in Nat
      BY <1>2
    <3> HIDE DEF S
    <3>2. Min(S) \in S
      BY <3>1, MinIsLeast
    <3>. QED
      BY <3>1, <3>2
  <2>3. behind - 1 \in behind - 1..Len(rows)
    BY <1>2, <2>2
  <2>4. Upserted(r, t) = spliced
    BY <1>1, <1>4
  <2> HIDE DEF behind, lost
  <2>5. <<lost>> \in Seq(T) /\ <<lost>> \in Seq(Row) /\ DistinctIds(<<lost>>)
    BY <2>1 DEF DistinctIds
  <2>6. TextOf(<<lost>>) = TextOf(SubSeq(rows, behind, behind - 1))
    <3>1. SubSeq(rows, behind, behind - 1) = <<>>
      BY <1>2, <2>2
    <3>. QED
      BY <2>1, <3>1, TextOne, TextEmpty
  <2>7. Spliced(rows, behind, behind - 1, <<lost>>) \in Seq(T)
        /\ TextOf(Spliced(rows, behind, behind - 1, <<lost>>)) = TextOf(rows)
    <3>1. ASSUME NEW ss \in Seq(T), NEW ls \in Seq(T), NEW i \in 1..Len(ss) + 1, NEW j \in i - 1..Len(ss),
                 TextOf(ls) = TextOf(SubSeq(ss, i, j))
          PROVE  Spliced(ss, i, j, ls) \in Seq(T) /\ TextOf(Spliced(ss, i, j, ls)) = TextOf(ss)
      BY <3>1, SplicedText
    <3>2. rows \in Seq(T) /\ <<lost>> \in Seq(T)
      BY <2>5
    <3>. QED
      BY <2>2, <2>3, <2>6, <3>1, <3>2
  <2>8. ASSUME NEW k \in DOMAIN <<lost>>, NEW l \in DOMAIN rows, <<lost>>[k].id = rows[l].id
        PROVE  l \in behind..behind - 1
    BY <1>4, <2>1, <2>8
  <2>9. DistinctIds(Spliced(rows, behind, behind - 1, <<lost>>))
    BY <1>2, <2>2, <2>3, <2>5, <2>8, SplicedDistinct
  <2>10. ASSUME NEW i \in DOMAIN rows
         PROVE  \E j \in DOMAIN Spliced(rows, behind, behind - 1, <<lost>>) :
                   Spliced(rows, behind, behind - 1, <<lost>>)[j] = rows[i]
    <3> DEFINE a == SubSeq(rows, 1, behind - 1)
               b == SubSeq(rows, behind, Len(rows))
               w == (a \o <<lost>>) \o b
    <3>1. /\ a \in Seq(Row) /\ Len(a) = behind - 1 /\ \A m \in 1..behind - 1 : a[m] = rows[m]
          /\ b \in Seq(Row) /\ Len(b) = Len(rows) - behind + 1
          /\ \A m \in 1..Len(rows) - behind + 1 : b[m] = rows[behind + m - 1]
      BY <1>2, <2>2, RowsBefore, RowsFrom
    <3>2. Spliced(rows, behind, behind - 1, <<lost>>) = w
      <4>1. (behind - 1) + 1 = behind
        BY <2>2
      <4>. QED
        BY <4>1 DEF Spliced
    <3> HIDE DEF a, b
    <3>3. /\ a \o <<lost>> \in Seq(Row) /\ Len(a \o <<lost>>) = behind
          /\ \A m \in 1..behind - 1 : (a \o <<lost>>)[m] = a[m]
      BY <2>1, <2>2, <3>1
    <3>4. CASE i < behind
      <4>1. i \in 1..behind - 1 /\ i \in DOMAIN w
        BY <1>2, <2>2, <3>1, <3>3, <3>4
      <4>2. w[i] = (a \o <<lost>>)[i]
        BY <2>2, <3>1, <3>3, <4>1
      <4>. QED
        BY <3>1, <3>2, <3>3, <4>1, <4>2
    <3>5. CASE i >= behind
      <4>1. i + 1 \in DOMAIN w /\ i + 1 - behind \in 1..Len(b)
        BY <1>2, <2>2, <3>1, <3>3, <3>5
      <4>2. w[i + 1] = b[i + 1 - behind]
        <5>1. Len(a \o <<lost>>) + (i + 1 - behind) = i + 1
          BY <1>2, <2>2, <3>3
        <5>2. (a \o <<lost>>) \o b = w /\ \A m \in 1..Len(b) : ((a \o <<lost>>) \o b)[Len(a \o <<lost>>) + m] = b[m]
          BY <3>1, <3>3, RowsBehind, Zenon
        <5>. QED
          BY <4>1, <5>1, <5>2, Zenon
      <4>3. b[i + 1 - behind] = rows[i]
        <5>1. behind + (i + 1 - behind) - 1 = i
          BY <1>2, <2>2
        <5>. QED
          BY <3>1, <4>1, <5>1
      <4>. QED
        BY <3>2, <4>1, <4>2, <4>3
    <3>. QED
      BY <1>2, <2>2, <3>4, <3>5
  <2>. QED
    BY <2>4, <2>7, <2>9, <2>10 DEF lost
<1>. QED
  BY <1>3, <1>4

(* So texts stay, no id is doubled, and fitting rows go on fitting.         *)
LEMMA UpsertedFacts ==
    ASSUME rows \in Seq(Row), DistinctIds(rows), NEW r \in Row, NEW t \in Seq(Words)
    PROVE  LET u == Upserted(r, t)
           IN  /\ u \in Seq(Row) /\ DistinctIds(u) /\ TextOf(u) = TextOf(rows)
               /\ \A i \in DOMAIN rows : \E j \in DOMAIN u :
                     u[j].id = rows[i].id /\ u[j].words = rows[i].words
               /\ \A n \in Nat : rows \in Seq(Before(n)) /\ r \in Before(n) => u \in Seq(Before(n))
               /\ rows \in Seq(Whole) /\ r \in Whole => u \in Seq(Whole)
               /\ \A L : rows \in Seq(Unnamed(L)) /\ NoSpeaker \notin L => u \in Seq(Unnamed(L))
               /\ \A H :
                     /\ rows \in Seq(FitBut(H)) /\ r.words # <<>> /\ t \in {r.words, <<>>}
                     /\ \E i \in DOMAIN rows : rows[i].id = r.id /\ rows[i].words = r.words
                     => u \in Seq(FitBut(H))
<1> DEFINE u == Upserted(r, t)
<1>1. ASSUME NEW i \in DOMAIN rows
      PROVE  /\ rows[i] \in Row /\ Answered(rows[i], t) \in Row
             /\ Answered(rows[i], t).id = rows[i].id
             /\ Answered(rows[i], t).speaker = rows[i].speaker
  <2>1. rows[i] \in Row
    OBVIOUS
  <2>. QED
    BY <2>1, AnsweredFacts
<1>2. Lost(r, t) \in Row /\ Lost(r, t).id = r.id /\ Lost(r, t).speaker = NoSpeaker
  <2> DEFINE q == [r EXCEPT !.words = <<>>, !.speaker = NoSpeaker]
  <2>1. q \in Row /\ q.id = r.id /\ q.speaker = NoSpeaker
    <3>1. <<>> \in Seq(Words)
      OBVIOUS
    <3>. QED
      BY <3>1 DEF Row
  <2>2. Lost(r, t) = Answered(q, t)
    BY DEF Lost
  <2> HIDE DEF q
  <2>. QED
    BY <2>1, <2>2, AnsweredFacts
<1>3. /\ u \in Seq(Row) /\ DistinctIds(u) /\ TextOf(u) = TextOf(rows)
      /\ \A i \in DOMAIN rows : \E j \in DOMAIN u :
            u[j].id = rows[i].id /\ u[j].words = rows[i].words
  BY <1>1, <1>2, UpsertedInto
<1>4. ASSUME NEW n \in Nat, rows \in Seq(Before(n)), r \in Before(n) PROVE u \in Seq(Before(n))
  <2>1. ASSUME NEW i \in DOMAIN rows PROVE Answered(rows[i], t) \in Before(n)
    <3>1. rows[i] \in Before(n)
      BY <1>4
    <3>. QED
      BY <1>1, <3>1 DEF Before
  <2>2. Lost(r, t) \in Before(n)
    BY <1>2, <1>4 DEF Before
  <2>. QED
    BY <1>4, <2>1, <2>2, NumberingKinds, UpsertedInto
<1>5. ASSUME rows \in Seq(Whole), r \in Whole PROVE u \in Seq(Whole)
  <2>1. ASSUME NEW i \in DOMAIN rows PROVE Answered(rows[i], t) \in Whole
    <3>1. rows[i] \in Whole
      BY <1>5
    <3>. QED
      BY <1>1, <3>1 DEF Whole, IsPart
  <2>2. Lost(r, t) \in Whole
    BY <1>2, <1>5 DEF Whole, IsPart
  <2>. QED
    BY <1>5, <2>1, <2>2, NumberingKinds, UpsertedInto
<1>6. ASSUME NEW L, rows \in Seq(Unnamed(L)), NoSpeaker \notin L PROVE u \in Seq(Unnamed(L))
  <2>1. ASSUME NEW i \in DOMAIN rows PROVE Answered(rows[i], t) \in Unnamed(L)
    <3>1. rows[i] \in Unnamed(L)
      BY <1>6
    <3>. QED
      BY <1>1, <3>1 DEF Unnamed
  <2>2. Lost(r, t) \in Unnamed(L)
    BY <1>2, <1>6 DEF Unnamed
  <2>. QED
    BY <1>6, <2>1, <2>2, NumberingKinds, UpsertedInto
<1>7. ASSUME NEW H, rows \in Seq(FitBut(H)), r.words # <<>>, t \in {r.words, <<>>},
             NEW i \in DOMAIN rows, rows[i].id = r.id, rows[i].words = r.words
      PROVE  u \in Seq(FitBut(H))
  <2>1. ASSUME NEW j \in DOMAIN rows, rows[j].id = r.id PROVE Answered(rows[j], t) \in FitBut(H)
    <3>1. j = i
      BY <1>7, <2>1 DEF DistinctIds
    <3>2. rows[i] \in Row
      BY <1>1
    <3>3. Answered(rows[i], t) \in Fit
      BY <1>6, <1>7, <3>2, AnsweredFacts
    <3>. QED
      BY <3>1, <3>3, NumberingKinds
  <2>2. FitBut(H) \in SUBSET Row
    BY NumberingKinds
  <2>3. \E j \in DOMAIN rows : rows[j].id = r.id
    BY <1>7
  <2>. QED
    BY <1>7, <2>1, <2>2, <2>3, UpsertedInto
<1> HIDE DEF u
<1>8. /\ \A n \in Nat : rows \in Seq(Before(n)) /\ r \in Before(n) => u \in Seq(Before(n))
      /\ rows \in Seq(Whole) /\ r \in Whole => u \in Seq(Whole)
      /\ \A L : rows \in Seq(Unnamed(L)) /\ NoSpeaker \notin L => u \in Seq(Unnamed(L))
  BY <1>4, <1>5, <1>6
<1>9. \A H : /\ rows \in Seq(FitBut(H)) /\ r.words # <<>> /\ t \in {r.words, <<>>}
             /\ \E i \in DOMAIN rows : rows[i].id = r.id /\ rows[i].words = r.words
             => u \in Seq(FitBut(H))
  BY <1>7
<1>. QED
  BY <1>3, <1>8, <1>9 DEF u

(* The words of two texts in a row.                                         *)
LEMMA RangeConcat ==
    ASSUME NEW u \in Seq(Words), NEW v \in Seq(Words)
    PROVE  Range(u \o v) = Range(u) \union Range(v)
<1>1. /\ DOMAIN u = 1..Len(u) /\ DOMAIN v = 1..Len(v) /\ Len(u) \in Nat /\ Len(v) \in Nat
      /\ DOMAIN (u \o v) = 1..Len(u) + Len(v)
      /\ \A i \in 1..Len(u) : (u \o v)[i] = u[i]
      /\ \A i \in 1..Len(v) : (u \o v)[Len(u) + i] = v[i]
  OBVIOUS
<1>2. ASSUME NEW x \in Range(u \o v) PROVE x \in Range(u) \union Range(v)
  <2>1. PICK i \in DOMAIN (u \o v) : x = (u \o v)[i]
    BY DEF Range
  <2>2. CASE i \in 1..Len(u)
    BY <1>1, <2>1, <2>2 DEF Range
  <2>3. CASE i \notin 1..Len(u)
    <3>1. i - Len(u) \in 1..Len(v) /\ Len(u) + (i - Len(u)) = i
      BY <1>1, <2>3
    <3>2. x = v[i - Len(u)]
      BY <1>1, <2>1, <3>1
    <3>. QED
      BY <1>1, <3>1, <3>2 DEF Range
  <2>. QED
    BY <2>2, <2>3
<1>3. ASSUME NEW x \in Range(u) \union Range(v) PROVE x \in Range(u \o v)
  <2>1. CASE x \in Range(u)
    <3>1. PICK i \in DOMAIN u : x = u[i]
      BY <2>1 DEF Range
    <3>2. i \in DOMAIN (u \o v) /\ (u \o v)[i] = x
      BY <1>1, <3>1
    <3>. QED
      BY <3>2 DEF Range
  <2>2. CASE x \in Range(v)
    <3>1. PICK i \in DOMAIN v : x = v[i]
      BY <2>2 DEF Range
    <3>2. Len(u) + i \in DOMAIN (u \o v) /\ (u \o v)[Len(u) + i] = x
      BY <1>1, <3>1
    <3>. QED
      BY <3>2 DEF Range
  <2>. QED
    BY <2>1, <2>2
<1>. QED
  BY <1>2, <1>3

(* A new text in one row: the words of the others are all still there.      *)
LEMMA ReplacedWords ==
    ASSUME NEW rs \in Seq(Row), NEW i \in DOMAIN rs, NEW q \in Row
    PROVE  /\ Range(TextOf(rs)) \ Range(rs[i].words) \in SUBSET Range(TextOf([rs EXCEPT ![i] = q]))
           /\ Range(q.words) \in SUBSET Range(TextOf([rs EXCEPT ![i] = q]))
<1> DEFINE front == TextOf(SubSeq(rs, 1, i - 1))
           back == TextOf(SubSeq(rs, i + 1, Len(rs)))
           qs == [rs EXCEPT ![i] = q]
<1>1. i \in 1..Len(rs) + 1 /\ i \in i - 1..Len(rs) /\ i \in 1..Len(rs) /\ rs[i] \in Row
  OBVIOUS
<1>2. front \in Seq(Words) /\ back \in Seq(Words) /\ q.words \in Seq(Words) /\ rs[i].words \in Seq(Words)
  <2>1. SubSeq(rs, 1, i - 1) \in Seq(Row) /\ SubSeq(rs, i + 1, Len(rs)) \in Seq(Row)
    OBVIOUS
  <2>. QED
    BY <1>1, <2>1, TextType, TextOne
<1>3. ASSUME NEW r \in Row
      PROVE  /\ Spliced(rs, i, i, <<r>>) = [rs EXCEPT ![i] = r]
             /\ TextOf(Spliced(rs, i, i, <<r>>)) = front \o (r.words \o back)
  <2>1. <<r>> \in Seq(Row)
    OBVIOUS
  <2>2. TextOf(Spliced(rs, i, i, <<r>>)) = front \o (r.words \o back)
    <3>1. TextOf(Spliced(rs, i, i, <<r>>)) = front \o (TextOf(<<r>>) \o back)
      BY <1>1, <2>1, SplicedText
    <3>2. TextOf(<<r>>) = r.words
      BY TextOne
    <3>. QED
      BY <3>1, <3>2
  <2>3. Spliced(rs, i, i, <<r>>) = [rs EXCEPT ![i] = r]
    <3> DEFINE a == SubSeq(rs, 1, i - 1)
               b == SubSeq(rs, i + 1, Len(rs))
               es == [rs EXCEPT ![i] = r]
    <3>1. /\ a \in Seq(Row) /\ Len(a) = i - 1 /\ \A k \in 1..i - 1 : a[k] = rs[k]
          /\ b \in Seq(Row) /\ Len(b) = Len(rs) - i /\ \A k \in 1..Len(rs) - i : b[k] = rs[i + k]
      OBVIOUS
    <3>2. /\ es \in Seq(Row) /\ Len(es) = Len(rs) /\ es[i] = r
          /\ \A k \in 1..Len(rs) : k # i => es[k] = rs[k]
      OBVIOUS
    <3> HIDE DEF a, b, es
    <3>3. /\ a \o <<r>> \in Seq(Row) /\ Len(a \o <<r>>) = i /\ (a \o <<r>>)[i] = r
          /\ \A k \in 1..i - 1 : (a \o <<r>>)[k] = a[k]
      BY <1>1, <3>1
    <3>4. /\ Len(es) = Len(a \o <<r>>) + Len(b)
          /\ \A k \in 1..Len(a \o <<r>>) : es[k] = (a \o <<r>>)[k]
          /\ \A k \in 1..Len(b) : es[Len(a \o <<r>>) + k] = b[k]
      <4>1. i \in Nat /\ Len(rs) \in Nat /\ i <= Len(rs) /\ i >= 1
        BY <1>1
      <4>2. Len(es) = Len(a \o <<r>>) + Len(b)
        <5>1. Len(es) = Len(rs) /\ Len(a \o <<r>>) = i /\ Len(b) = Len(rs) - i
          BY <3>1, <3>2, <3>3
        <5>2. Len(rs) = i + (Len(rs) - i)
          BY <4>1
        <5>. QED
          BY <5>1, <5>2
      <4>3. ASSUME NEW k \in 1..i PROVE es[k] = (a \o <<r>>)[k]
        <5>1. CASE k = i
          BY <3>2, <3>3, <5>1
        <5>2. CASE k # i
          <6>1. k \in 1..i - 1 /\ k \in 1..Len(rs)
            BY <4>1, <5>2
          <6>. QED
            BY <3>1, <3>2, <3>3, <5>2, <6>1
        <5>. QED
          BY <5>1, <5>2
      <4>4. ASSUME NEW k \in 1..Len(rs) - i PROVE es[i + k] = b[k]
        <5>1. i + k \in 1..Len(rs) /\ i + k # i
          BY <4>1
        <5>. QED
          BY <3>1, <3>2, <5>1
      <4>. QED
        BY <3>1, <3>3, <4>2, <4>3, <4>4
    <3>5. es = (a \o <<r>>) \o b
      BY <3>1, <3>2, <3>3, <3>4, IsConcat, Zenon
    <3>. QED
      BY <3>5 DEF Spliced, a, b, es
  <2>. QED
    BY <2>2, <2>3
<1>4. TextOf(qs) = front \o (q.words \o back)
  BY <1>3
<1>5. TextOf(rs) = front \o (rs[i].words \o back)
  <2>1. [rs EXCEPT ![i] = rs[i]] = rs
    OBVIOUS
  <2>. QED
    BY <1>1, <1>3, <2>1
<1> HIDE DEF front, back, qs
<1>6. ASSUME NEW w \in Seq(Words)
      PROVE  Range(front \o (w \o back)) = Range(front) \union Range(w) \union Range(back)
  <2>1. w \o back \in Seq(Words)
    BY <1>2
  <2>2. Range(front \o (w \o back)) = Range(front) \union Range(w \o back)
    BY <1>2, <2>1, RangeConcat
  <2>3. Range(w \o back) = Range(w) \union Range(back)
    BY <1>2, RangeConcat
  <2>. QED
    BY <2>2, <2>3
<1>7. Range(TextOf(rs)) = Range(front) \union Range(rs[i].words) \union Range(back)
  BY <1>2, <1>5, <1>6
<1>8. Range(TextOf(qs)) = Range(front) \union Range(q.words) \union Range(back)
  BY <1>2, <1>4, <1>6
<1>. QED
  BY <1>7, <1>8 DEF qs

-----------------------------------------------------------------------------
(* The inductive invariant: of the rows,                                    *)
RowsAreSound ==
    /\ rows \in Seq(Before(requests + 1))
    /\ diarizations = 0 => rows \in Seq(Whole)
    /\ "words" \notin mixed => rows \in Seq(FitBut(byHand))
    /\ diarizations <= 1 => TextOf(rows) \in texts /\ TypedStays
    /\ "speaker" \notin mixed => rows \in Seq(Unnamed(renamed))

(* and of what an actor has read.                                           *)
IdsAreOld(x) ==
    /\ x.rows \in Seq(Before(x.n)) /\ DistinctIds(x.rows) /\ x.n <= requests
    /\ x.todo \in Seq(Before(requests + 1))
IsUndivided(x) ==
    /\ diarizations = 0 => x.rows \in Seq(Whole) /\ x.todo \in Seq(Whole)
    /\ x.op = "diarize" => diarizations > 0
    /\ x.op = "diarize" /\ diarizations <= 1 => x.rows \in Seq(Whole)
ReadFit(x) ==
    /\ x.todo \in Seq(Said)
    /\ "words" \notin mixed => x.rows \in Seq(FitBut(byHand))
StillThere(x) ==
    "words" \notin x.missed =>
        /\ x.pc = "work" => TextOf(x.rows) = TextOf(rows)
        /\ \A k \in DOMAIN x.todo : \E i \in DOMAIN rows :
              rows[i].id = x.todo[k].id /\ rows[i].words = x.todo[k].words
ReadGenuine(x) == x.pc = "work" /\ diarizations <= 1 => TextOf(x.rows) \in texts
ReadNamed(x) ==
    "speaker" \notin mixed /\ "speaker" \notin x.missed => x.rows \in Seq(Unnamed(renamed))
Sound(x) ==
    /\ x.pc = "idle" => x = Idle
    /\ IdsAreOld(x)
    /\ IsUndivided(x)
    /\ ReadFit(x)
    /\ StillThere(x)
    /\ ReadGenuine(x)
    /\ ReadNamed(x)

IInv ==
    /\ TypeOK
    /\ RowsAreSound
    /\ \A a \in Actors : Sound(actor[a])

ActorType == [op : Ops \union {"none"}, pc : {"idle", "work", "translate"},
              n : 0..MaxRequests, rows : Seq(Row), todo : Seq(Row),
              missed : SUBSET {"words", "speaker"}]

(* A step of somebody else: b may only come to miss more, all of what if it  *)
(* has read.                                                                 *)
Follows(b, what) ==
    /\ actor'[b] \in ActorType
    /\ actor'[b].op = actor[b].op /\ actor'[b].pc = actor[b].pc /\ actor'[b].n = actor[b].n
    /\ actor'[b].rows = actor[b].rows /\ actor'[b].todo = actor[b].todo
    /\ actor[b].missed \subseteq actor'[b].missed
    /\ IF actor[b].pc = "idle" THEN actor'[b] = actor[b] ELSE what \subseteq actor'[b].missed

(* Who has read nothing is sound.                                           *)
LEMMA IdleIsSound ==
    ASSUME requests \in Nat, diarizations \in Nat
    PROVE  Sound(Idle)
<1>1. \A T : <<>> \in Seq(T)
  OBVIOUS
<1>2. /\ Idle.op = "none" /\ Idle.pc = "idle" /\ Idle.n = 0 /\ Idle.rows = <<>> /\ Idle.todo = <<>>
      /\ Idle.missed = {}
  BY DEF Idle
<1>3. IdsAreOld(Idle)
  BY <1>1, <1>2 DEF IdsAreOld, DistinctIds
<1>4. IsUndivided(Idle) /\ ReadFit(Idle) /\ StillThere(Idle) /\ ReadGenuine(Idle) /\ ReadNamed(Idle)
  BY <1>1, <1>2 DEF IsUndivided, ReadFit, StillThere, ReadGenuine, ReadNamed
<1>. QED
  BY <1>3, <1>4 DEF Sound

(* Missing something is all that Miss changes.                              *)
LEMMA MissType ==
    ASSUME actor \in [Actors -> ActorType], NEW by, NEW what \in SUBSET {"words", "speaker"}
    PROVE  Miss(by, what) \in [Actors -> ActorType]
<1>1. ASSUME NEW c \in Actors
      PROVE  (IF c = by \/ ~Reading(c) THEN actor[c]
              ELSE [actor[c] EXCEPT !.missed = @ \union what]) \in ActorType
  <2>1. actor[c] \in ActorType
    OBVIOUS
  <2>2. actor[c].missed \union what \in SUBSET {"words", "speaker"}
    BY <2>1 DEF ActorType
  <2>3. [actor[c] EXCEPT !.missed = @ \union what] \in ActorType
    BY <2>1, <2>2 DEF ActorType
  <2>. QED
    BY <2>1, <2>3
<1>. QED
  BY <1>1 DEF Miss

(* In the words of Follows.                                                 *)
LEMMA MissFollows ==
    ASSUME actor \in [Actors -> ActorType], NEW by, NEW what \in SUBSET {"words", "speaker"},
           NEW b \in Actors
    PROVE  LET m == Miss(by, what)[b]
           IN  /\ Miss(by, what) \in [Actors -> ActorType] /\ m \in ActorType
               /\ m.op = actor[b].op /\ m.pc = actor[b].pc /\ m.n = actor[b].n
               /\ m.rows = actor[b].rows /\ m.todo = actor[b].todo
               /\ actor[b].missed \subseteq m.missed
               /\ actor[b].pc = "idle" => m = actor[b]
               /\ actor[b].pc # "idle" /\ b # by => what \subseteq m.missed
<1>1. ASSUME NEW c \in Actors
      PROVE  LET m == Miss(by, what)[c]
             IN  /\ m \in ActorType
                 /\ m.op = actor[c].op /\ m.pc = actor[c].pc /\ m.n = actor[c].n
                 /\ m.rows = actor[c].rows /\ m.todo = actor[c].todo
                 /\ actor[c].missed \subseteq m.missed
                 /\ actor[c].pc = "idle" => m = actor[c]
                 /\ actor[c].pc # "idle" /\ c # by => what \subseteq m.missed
  <2>1. actor[c] \in ActorType
    OBVIOUS
  <2>2. Miss(by, what)[c] = IF c = by \/ ~Reading(c) THEN actor[c]
                            ELSE [actor[c] EXCEPT !.missed = @ \union what]
    BY DEF Miss
  <2>3. CASE c = by \/ ~Reading(c)
    BY <2>1, <2>2, <2>3 DEF Reading
  <2>4. CASE ~(c = by \/ ~Reading(c))
    <3> DEFINE x == actor[c]
               y == [x EXCEPT !.missed = @ \union what]
    <3>1. x.missed \in SUBSET {"words", "speaker"} /\ x.pc # "idle" /\ c # by
      BY <2>1, <2>4 DEF Reading, ActorType
    <3>2. /\ y.op = x.op /\ y.pc = x.pc /\ y.n = x.n /\ y.rows = x.rows /\ y.todo = x.todo
          /\ y.missed = x.missed \union what
      BY <2>1 DEF ActorType
    <3>3. x.missed \union what \in SUBSET {"words", "speaker"}
      BY <3>1
    <3>4. y \in ActorType
      BY <2>1, <3>3 DEF ActorType
    <3>5. Miss(by, what)[c] = y
      BY <2>2, <2>4
    <3> HIDE DEF y
    <3>. QED
      BY <3>1, <3>2, <3>4, <3>5
  <2>. QED
    BY <2>3, <2>4
<1>2. Miss(by, what) \in [Actors -> ActorType]
  BY MissType
<1>. QED
  BY <1>1, <1>2

(* Whoever is not the actor of a step stays sound: it misses the change, or  *)
(* the change left what it has read as it was.                               *)
LEMMA OthersStaySound ==
    ASSUME IInv, NEW b \in Actors, NEW what \in SUBSET {"words", "speaker"}, Follows(b, what),
           requests' \in Nat, requests <= requests', diarizations' \in Nat, diarizations <= diarizations',
           mixed \subseteq mixed', texts \subseteq texts', byHand \subseteq byHand',
           \/ "words" \in what
           \/ /\ TextOf(rows') = TextOf(rows)
              /\ \A i \in DOMAIN rows : \E j \in DOMAIN rows' :
                    rows'[j].id = rows[i].id /\ rows'[j].words = rows[i].words,
           "speaker" \in what \/ renamed' \subseteq renamed
    PROVE  Sound(actor[b])'
<1> DEFINE x == actor[b]
           y == actor'[b]
<1>1. /\ y.op = x.op /\ y.pc = x.pc /\ y.n = x.n /\ y.rows = x.rows /\ y.todo = x.todo
      /\ x.missed \subseteq y.missed
      /\ x.pc = "idle" => y = x
      /\ x.pc # "idle" => what \subseteq y.missed
  BY DEF Follows
<1>2. Sound(x) /\ requests \in Nat /\ diarizations \in Nat /\ x.rows \in Seq(Row) /\ x.todo \in Seq(Row)
  BY EditsAssumption DEF IInv, TypeOK
<1> HIDE DEF x, y
<1>3. x.pc = "idle" => x = Idle
  BY <1>2 DEF Sound
<1>4. (IdsAreOld(actor[b]))'
  <2>1. \A r \in Before(requests + 1) : r \in Before(requests' + 1)
    BY <1>2 DEF Before, Row, Id
  <2>2. Seq(Before(requests + 1)) \subseteq Seq(Before(requests' + 1))
    BY <2>1
  <2>3. y.n <= requests'
    <3>1. x.n <= requests /\ x.n \in Nat
      BY <1>2, EditsAssumption DEF Sound, IdsAreOld, IInv, TypeOK, x
    <3>. QED
      BY <1>1, <1>2, <3>1
  <2>4. /\ y.rows \in Seq(Before(y.n)) /\ DistinctIds(y.rows)
        /\ y.todo \in Seq(Before(requests' + 1))
    BY <1>1, <1>2, <2>2 DEF Sound, IdsAreOld
  <2>. QED
    BY <2>3, <2>4 DEF IdsAreOld, y, DistinctIds
<1>5. (IsUndivided(actor[b]))'
  <2>1. /\ diarizations = 0 => x.rows \in Seq(Whole) /\ x.todo \in Seq(Whole)
        /\ x.op = "diarize" => diarizations > 0
        /\ x.op = "diarize" /\ diarizations <= 1 => x.rows \in Seq(Whole)
    BY <1>2 DEF Sound, IsUndivided
  <2>2. /\ diarizations' = 0 => diarizations = 0
        /\ diarizations > 0 => diarizations' > 0
        /\ diarizations' <= 1 => diarizations <= 1
    BY <1>2
  <2>3. /\ diarizations' = 0 => y.rows \in Seq(Whole) /\ y.todo \in Seq(Whole)
        /\ y.op = "diarize" => diarizations' > 0
        /\ y.op = "diarize" /\ diarizations' <= 1 => y.rows \in Seq(Whole)
    BY <1>1, <2>1, <2>2
  <2>. QED
    BY <2>3 DEF IsUndivided, y
<1>6. (ReadFit(actor[b]))'
  <2>1. \A r \in FitBut(byHand) : r \in FitBut(byHand')
    BY DEF FitBut
  <2>2. Seq(FitBut(byHand)) \subseteq Seq(FitBut(byHand'))
    BY <2>1
  <2>3. /\ y.todo \in Seq(Said)
        /\ "words" \notin mixed' => y.rows \in Seq(FitBut(byHand'))
    BY <1>1, <1>2, <2>2 DEF Sound, ReadFit
  <2>. QED
    BY <2>3 DEF ReadFit, FitBut, y
<1>7. (StillThere(actor[b]))'
  <2> SUFFICES ASSUME "words" \notin y.missed
               PROVE  /\ y.pc = "work" => TextOf(y.rows) = TextOf(rows')
                      /\ \A k \in DOMAIN y.todo : \E i \in DOMAIN rows' :
                            rows'[i].id = y.todo[k].id /\ rows'[i].words = y.todo[k].words
    BY DEF StillThere, TextOf, y
  <2>1. CASE x.pc = "idle"
    <3>1. y.pc = "idle" /\ y.todo = <<>>
      BY <1>1, <1>3, <2>1 DEF Idle
    <3>. QED
      BY <3>1
  <2>2. CASE x.pc # "idle"
    <3>1. "words" \notin x.missed /\ "words" \notin what
      BY <1>1, <2>2
    <3>2. /\ x.pc = "work" => TextOf(x.rows) = TextOf(rows)
          /\ \A k \in DOMAIN x.todo : \E i \in DOMAIN rows :
                rows[i].id = x.todo[k].id /\ rows[i].words = x.todo[k].words
      BY <1>2, <3>1 DEF Sound, StillThere
    <3>3. TextOf(rows') = TextOf(rows)
      BY <3>1
    <3>4. ASSUME NEW k \in DOMAIN x.todo
          PROVE  \E i \in DOMAIN rows' : rows'[i].id = x.todo[k].id /\ rows'[i].words = x.todo[k].words
      <4>1. PICK i \in DOMAIN rows : rows[i].id = x.todo[k].id /\ rows[i].words = x.todo[k].words
        BY <3>2
      <4>2. PICK j \in DOMAIN rows' : rows'[j].id = rows[i].id /\ rows'[j].words = rows[i].words
        BY <3>1
      <4>. QED
        BY <4>1, <4>2
    <3>. QED
      BY <1>1, <3>2, <3>3, <3>4
  <2>. QED
    BY <2>1, <2>2
<1>8. (ReadGenuine(actor[b]))'
  <2>1. diarizations' <= 1 => diarizations <= 1
    BY <1>2
  <2>2. y.pc = "work" /\ diarizations' <= 1 => TextOf(y.rows) \in texts'
    BY <1>1, <1>2, <2>1 DEF Sound, ReadGenuine
  <2>. QED
    BY <2>2 DEF ReadGenuine, TextOf, y
<1>9. (ReadNamed(actor[b]))'
  <2> SUFFICES ASSUME "speaker" \notin mixed', "speaker" \notin y.missed
               PROVE  y.rows \in Seq(Unnamed(renamed'))
    BY DEF ReadNamed, Unnamed, y
  <2>1. CASE x.pc = "idle"
    <3>1. y.rows = <<>>
      BY <1>1, <1>3, <2>1 DEF Idle
    <3>. QED
      BY <3>1
  <2>2. CASE x.pc # "idle"
    <3>1. "speaker" \notin mixed /\ "speaker" \notin x.missed /\ renamed' \subseteq renamed
      BY <1>1, <2>2
    <3>2. x.rows \in Seq(Unnamed(renamed))
      BY <1>2, <3>1 DEF Sound, ReadNamed
    <3>3. \A r \in Unnamed(renamed) : r \in Unnamed(renamed')
      BY <3>1 DEF Unnamed
    <3>. QED
      BY <1>1, <3>2, <3>3
  <2>. QED
    BY <2>1, <2>2
<1>10. (actor[b].pc = "idle" => actor[b] = Idle)'
  <2>1. y.pc = "idle" => y = Idle
    BY <1>1, <1>3
  <2>. QED
    BY <2>1 DEF y, Idle
<1>. QED
  BY <1>4, <1>5, <1>6, <1>7, <1>8, <1>9, <1>10 DEF Sound

(* What the proofs use of types.                                            *)
LEMMA Types ==
    ASSUME IInv
    PROVE  /\ rows \in Seq(Row) /\ DistinctIds(rows) /\ DOMAIN rows = 1..Len(rows)
           /\ actor \in [Actors -> ActorType]
           /\ requests \in Nat /\ requests <= MaxRequests /\ diarizations \in Nat
           /\ diarizations <= MaxDiarizations
           /\ MaxRequests \in Nat /\ MaxDiarizations \in Nat
           /\ edits \in Nat /\ byHand \subseteq Id
           /\ renamed \subseteq Labels /\ typed \subseteq Edits /\ texts \subseteq Seq(Words)
           /\ mixed \subseteq {"words", "speaker"}
BY EditsAssumption DEF IInv, TypeOK, ActorType

(* And what they have to show.                                              *)
LEMMA TypesStay ==
    ASSUME rows' \in Seq(Row), DistinctIds(rows'), actor' \in [Actors -> ActorType],
           requests' \in 0..MaxRequests, diarizations' \in 0..MaxDiarizations, edits' \in 0..MaxEdits,
           texts' \subseteq Seq(Words), typed' \subseteq Edits, renamed' \subseteq Labels,
           byHand' \subseteq Id, mixed' \subseteq {"words", "speaker"}
    PROVE  TypeOK'
BY DEF TypeOK, ActorType, DistinctIds

(* A record of an actor.                                                    *)
LEMMA IsActor ==
    ASSUME MaxRequests \in Nat,
           NEW op \in Ops \union {"none"}, NEW pc \in {"idle", "work", "translate"},
           NEW n \in 0..MaxRequests, NEW rs \in Seq(Row), NEW todo \in Seq(Row),
           NEW missed \in SUBSET {"words", "speaker"}
    PROVE  [op |-> op, pc |-> pc, n |-> n, rows |-> rs, todo |-> todo, missed |-> missed] \in ActorType
BY DEF ActorType

(* Who stops is sound.                                                      *)
LEMMA IdleStaysSound ==
    ASSUME requests' \in Nat, diarizations' \in Nat
    PROVE  Sound(Idle)'
<1>1. \A T : <<>> \in Seq(T)
  OBVIOUS
<1>2. /\ Idle.op = "none" /\ Idle.pc = "idle" /\ Idle.n = 0 /\ Idle.rows = <<>> /\ Idle.todo = <<>>
      /\ Idle.missed = {}
  BY DEF Idle
<1>3. IdsAreOld(Idle)'
  BY <1>1, <1>2 DEF IdsAreOld, DistinctIds
<1>4. IsUndivided(Idle)' /\ ReadFit(Idle)' /\ StillThere(Idle)' /\ ReadGenuine(Idle)' /\ ReadNamed(Idle)'
  BY <1>1, <1>2 DEF IsUndivided, ReadFit, StillThere, ReadGenuine, ReadNamed
<1>. QED
  BY <1>3, <1>4 DEF Sound

(* And an actor.                                                            *)
LEMMA IdleType == IInv => Idle \in ActorType
<1>1. \A T : <<>> \in Seq(T)
  OBVIOUS
<1>. QED
  BY <1>1, Types DEF Idle, ActorType

(* The job ends, or the request is refused.                                  *)
LEMMA RestKeeps ==
    ASSUME IInv, NEW a \in Actors, actor' = [actor EXCEPT ![a] = Idle],
           UNCHANGED <<rows, requests, diarizations, edits, history>>
    PROVE  IInv'
<1>1. /\ rows' = rows /\ requests' = requests /\ diarizations' = diarizations /\ edits' = edits
      /\ texts' = texts /\ typed' = typed /\ renamed' = renamed /\ byHand' = byHand /\ mixed' = mixed
  BY DEF history
<1>2. actor' \in [Actors -> ActorType] /\ actor'[a] = Idle
      /\ \A b \in Actors : b # a => actor'[b] = actor[b]
  BY Types, IdleType
<1>3. TypeOK'
  BY <1>1, <1>2 DEF IInv, TypeOK, ActorType, DistinctIds
<1>4. RowsAreSound'
  BY <1>1 DEF IInv, RowsAreSound, TypedStays
<1>5. ASSUME NEW b \in Actors PROVE Sound(actor[b])'
  <2>1. CASE b = a
    <3>1. Sound(Idle)'
      BY <1>1, Types, IdleStaysSound
    <3>. QED
      BY <1>2, <2>1, <3>1 DEF Sound, Idle, IdsAreOld, IsUndivided, ReadFit, StillThere, ReadGenuine, ReadNamed
  <2>2. CASE b # a
    <3>1. Follows(b, {})
      BY <1>2, <2>2 DEF Follows
    <3>2. \A i \in DOMAIN rows : \E j \in DOMAIN rows' :
              rows'[j].id = rows[i].id /\ rows'[j].words = rows[i].words
      BY <1>1
    <3>3. requests \in Nat /\ diarizations \in Nat /\ requests <= requests' /\ diarizations <= diarizations'
      BY <1>1, Types
    <3>. QED
      BY <1>1, <3>1, <3>2, <3>3, OthersStaySound
  <2>. QED
    BY <2>1, <2>2
<1>. QED
  BY <1>3, <1>4, <1>5 DEF IInv

(* A translator takes some of the rows it read.                             *)
LEMMA TranslatorFacts ==
    ASSUME NEW op \in Jobs, NEW rs \in Seq(Row), NEW all \in BOOLEAN
    PROVE  LET y == Translator(op, rs, all)
           IN  /\ y.op = op /\ y.pc = "translate" /\ y.n = 0 /\ y.rows = <<>> /\ y.missed = {}
               /\ y.todo = Candidates(rs, all) /\ y.todo \in Seq(Row)
               /\ MaxRequests \in Nat => y \in ActorType
               /\ y.todo \in Seq(Said)
               /\ \A T : rs \in Seq(T) => y.todo \in Seq(T)
               /\ \A k \in DOMAIN y.todo : \E i \in DOMAIN rs : y.todo[k] = rs[i]
<1> DEFINE y == Translator(op, rs, all)
           cc == Candidates(rs, all)
           These == {rs[i] : i \in DOMAIN rs}
<1>0. cc \in Seq(Said)
  BY CandidatesFacts DEF Said
<1>1. ASSUME NEW T, rs \in Seq(T) PROVE cc \in Seq(T)
  <2> DEFINE S == {r \in T : r.words # <<>>}
  <2>1. cc \in Seq(S) /\ \A r \in S : r \in T
    BY <1>1, CandidatesFacts
  <2> HIDE DEF S, cc
  <2>. QED
    BY <2>1
<1>2. cc \in Seq(These)
  <2>1. rs \in Seq(These)
    <3>1. \A k \in 1..Len(rs) : rs[k] \in These
      OBVIOUS
    <3>. QED
      BY <3>1, SeqOfThese, Zenon
  <2> HIDE DEF These, cc
  <2>. QED
    BY <1>1, <2>1
<1>3. cc \in Seq(Row)
  BY <1>1
<1> HIDE DEF cc
<1>4. \A k \in DOMAIN cc : \E i \in DOMAIN rs : cc[k] = rs[i]
  <2> TAKE k \in DOMAIN cc
  <2>1. cc[k] \in These
    <3> HIDE DEF These
    <3>. QED
      BY <1>2
  <2>. QED
    BY <2>1
<1>5. y = [op |-> op, pc |-> "translate", n |-> 0, rows |-> <<>>, todo |-> cc, missed |-> {}]
  BY DEF Translator, cc
<1>6. /\ y.op = op /\ y.pc = "translate" /\ y.n = 0 /\ y.rows = <<>> /\ y.missed = {} /\ y.todo = cc
  BY <1>5
<1>7. MaxRequests \in Nat => y \in ActorType
  <2>1. <<>> \in Seq(Row)
    OBVIOUS
  <2>. QED
    <3>2. MaxRequests \in Nat => 0 \in 0..MaxRequests
      OBVIOUS
    <3>. QED
      BY <1>3, <1>5, <2>1, <3>2, IsActor DEF Ops
<1> HIDE DEF y
<1>. QED
  BY <1>0, <1>1, <1>3, <1>4, <1>6, <1>7 DEF y, cc

(* A translator that has just read the rows is sound.                       *)
LEMMA TranslatorStaysSound ==
    ASSUME NEW a \in Actors, NEW op \in Jobs, NEW all \in BOOLEAN,
           actor'[a] = Translator(op, rows', all), rows' \in Seq(Row), RowsAreSound',
           requests' \in Nat, diarizations' \in Nat, op = "diarize" => diarizations' > 0
    PROVE  Sound(actor[a])'
<1> DEFINE y == actor'[a]
<1>1. /\ y.op = op /\ y.pc = "translate" /\ y.n = 0 /\ y.rows = <<>> /\ y.missed = {}
      /\ y.todo \in Seq(Said)
      /\ \A T : rows' \in Seq(T) => y.todo \in Seq(T)
      /\ \A k \in DOMAIN y.todo : \E i \in DOMAIN rows' : y.todo[k] = rows'[i]
  BY TranslatorFacts
<1>2. \A T : <<>> \in Seq(T)
  OBVIOUS
<1>3. /\ rows' \in Seq(Before(requests' + 1))
      /\ diarizations' = 0 => rows' \in Seq(Whole)
  BY DEF RowsAreSound
<1> HIDE DEF y
<1>4. IdsAreOld(actor[a])'
  <2>1. y.rows \in Seq(Before(y.n)) /\ y.n <= requests' /\ y.todo \in Seq(Before(requests' + 1))
    BY <1>1, <1>2, <1>3
  <2>2. DistinctIds(y.rows)
    BY <1>1 DEF DistinctIds
  <2>. QED
    BY <2>1, <2>2 DEF IdsAreOld, y, DistinctIds
<1>5. IsUndivided(actor[a])'
  <2>1. /\ diarizations' = 0 => y.rows \in Seq(Whole) /\ y.todo \in Seq(Whole)
        /\ y.op = "diarize" => diarizations' > 0
        /\ y.rows \in Seq(Whole)
    BY <1>1, <1>2, <1>3
  <2>. QED
    BY <2>1 DEF IsUndivided, y
<1>6. ReadFit(actor[a])'
  <2>1. y.todo \in Seq(Said) /\ y.rows \in Seq(FitBut(byHand'))
    BY <1>1, <1>2
  <2>. QED
    BY <2>1 DEF ReadFit, FitBut, y
<1>7. StillThere(actor[a])'
  <2>1. /\ y.pc # "work"
        /\ \A k \in DOMAIN y.todo : \E i \in DOMAIN rows' :
              rows'[i].id = y.todo[k].id /\ rows'[i].words = y.todo[k].words
    BY <1>1
  <2>. QED
    BY <2>1 DEF StillThere, y
<1>8. ReadGenuine(actor[a])' /\ ReadNamed(actor[a])' /\ (actor[a].pc = "idle" => actor[a] = Idle)'
  <2>1. y.pc # "work" /\ y.pc # "idle" /\ y.rows \in Seq(Unnamed(renamed'))
    BY <1>1, <1>2
  <2>. QED
    BY <2>1 DEF ReadGenuine, ReadNamed, y
<1>. QED
  BY <1>4, <1>5, <1>6, <1>7, <1>8 DEF Sound

-----------------------------------------------------------------------------
(* A request reads the session.                                              *)
LEMMA ReadKeeps ==
    ASSUME IInv, NEW a \in Actors, NEW op \in Ops, Read(a, op)
    PROVE  IInv'
<1>1. /\ rows' = rows /\ edits' = edits
      /\ texts' = texts /\ typed' = typed /\ renamed' = renamed /\ byHand' = byHand /\ mixed' = mixed
      /\ requests' = requests + 1 /\ requests + edits < MaxRequests
      /\ actor[a].pc = "idle"
      /\ op = "diarize" => diarizations < MaxDiarizations
      /\ diarizations' = diarizations + IF op = "diarize" THEN 1 ELSE 0
  BY DEF Read, MoreCalls, history
<1>2. /\ requests' \in Nat /\ requests' <= MaxRequests /\ requests <= requests'
      /\ diarizations' \in Nat /\ diarizations' <= MaxDiarizations /\ diarizations <= diarizations'
      /\ requests \in Nat /\ diarizations \in Nat /\ MaxRequests \in Nat /\ MaxDiarizations \in Nat
  BY <1>1, Types
<1>3. rows \in Seq(Row) /\ DistinctIds(rows) /\ actor \in [Actors -> ActorType]
  BY Types
<1>4. RowsAreSound'
  <2>1. Seq(Before(requests + 1)) \subseteq Seq(Before(requests' + 1))
    <3>1. \A r \in Before(requests + 1) : r \in Before(requests' + 1)
      BY <1>1, <1>2 DEF Before, Row, Id
    <3>. QED
      BY <3>1
  <2>2. /\ rows' \in Seq(Before(requests' + 1))
        /\ diarizations' = 0 => rows' \in Seq(Whole)
        /\ "words" \notin mixed' => rows' \in Seq(FitBut(byHand'))
        /\ "speaker" \notin mixed' => rows' \in Seq(Unnamed(renamed'))
    BY <1>1, <1>2, <2>1 DEF IInv, RowsAreSound
  <2>3. diarizations' <= 1 => TextOf(rows) \in texts /\ TypedStays
    BY <1>2 DEF IInv, RowsAreSound
  <2>. QED
    BY <1>1, <2>2, <2>3 DEF RowsAreSound, TypedStays
<1> DEFINE y == actor'[a]
<1>5. actor' \in [Actors -> ActorType] /\ Sound(actor[a])'
  <2>1. CASE op \in {"translate", "retranslate"}
    <3> DEFINE all == op = "retranslate"
    <3>1. actor' = [actor EXCEPT ![a] = Translator(op, rows, all)]
      BY <2>1 DEF Read
    <3>2. op \in Jobs /\ all \in BOOLEAN /\ op # "diarize"
      BY <2>1 DEF Jobs
    <3> HIDE DEF all
    <3>3. Translator(op, rows, all) \in ActorType
      BY <1>2, <1>3, <3>2, TranslatorFacts
    <3>4. actor' \in [Actors -> ActorType] /\ actor'[a] = Translator(op, rows', all)
      BY <1>1, <1>3, <3>1, <3>3
    <3>. QED
      BY <1>1, <1>2, <1>3, <1>4, <3>2, <3>4, TranslatorStaysSound
  <2>2. CASE op \notin {"translate", "retranslate"}
    <3> DEFINE z == Reader(op, requests')
    <3>1. actor' = [actor EXCEPT ![a] = z]
      BY <2>2 DEF Read
    <3>2. /\ z.op = op /\ z.pc = "work" /\ z.rows = rows /\ z.n = requests' /\ z.todo = <<>>
          /\ z.missed = {}
      BY DEF Reader
    <3>3. z \in ActorType
      <4>1. <<>> \in Seq(Row)
        OBVIOUS
      <4>. QED
        <5>2. requests' \in 0..MaxRequests
          BY <1>2
        <5>. QED
          BY <1>2, <1>3, <4>1, <5>2, IsActor DEF Reader
    <3> HIDE DEF z
    <3>4. actor' \in [Actors -> ActorType] /\ y = z
      BY <1>3, <3>1, <3>3
    <3>5. \A T : <<>> \in Seq(T)
      OBVIOUS
    <3> HIDE DEF y
    <3>6. IdsAreOld(actor[a])'
      <4>1. y.rows \in Seq(Before(y.n)) /\ DistinctIds(y.rows) /\ y.n <= requests'
            /\ y.todo \in Seq(Before(requests' + 1))
        <5>1. rows \in Seq(Before(requests + 1))
          BY DEF IInv, RowsAreSound
        <5>2. y.rows \in Seq(Before(y.n))
          BY <1>1, <3>2, <3>4, <5>1
        <5>3. /\ y.rows = rows /\ y.n = requests' /\ y.todo = <<>>
              /\ <<>> \in Seq(Before(requests' + 1))
          BY <3>2, <3>4, <3>5
        <5>4. DistinctIds(y.rows) /\ y.n <= requests' /\ y.todo \in Seq(Before(requests' + 1))
          BY <1>2, <1>3, <5>3
        <5>. QED
          BY <5>2, <5>4
      <4>. QED
        BY <4>1 DEF IdsAreOld, y, DistinctIds
    <3>7. IsUndivided(actor[a])'
      <4>1. diarizations = 0 => rows \in Seq(Whole)
        BY DEF IInv, RowsAreSound
      <4>2. /\ diarizations' = 0 => diarizations = 0
            /\ op = "diarize" => diarizations' > 0
            /\ op = "diarize" /\ diarizations' <= 1 => diarizations = 0
        BY <1>1, <1>2
      <4>3. /\ diarizations' = 0 => y.rows \in Seq(Whole) /\ y.todo \in Seq(Whole)
            /\ y.op = "diarize" => diarizations' > 0
            /\ y.op = "diarize" /\ diarizations' <= 1 => y.rows \in Seq(Whole)
        BY <3>2, <3>4, <3>5, <4>1, <4>2
      <4>. QED
        BY <4>3 DEF IsUndivided, y
    <3>8. ReadFit(actor[a])'
      <4>1. /\ y.todo \in Seq(Said)
            /\ "words" \notin mixed' => y.rows \in Seq(FitBut(byHand'))
        BY <1>1, <3>2, <3>4, <3>5 DEF IInv, RowsAreSound
      <4>. QED
        BY <4>1 DEF ReadFit, FitBut, y
    <3>9. StillThere(actor[a])'
      <4>1. /\ TextOf(y.rows) = TextOf(rows') /\ y.todo = <<>>
        BY <1>1, <3>2, <3>4
      <4>. QED
        BY <4>1 DEF StillThere, y, TextOf
    <3>10. ReadGenuine(actor[a])' /\ ReadNamed(actor[a])' /\ (actor[a].pc = "idle" => actor[a] = Idle)'
      <4>1. /\ diarizations' <= 1 => TextOf(y.rows) \in texts'
            /\ "speaker" \notin mixed' => y.rows \in Seq(Unnamed(renamed'))
            /\ y.pc = "work"
        BY <1>1, <1>2, <3>2, <3>4 DEF IInv, RowsAreSound
      <4>. QED
        BY <4>1 DEF ReadGenuine, ReadNamed, y, TextOf
    <3>11. Sound(actor[a])'
      BY <3>6, <3>7, <3>8, <3>9, <3>10 DEF Sound
    <3>. QED
      BY <3>4, <3>11
  <2>. QED
    BY <2>1, <2>2
<1>6. TypeOK'
  <2>1. requests' \in 0..MaxRequests /\ diarizations' \in 0..MaxDiarizations
    BY <1>2
  <2>2. edits \in 0..MaxEdits
    BY DEF IInv, TypeOK
  <2>. QED
    BY <1>1, <1>3, <1>5, <2>1, <2>2, Types, TypesStay
<1>7. ASSUME NEW b \in Actors, b # a PROVE Sound(actor[b])'
  <2>1. actor'[b] = actor[b]
    BY <1>7 DEF Read
  <2>2. Follows(b, {})
    BY <1>3, <2>1 DEF Follows
  <2>3. \A i \in DOMAIN rows : \E j \in DOMAIN rows' :
            rows'[j].id = rows[i].id /\ rows'[j].words = rows[i].words
    BY <1>1
  <2>. QED
    BY <1>1, <1>2, <2>2, <2>3, OthersStaySound
<1>. QED
  BY <1>4, <1>5, <1>6, <1>7 DEF IInv

(* What an actor writes: the text it read, but for a pass and for what        *)
(* silence takes; rows that fit, but for what a user did, if those it read    *)
(* do; no id twice up to the second diarization.                             *)
LEMMA ResultsFacts ==
    ASSUME IInv, NEW a \in Actors, actor[a].pc = "work",
           NEW silent \in SUBSET Unheard(a), NEW new \in Results(a, silent)
    PROVE  LET x == actor[a]
               unfit == byHand \union IF x.op = "merge" THEN Inherited(x.rows, new) ELSE {}
           IN  /\ new \in Seq(Row) /\ new \in Seq(Before(requests + 1))
               /\ x.op # "refine" /\ silent = {} => TextOf(new) = TextOf(x.rows)
               /\ silent # {} => /\ x.op # "refine" /\ TextOf(new) = TextLeft(x.rows, silent)
               /\ diarizations = 0 => new \in Seq(Whole)
               /\ x.rows \in Seq(FitBut(byHand)) => new \in Seq(FitBut(unfit))
               /\ x.op # "diarize" /\ x.rows \in Seq(Unnamed(renamed)) => new \in Seq(Unnamed(renamed))
               /\ diarizations <= 1 => DistinctIds(new)
<1> DEFINE x == actor[a]
           rs == actor[a].rows
           n == actor[a].n
<1>1. rs \in Seq(Row) /\ n \in Nat
  BY Types DEF ActorType
<1>2. /\ rs \in Seq(Before(n)) /\ DistinctIds(rs) /\ n <= requests
      /\ diarizations = 0 => rs \in Seq(Whole)
      /\ x.op = "diarize" => diarizations > 0
      /\ x.op = "diarize" /\ diarizations <= 1 => rs \in Seq(Whole)
  BY DEF IInv, Sound, IdsAreOld, IsUndivided
<1>3. NoSpeaker \notin renamed
  BY Types, NamesAssumption
<1>4. requests \in Nat /\ diarizations \in Nat
  BY Types
<1>5. Seq(Before(n)) \subseteq Seq(Before(requests + 1)) /\ Seq(Before(n + 1)) \subseteq Seq(Before(requests + 1))
  <2>1. \A r \in Row : r.id.n \in Nat
    BY DEF Row, Id
  <2>2. \A r \in Before(n) : r \in Before(requests + 1)
    BY <1>1, <1>2, <1>4, <2>1 DEF Before
  <2>3. \A r \in Before(n + 1) : r \in Before(requests + 1)
    BY <1>1, <1>2, <1>4, <2>1 DEF Before
  <2>. QED
    BY <2>2, <2>3
<1>6. \/ x.op = "split" /\ new \in Splits(rs, NewId(n))
      \/ x.op = "merge" /\ new \in Merges(rs)
      \/ x.op = "diarize" /\ new \in Diarized(rs, silent)
      \/ x.op = "refine" /\ new \in Refined(rs)
  BY DEF Results
<1>60. /\ x.op = "diarize" => silent \in SUBSET Several(rs)
       /\ x.op # "diarize" => silent = {}
  BY DEF Unheard
<1> DEFINE unfit == byHand \union IF x.op = "merge" THEN Inherited(rs, new) ELSE {}
<1>61. x.op # "merge" => unfit = byHand
  OBVIOUS
<1>62. x.op = "merge" => unfit = byHand \union Inherited(rs, new)
  OBVIOUS
<1>63. new \in Seq(Fit) => new \in Seq(FitBut(unfit))
  <2>1. \A r \in Fit : r \in FitBut(unfit)
    BY NumberingKinds
  <2>2. Seq(Fit) \subseteq Seq(FitBut(unfit))
    BY <2>1, SeqOfMore, Zenon
  <2>. QED
    BY <2>2, Zenon
<1>64. unfit = byHand \union IF actor[a].op = "merge" THEN Inherited(actor[a].rows, new) ELSE {}
  OBVIOUS
<1> HIDE DEF x, rs, n, unfit
<1>7. CASE x.op = "split" /\ new \in Splits(rs, NewId(n))
  <2>1. /\ new \in Seq(Row)
        /\ TextOf(new) = TextOf(rs)
        /\ rs \in Seq(FitBut(byHand)) => new \in Seq(FitBut(byHand))
        /\ \A L : rs \in Seq(Unnamed(L)) => new \in Seq(Unnamed(L))
        /\ rs \in Seq(Before(n)) => new \in Seq(Before(n + 1))
        /\ rs \in Seq(Whole) => new \in Seq(Whole)
        /\ rs \in Seq(Before(n)) /\ DistinctIds(rs) => DistinctIds(new)
    BY <1>1, <1>7, SplitsFacts
  <2>2. silent = {} /\ unfit = byHand
    BY <1>7, <1>60, <1>61
  <2>. QED
    BY <1>2, <1>5, <1>7, <1>64, <2>1, <2>2 DEF x, rs
<1>8. CASE x.op = "merge" /\ new \in Merges(rs)
  <2>1. /\ new \in Seq(Row)
        /\ TextOf(new) = TextOf(rs)
        /\ DistinctIds(rs) /\ rs \in Seq(FitBut(byHand))
               => new \in Seq(FitBut(byHand \union Inherited(rs, new)))
        /\ \A L : rs \in Seq(Unnamed(L)) => new \in Seq(Unnamed(L))
        /\ rs \in Seq(Before(n)) => new \in Seq(Before(n))
        /\ rs \in Seq(Whole) => new \in Seq(Whole)
        /\ DistinctIds(rs) => DistinctIds(new)
    BY <1>1, <1>8, MergesFacts
  <2>2. silent = {} /\ unfit = byHand \union Inherited(rs, new)
    BY <1>8, <1>60, <1>62
  <2>. QED
    BY <1>2, <1>5, <1>8, <1>64, <2>1, <2>2 DEF x, rs
<1>9. CASE x.op = "diarize" /\ new \in Diarized(rs, silent)
  <2>1. /\ new \in Seq(Row) /\ new \in Seq(Fit)
        /\ TextOf(new) = TextLeft(rs, silent)
        /\ rs \in Seq(Before(n)) => new \in Seq(Before(n))
        /\ rs \in Seq(Whole) /\ DistinctIds(rs) => DistinctIds(new)
    BY <1>1, <1>9, <1>60, DiarizedFacts
  <2>2. ~(diarizations = 0)
    BY <1>2, <1>9
  <2>3. silent = {} => TextLeft(rs, silent) = TextOf(rs)
    BY <1>1, TextLeftFacts
  <2>. QED
    BY <1>2, <1>5, <1>9, <1>63, <1>64, <2>1, <2>2, <2>3 DEF x, rs
<1>10. CASE x.op = "refine" /\ new \in Refined(rs)
  <2>1. /\ new \in Seq(Row) /\ new \in Seq(Fit) /\ new \in Seq(Whole)
        /\ new \in Seq(Before(n))
        /\ \A L : rs \in Seq(Unnamed(L)) /\ NoSpeaker \notin L => new \in Seq(Unnamed(L))
        /\ DistinctIds(new)
    BY <1>1, <1>10, RefinedFacts
  <2>2. silent = {}
    BY <1>10, <1>60
  <2>. QED
    BY <1>2, <1>3, <1>5, <1>10, <1>63, <1>64, <2>1, <2>2 DEF x, rs
<1>. QED
  BY <1>6, <1>7, <1>8, <1>9, <1>10

(* Rows are written back whole.                                             *)
LEMMA SwapKeeps ==
    ASSUME IInv, NEW a \in Actors, Swap(a)
    PROVE  IInv'
<1> DEFINE x == actor[a]
<1>1. x.pc = "work" /\ requests' = requests /\ diarizations' = diarizations /\ edits' = edits
      /\ mixed' = mixed \union x.missed
  BY DEF Swap
<1>19. PICK silent \in SUBSET Unheard(a) : \E new \in Results(a, silent) :
        LET left == TextLeft(x.rows, silent)
            again == x.op = "diarize" /\ HasTranslations(x.rows)
        IN /\ rows' = Inserted(new)
           /\ actor' = [Miss(a, {"words", "speaker"}) EXCEPT ![a] =
                  IF again /\ Inserted(new) = new
                  THEN Translator("diarize", new, TRUE) ELSE Idle]
           /\ texts' = texts \union (CASE x.op = "refine" -> {TextOf(new)}
                                       [] silent # {} -> {left}
                                       [] OTHER -> {})
           /\ typed' = CASE x.op = "refine" -> {}
                         [] silent # {} -> typed \ (Range(TextOf(x.rows)) \ Range(left))
                         [] OTHER -> typed
           /\ renamed' = renamed \ IF x.op = "diarize"
                                   THEN {new[i].speaker : i \in DOMAIN new} ELSE {}
           /\ byHand' = byHand \union IF x.op = "merge" THEN Inherited(x.rows, new) ELSE {}
  BY DEF Swap
<1>20. PICK new \in Results(a, silent) :
        LET left == TextLeft(x.rows, silent)
            again == x.op = "diarize" /\ HasTranslations(x.rows)
        IN /\ rows' = Inserted(new)
           /\ actor' = [Miss(a, {"words", "speaker"}) EXCEPT ![a] =
                  IF again /\ Inserted(new) = new
                  THEN Translator("diarize", new, TRUE) ELSE Idle]
           /\ texts' = texts \union (CASE x.op = "refine" -> {TextOf(new)}
                                       [] silent # {} -> {left}
                                       [] OTHER -> {})
           /\ typed' = CASE x.op = "refine" -> {}
                         [] silent # {} -> typed \ (Range(TextOf(x.rows)) \ Range(left))
                         [] OTHER -> typed
           /\ renamed' = renamed \ IF x.op = "diarize"
                                   THEN {new[i].speaker : i \in DOMAIN new} ELSE {}
           /\ byHand' = byHand \union IF x.op = "merge" THEN Inherited(x.rows, new) ELSE {}
  BY <1>19
<1>3. /\ new \in Seq(Row) /\ new \in Seq(Before(requests + 1))
      /\ x.op # "refine" /\ silent = {} => TextOf(new) = TextOf(x.rows)
      /\ silent # {} => /\ x.op # "refine" /\ TextOf(new) = TextLeft(x.rows, silent)
      /\ diarizations = 0 => new \in Seq(Whole)
      /\ x.rows \in Seq(FitBut(byHand)) => new \in Seq(FitBut(byHand'))
      /\ x.op # "diarize" /\ x.rows \in Seq(Unnamed(renamed)) => new \in Seq(Unnamed(renamed))
      /\ diarizations <= 1 => DistinctIds(new)
  <2>1. byHand' = byHand \union IF x.op = "merge" THEN Inherited(x.rows, new) ELSE {}
    BY <1>20
  <2>. QED
    BY <1>1, <2>1, ResultsFacts
<1>2. /\ rows' = Inserted(new)
      /\ actor' = [Miss(a, {"words", "speaker"}) EXCEPT ![a] =
             IF x.op = "diarize" /\ HasTranslations(x.rows) /\ Inserted(new) = new
             THEN Translator("diarize", new, TRUE) ELSE Idle]
      /\ renamed' = renamed \ IF x.op = "diarize" THEN {new[i].speaker : i \in DOMAIN new} ELSE {}
      /\ byHand' = byHand \union IF x.op = "merge" THEN Inherited(x.rows, new) ELSE {}
      /\ x.op = "refine" => texts' = texts \union {TextOf(new)} /\ typed' = {}
      /\ x.op # "refine" /\ silent = {} => texts' = texts /\ typed' = typed
      /\ x.op # "refine" /\ silent # {} =>
             /\ texts' = texts \union {TextOf(new)}
             /\ typed' = typed \ (Range(TextOf(x.rows)) \ Range(TextOf(new)))
  BY <1>20, <1>3, Zenon
<1>4. /\ x \in ActorType /\ actor \in [Actors -> ActorType]
      /\ requests \in Nat /\ diarizations \in Nat
  BY Types
<1>5. \A T \in SUBSET Row : new \in Seq(T) => rows' \in Seq(T)
  BY <1>2, InsertedFacts
<1>6. /\ rows' \in Seq(Row) /\ DistinctIds(rows') /\ (diarizations <= 1 => rows' = new)
  <2>1. Row \in SUBSET Row
    OBVIOUS
  <2>. QED
    BY <1>2, <1>3, <2>1, InsertedFacts
<1>7. /\ Sound(x) /\ RowsAreSound
  BY DEF IInv
<1>8. RowsAreSound'
  <2>1. rows' \in Seq(Before(requests' + 1))
    <3>1. Before(requests + 1) \in SUBSET Row
      BY DEF Before
    <3>. QED
      BY <1>1, <1>3, <1>5, <3>1
  <2>2. diarizations' = 0 => rows' \in Seq(Whole)
    BY <1>1, <1>3, <1>5, NumberingKinds
  <2>3. "words" \notin mixed' => rows' \in Seq(FitBut(byHand'))
    <3>1. "words" \notin mixed' => x.rows \in Seq(FitBut(byHand))
      BY <1>1, <1>7 DEF Sound, ReadFit
    <3>2. FitBut(byHand') \in SUBSET Row
      BY NumberingKinds
    <3>. QED
      BY <1>3, <1>5, <3>1, <3>2
  <2>4. diarizations' <= 1 => TextOf(rows') \in texts'
    <3>1. CASE x.op = "refine"
      BY <1>1, <1>2, <1>6, <3>1
    <3>2. CASE x.op # "refine" /\ silent = {}
      <4>1. diarizations <= 1 => TextOf(x.rows) \in texts
        BY <1>1, <1>7 DEF Sound, ReadGenuine
      <4>. QED
        BY <1>1, <1>2, <1>3, <1>6, <3>2, <4>1
    <3>3. CASE x.op # "refine" /\ silent # {}
      BY <1>1, <1>2, <1>6, <3>3
    <3>. QED
      BY <3>1, <3>2, <3>3
  <2>5. diarizations' <= 1 /\ "words" \notin mixed' => typed' \subseteq Range(TextOf(rows'))
    <3> SUFFICES ASSUME diarizations' <= 1, "words" \notin mixed'
                 PROVE  typed' \subseteq Range(TextOf(rows'))
      OBVIOUS
    <3>1. CASE x.op = "refine"
      BY <1>2, <3>1
    <3>2. CASE x.op # "refine"
      <4>1. "words" \notin x.missed /\ "words" \notin mixed /\ diarizations <= 1
        BY <1>1
      <4>2. TextOf(x.rows) = TextOf(rows)
        BY <1>1, <1>7, <4>1 DEF Sound, StillThere
      <4>3. typed \subseteq Range(TextOf(x.rows))
        BY <1>7, <4>1, <4>2 DEF RowsAreSound, TypedStays
      <4>4. rows' = new
        BY <1>6, <4>1
      <4>5. CASE silent = {}
        BY <1>2, <1>3, <3>2, <4>3, <4>4, <4>5
      <4>6. CASE silent # {}
        <5>1. typed' = typed \ (Range(TextOf(x.rows)) \ Range(TextOf(new)))
          BY <1>2, <3>2, <4>6
        <5>. QED
          BY <4>3, <4>4, <5>1, Zenon
      <4>. QED
        BY <4>5, <4>6
    <3>. QED
      BY <3>1, <3>2
  <2>6. "speaker" \notin mixed' => rows' \in Seq(Unnamed(renamed'))
    <3>1. Unnamed(renamed') \in SUBSET Row
      BY DEF Unnamed
    <3>2. CASE x.op = "diarize"
      <4>1. \A i \in 1..Len(new) : new[i] \in Unnamed(renamed')
        <5>1. \A i \in 1..Len(new) : i \in DOMAIN new /\ new[i] \in Row
          BY <1>3
        <5>2. renamed' = renamed \ {new[i].speaker : i \in DOMAIN new}
          BY <1>2, <3>2
        <5>. QED
          BY <5>1, <5>2 DEF Unnamed
      <4>2. new \in Seq(Unnamed(renamed'))
        BY <1>3, <4>1, SeqOfThese, Zenon
      <4>. QED
        BY <1>5, <3>1, <4>2
    <3>3. CASE x.op # "diarize"
      <4>1. renamed' = renamed
        BY <1>2, <3>3
      <4>2. "speaker" \notin mixed' => x.rows \in Seq(Unnamed(renamed))
        BY <1>1, <1>7 DEF Sound, ReadNamed
      <4>. QED
        BY <1>3, <1>5, <3>1, <3>3, <4>1, <4>2
    <3>. QED
      BY <3>2, <3>3
  <2>. QED
    BY <2>1, <2>2, <2>3, <2>4, <2>5, <2>6 DEF RowsAreSound, TypedStays
<1>9. /\ Miss(a, {"words", "speaker"}) \in [Actors -> ActorType]
      /\ Idle \in ActorType /\ Translator("diarize", new, TRUE) \in ActorType
  BY <1>3, <1>4, Types, IdleType, MissFollows, TranslatorFacts DEF Jobs
<1>10. /\ actor' \in [Actors -> ActorType]
       /\ actor'[a] = Idle \/ (x.op = "diarize" /\ rows' = new /\ actor'[a] = Translator("diarize", new, TRUE))
       /\ \A b \in Actors : b # a => actor'[b] = Miss(a, {"words", "speaker"})[b]
  BY <1>2, <1>9
<1>11. Sound(actor[a])'
  <2>1. CASE actor'[a] = Idle
    <3>1. Sound(Idle)'
      BY <1>1, <1>4, IdleStaysSound
    <3>. QED
      BY <2>1, <3>1 DEF Sound, Idle, IdsAreOld, IsUndivided, ReadFit, StillThere, ReadGenuine, ReadNamed
  <2>2. CASE x.op = "diarize" /\ rows' = new /\ actor'[a] = Translator("diarize", new, TRUE)
    <3>1. diarizations' > 0
      BY <1>1, <1>7, <2>2 DEF Sound, IsUndivided
    <3>2. "diarize" \in Jobs /\ TRUE \in BOOLEAN /\ actor'[a] = Translator("diarize", rows', TRUE)
      BY <2>2 DEF Jobs
    <3>. QED
      BY <1>1, <1>4, <1>6, <1>8, <3>1, <3>2, TranslatorStaysSound
  <2>. QED
    BY <1>10, <2>1, <2>2
<1>12. ASSUME NEW b \in Actors, b # a PROVE Sound(actor[b])'
  <2>1. Follows(b, {"words", "speaker"})
    <3>1. actor'[b] = Miss(a, {"words", "speaker"})[b] /\ {"words", "speaker"} \in SUBSET {"words", "speaker"}
      BY <1>10, <1>12
    <3>. QED
      BY <1>4, <1>12, <3>1, MissFollows DEF Follows
  <2>2. requests <= requests' /\ diarizations <= diarizations' /\ requests' \in Nat /\ diarizations' \in Nat
        /\ mixed \subseteq mixed' /\ texts \subseteq texts' /\ byHand \subseteq byHand'
    BY <1>1, <1>2, <1>4
  <2>. QED
    BY <2>1, <2>2, OthersStaySound
<1>13. TypeOK'
  <2>1. texts' \subseteq Seq(Words) /\ typed' \subseteq Edits /\ renamed' \subseteq Labels
        /\ byHand' \subseteq Id /\ mixed' \subseteq {"words", "speaker"}
    <3>1. TextOf(new) \in Seq(Words)
      BY <1>3, TextType
    <3>2. x.missed \subseteq {"words", "speaker"} /\ x.rows \in Seq(Row)
      BY <1>4 DEF ActorType
    <3>3. Inherited(x.rows, new) \subseteq Id
      <4>1. \A i \in 1..Len(x.rows) - 1 : x.rows[i] \in Row
        BY <3>2
      <4>2. \A r \in Row : r.id \in Id
        BY DEF Row
      <4>. QED
        BY <4>1, <4>2 DEF Inherited
    <3>. QED
      BY <1>1, <1>2, <3>1, <3>2, <3>3, Types
  <2>2. requests' \in 0..MaxRequests /\ diarizations' \in 0..MaxDiarizations /\ edits' \in 0..MaxEdits
    BY <1>1 DEF IInv, TypeOK
  <2>. QED
    BY <1>6, <1>10, <2>1, <2>2, TypesStay
<1>. QED
  BY <1>8, <1>11, <1>12, <1>13 DEF IInv

(* One more translation is written.                                          *)
LEMMA TranslateNextKeeps ==
    ASSUME IInv, NEW a \in Actors, TranslateNext(a)
    PROVE  IInv'
<1> DEFINE x == actor[a]
           r == Head(x.todo)
           y == actor'[a]
<1>1. /\ x.pc = "translate" /\ x.todo # <<>>
      /\ actor' = [actor EXCEPT ![a].todo = Tail(@)]
      /\ mixed' = mixed \union (x.missed \ {"speaker"})
      /\ requests' = requests /\ diarizations' = diarizations /\ edits' = edits
      /\ texts' = texts /\ typed' = typed /\ renamed' = renamed /\ byHand' = byHand
  BY DEF TranslateNext
<1>2. PICK t \in {r.words, <<>>} : rows' = Upserted(r, t)
  BY DEF TranslateNext
<1>3. /\ x \in ActorType /\ actor \in [Actors -> ActorType] /\ x.todo \in Seq(Row)
      /\ requests \in Nat /\ diarizations \in Nat /\ rows \in Seq(Row) /\ DistinctIds(rows)
  BY Types DEF ActorType
<1>4. /\ Sound(x) /\ RowsAreSound
  BY DEF IInv
<1>5. \A T : x.todo \in Seq(T) => r \in T /\ Tail(x.todo) \in Seq(T)
  <2>1. ASSUME NEW T, NEW s \in Seq(T), s # <<>> PROVE Head(s) \in T /\ Tail(s) \in Seq(T)
    BY <2>1
  <2>. QED
    BY <1>1, <2>1
<1>6. r \in Row /\ t \in Seq(Words)
  <2>1. r \in Row
    BY <1>3, <1>5
  <2>2. <<>> \in Seq(Words) /\ r.words \in Seq(Words)
    BY <2>1 DEF Row
  <2>. QED
    BY <2>1, <2>2
<1>7. /\ Len(x.todo) \in Nat /\ 1 \in DOMAIN x.todo /\ r = x.todo[1]
      /\ \A k \in DOMAIN Tail(x.todo) : k + 1 \in DOMAIN x.todo /\ Tail(x.todo)[k] = x.todo[k + 1]
  BY <1>1, <1>3
<1>70. y = [x EXCEPT !.todo = Tail(x.todo)] /\ \A b \in Actors : b # a => actor'[b] = actor[b]
  BY <1>1, <1>3
<1> HIDE DEF x, r, y
<1>8. /\ rows' \in Seq(Row) /\ DistinctIds(rows') /\ TextOf(rows') = TextOf(rows)
      /\ \A i \in DOMAIN rows : \E j \in DOMAIN rows' :
            rows'[j].id = rows[i].id /\ rows'[j].words = rows[i].words
      /\ \A n \in Nat : rows \in Seq(Before(n)) /\ r \in Before(n) => rows' \in Seq(Before(n))
      /\ rows \in Seq(Whole) /\ r \in Whole => rows' \in Seq(Whole)
      /\ \A L : rows \in Seq(Unnamed(L)) /\ NoSpeaker \notin L => rows' \in Seq(Unnamed(L))
  <2> DEFINE u == Upserted(r, t)
  <2>1. /\ u \in Seq(Row) /\ DistinctIds(u) /\ TextOf(u) = TextOf(rows)
        /\ \A i \in DOMAIN rows : \E j \in DOMAIN u :
              u[j].id = rows[i].id /\ u[j].words = rows[i].words
        /\ \A n \in Nat : rows \in Seq(Before(n)) /\ r \in Before(n) => u \in Seq(Before(n))
        /\ rows \in Seq(Whole) /\ r \in Whole => u \in Seq(Whole)
        /\ \A L : rows \in Seq(Unnamed(L)) /\ NoSpeaker \notin L => u \in Seq(Unnamed(L))
    BY <1>3, <1>6, UpsertedFacts
  <2>2. rows' = u
    BY <1>2
  <2> HIDE DEF u
  <2>. QED
    BY <2>1, <2>2
<1>80. ASSUME rows \in Seq(FitBut(byHand)), r.words # <<>>,
              \E i \in DOMAIN rows : rows[i].id = r.id /\ rows[i].words = r.words
       PROVE  rows' \in Seq(FitBut(byHand))
  <2>1. Upserted(r, t) \in Seq(FitBut(byHand))
    BY <1>2, <1>3, <1>6, <1>80, UpsertedFacts, Zenon
  <2>. QED
    BY <1>2, <2>1, Zenon
<1>9. RowsAreSound'
  <2>1. rows' \in Seq(Before(requests' + 1))
    <3>1. rows \in Seq(Before(requests + 1)) /\ r \in Before(requests + 1)
      BY <1>4, <1>5 DEF RowsAreSound, Sound, IdsAreOld
    <3>2. requests + 1 \in Nat
      BY <1>3
    <3>. QED
      BY <1>1, <1>8, <3>1, <3>2
  <2>2. diarizations' = 0 => rows' \in Seq(Whole)
    <3>1. diarizations = 0 => rows \in Seq(Whole) /\ r \in Whole
      BY <1>4, <1>5 DEF RowsAreSound, Sound, IsUndivided
    <3>. QED
      BY <1>1, <1>8, <3>1
  <2>3. "words" \notin mixed' => rows' \in Seq(FitBut(byHand'))
    <3> SUFFICES ASSUME "words" \notin mixed' PROVE rows' \in Seq(FitBut(byHand'))
      OBVIOUS
    <3>1. "words" \notin mixed /\ "words" \notin x.missed
      BY <1>1 DEF x
    <3>2. rows \in Seq(FitBut(byHand))
      BY <1>4, <3>1 DEF RowsAreSound
    <3>4. r.words # <<>>
      <4>1. r \in Said
        BY <1>4, <1>5 DEF Sound, ReadFit
      <4>. QED
        BY <4>1 DEF Said
    <3>3. \E i \in DOMAIN rows : rows[i].id = r.id /\ rows[i].words = r.words
      BY <1>4, <1>7, <3>1 DEF Sound, StillThere
    <3>5. rows' \in Seq(FitBut(byHand))
      BY <1>80, <3>2, <3>3, <3>4
    <3>. QED
      BY <1>1, <3>5
  <2>4. diarizations' <= 1 => TextOf(rows') \in texts'
    BY <1>1, <1>4, <1>8 DEF RowsAreSound
  <2>5. diarizations' <= 1 /\ "words" \notin mixed' => typed' \subseteq Range(TextOf(rows'))
    <3>1. "words" \notin mixed' => "words" \notin mixed
      BY <1>1
    <3>. QED
      BY <1>1, <1>4, <1>8, <3>1 DEF RowsAreSound, TypedStays
  <2>6. "speaker" \notin mixed' => rows' \in Seq(Unnamed(renamed'))
    <3>1. "speaker" \notin mixed' => rows \in Seq(Unnamed(renamed))
      BY <1>1, <1>4 DEF RowsAreSound
    <3>2. NoSpeaker \notin renamed
      BY Types, NamesAssumption
    <3>. QED
      BY <1>1, <1>8, <3>1, <3>2
  <2>. QED
    BY <2>1, <2>2, <2>3, <2>4, <2>5, <2>6 DEF RowsAreSound, TypedStays
<1>10. /\ y.op = x.op /\ y.pc = "translate" /\ y.n = x.n /\ y.rows = x.rows
       /\ y.todo = Tail(x.todo) /\ y.missed = x.missed /\ y \in ActorType
  <2>1. Tail(x.todo) \in Seq(Row)
    BY <1>3, <1>5
  <2>. QED
    BY <1>1, <1>3, <1>70, <2>1 DEF ActorType, x
<1>11. actor' \in [Actors -> ActorType]
  BY <1>1, <1>3, <1>10 DEF y
<1>12. Sound(actor[a])'
  <2>1. IdsAreOld(actor[a])'
    <3>1. /\ y.rows \in Seq(Before(y.n)) /\ DistinctIds(y.rows) /\ y.n <= requests'
          /\ y.todo \in Seq(Before(requests' + 1))
      BY <1>1, <1>4, <1>5, <1>10 DEF Sound, IdsAreOld
    <3>. QED
      BY <3>1 DEF IdsAreOld, y, DistinctIds
  <2>2. IsUndivided(actor[a])'
    <3>1. /\ diarizations' = 0 => y.rows \in Seq(Whole) /\ y.todo \in Seq(Whole)
          /\ y.op = "diarize" => diarizations' > 0
          /\ y.op = "diarize" /\ diarizations' <= 1 => y.rows \in Seq(Whole)
      BY <1>1, <1>4, <1>5, <1>10 DEF Sound, IsUndivided
    <3>. QED
      BY <3>1 DEF IsUndivided, y
  <2>3. ReadFit(actor[a])'
    <3>1. /\ y.todo \in Seq(Said)
          /\ "words" \notin mixed' => y.rows \in Seq(FitBut(byHand'))
      BY <1>1, <1>4, <1>5, <1>10 DEF Sound, ReadFit
    <3>. QED
      BY <3>1 DEF ReadFit, FitBut, y
  <2>4. StillThere(actor[a])'
    <3> SUFFICES ASSUME "words" \notin y.missed, NEW k \in DOMAIN y.todo
                 PROVE  \E i \in DOMAIN rows' :
                           rows'[i].id = y.todo[k].id /\ rows'[i].words = y.todo[k].words
      BY <1>10 DEF StillThere, y
    <3>1. k + 1 \in DOMAIN x.todo /\ y.todo[k] = x.todo[k + 1]
      BY <1>7, <1>10
    <3>2. PICK i \in DOMAIN rows :
            rows[i].id = x.todo[k + 1].id /\ rows[i].words = x.todo[k + 1].words
      BY <1>4, <1>10, <3>1 DEF Sound, StillThere
    <3>3. PICK j \in DOMAIN rows' : rows'[j].id = rows[i].id /\ rows'[j].words = rows[i].words
      BY <1>8
    <3>. QED
      BY <3>1, <3>2, <3>3
  <2>5. ReadGenuine(actor[a])' /\ (actor[a].pc = "idle" => actor[a] = Idle)'
    <3>1. y.pc # "work" /\ y.pc # "idle"
      BY <1>10
    <3>. QED
      BY <3>1 DEF ReadGenuine, y
  <2>6. ReadNamed(actor[a])'
    <3>1. "speaker" \notin mixed' /\ "speaker" \notin y.missed => y.rows \in Seq(Unnamed(renamed'))
      BY <1>1, <1>4, <1>10 DEF Sound, ReadNamed
    <3>. QED
      BY <3>1 DEF ReadNamed, y
  <2>. QED
    BY <2>1, <2>2, <2>3, <2>4, <2>5, <2>6 DEF Sound
<1>13. ASSUME NEW b \in Actors, b # a PROVE Sound(actor[b])'
  <2>1. Follows(b, {})
    BY <1>3, <1>13, <1>70 DEF Follows
  <2>2. requests <= requests' /\ diarizations <= diarizations' /\ requests' \in Nat /\ diarizations' \in Nat
        /\ mixed \subseteq mixed' /\ texts \subseteq texts' /\ renamed' \subseteq renamed
        /\ byHand \subseteq byHand'
    BY <1>1, <1>3
  <2>. QED
    BY <1>8, <2>1, <2>2, OthersStaySound
<1>14. TypeOK'
  <2>1. mixed' \subseteq {"words", "speaker"}
    <3>1. x.missed \subseteq {"words", "speaker"}
      BY <1>3 DEF ActorType
    <3>. QED
      BY <1>1, <3>1, Types
  <2>2. requests' \in 0..MaxRequests /\ diarizations' \in 0..MaxDiarizations /\ edits' \in 0..MaxEdits
    BY <1>1 DEF IInv, TypeOK
  <2>. QED
    BY <1>1, <1>8, <1>11, <2>1, <2>2, Types, TypesStay
<1>. QED
  BY <1>9, <1>12, <1>13, <1>14 DEF IInv

-----------------------------------------------------------------------------
(* An edit changes rows in their places and keeps their ids; who has read     *)
(* misses it.                                                                *)
LEMMA EditKeeps ==
    ASSUME IInv, NEW what \in SUBSET {"words", "speaker"},
           DOMAIN rows' = DOMAIN rows, rows' = [i \in DOMAIN rows' |-> rows'[i]],
           \A i \in DOMAIN rows : rows'[i] \in Row /\ rows'[i].id = rows[i].id,
           edits' \in 0..MaxEdits, requests' = requests, diarizations' = diarizations, mixed' = mixed,
           texts \subseteq texts', texts' \subseteq Seq(Words), typed' \subseteq Edits,
           renamed' \subseteq Labels, byHand' \subseteq Id, byHand \subseteq byHand',
           actor' = Miss(None, what) \/ (what = {} /\ actor' = actor),
           "words" \in what \/ \A i \in DOMAIN rows : rows'[i].words = rows[i].words,
           "speaker" \in what \/ renamed' \subseteq renamed,
           "words" \notin mixed =>
               \A i \in DOMAIN rows : rows[i] \in FitBut(byHand) => rows'[i] \in FitBut(byHand'),
           diarizations <= 1 => TextOf(rows') \in texts' /\ TypedStays',
           "speaker" \notin mixed =>
               \A i \in DOMAIN rows : rows[i] \in Unnamed(renamed) => rows'[i] \in Unnamed(renamed')
    PROVE  IInv'
<1>1. /\ rows \in Seq(Row) /\ DistinctIds(rows) /\ actor \in [Actors -> ActorType]
      /\ requests \in Nat /\ diarizations \in Nat /\ RowsAreSound
  BY Types DEF IInv
<1>2. \A T, U : rows \in Seq(T) /\ (\A i \in DOMAIN rows : rows[i] \in T => rows'[i] \in U)
                   => rows' \in Seq(U)
  <2> SUFFICES ASSUME NEW T, NEW U, rows \in Seq(T),
                      \A i \in DOMAIN rows : rows[i] \in T => rows'[i] \in U
               PROVE  rows' \in Seq(U)
    OBVIOUS
  <2>1. DOMAIN rows = 1..Len(rows) /\ Len(rows) \in Nat /\ \A i \in DOMAIN rows : rows[i] \in T
    OBVIOUS
  <2>2. rows' \in [1..Len(rows) -> U]
    BY <2>1
  <2>. QED
    BY <2>1, <2>2
<1>3. rows' \in Seq(Row)
  BY <1>1, <1>2
<1>4. DistinctIds(rows')
  BY <1>1 DEF DistinctIds
<1>5. RowsAreSound'
  <2>1. rows' \in Seq(Before(requests' + 1))
    <3>1. \A i \in DOMAIN rows : rows[i] \in Before(requests + 1) => rows'[i] \in Before(requests' + 1)
      BY DEF Before
    <3>. QED
      BY <1>1, <1>2, <3>1 DEF RowsAreSound
  <2>2. diarizations' = 0 => rows' \in Seq(Whole)
    <3>1. \A i \in DOMAIN rows : rows[i] \in Whole => rows'[i] \in Whole
      BY DEF Whole, IsPart
    <3>. QED
      BY <1>1, <1>2, <3>1 DEF RowsAreSound
  <2>3. "words" \notin mixed' => rows' \in Seq(FitBut(byHand'))
    BY <1>1, <1>2 DEF RowsAreSound
  <2>4. "speaker" \notin mixed' => rows' \in Seq(Unnamed(renamed'))
    BY <1>1, <1>2 DEF RowsAreSound
  <2>. QED
    BY <2>1, <2>2, <2>3, <2>4 DEF RowsAreSound, TypedStays
<1>6. ASSUME NEW b \in Actors PROVE Sound(actor[b])'
  <2>1. Follows(b, what)
    <3>1. CASE actor' = Miss(None, what)
      <4>1. b # None
        BY EditsAssumption
      <4>. QED
        BY <1>1, <3>1, <4>1, MissFollows DEF Follows
    <3>2. CASE what = {} /\ actor' = actor
      BY <1>1, <3>2 DEF Follows
    <3>. QED
      BY <3>1, <3>2
  <2>2. ASSUME "words" \notin what
        PROVE  /\ TextOf(rows') = TextOf(rows)
               /\ \A i \in DOMAIN rows : \E j \in DOMAIN rows' :
                     rows'[j].id = rows[i].id /\ rows'[j].words = rows[i].words
    <3>1. \A i \in DOMAIN rows : rows'[i].words = rows[i].words
      BY <2>2
    <3>2. Len(rows) = Len(rows') /\ DOMAIN rows = 1..Len(rows)
      BY <1>1, <1>3
    <3>3. TextOf(rows') = TextOf(rows)
      BY <1>1, <1>3, <3>1, <3>2, TextSame
    <3>. QED
      BY <3>1, <3>3
  <2>3. requests <= requests' /\ diarizations <= diarizations' /\ requests' \in Nat /\ diarizations' \in Nat
        /\ mixed \subseteq mixed'
    BY <1>1
  <2>. QED
    BY <2>1, <2>2, <2>3, OthersStaySound
<1>7. TypeOK'
  <2>1. actor' \in [Actors -> ActorType]
    BY <1>1, MissType
  <2>2. requests' \in 0..MaxRequests /\ diarizations' \in 0..MaxDiarizations
        /\ mixed' \subseteq {"words", "speaker"}
    BY DEF IInv, TypeOK
  <2>. QED
    BY <1>3, <1>4, <2>1, <2>2, TypesStay
<1>. QED
  BY <1>5, <1>6, <1>7 DEF IInv

(* A row replaced in its place, where Replaced speaks of its words.          *)
LEMMA RowReplaced ==
    ASSUME rows \in Seq(Row), NEW i \in DOMAIN rows, NEW q, rows' = [rows EXCEPT ![i] = q]
    PROVE  /\ DOMAIN rows' = DOMAIN rows /\ rows' = [k \in DOMAIN rows' |-> rows'[k]]
           /\ rows'[i] = q /\ \A k \in DOMAIN rows : k # i => rows'[k] = rows[k]
           /\ \A k \in DOMAIN rows : rows[k] \in Row
<1>1. rows' = [k \in DOMAIN rows |-> IF k = i THEN q ELSE rows[k]]
  <2>1. rows = [k \in DOMAIN rows |-> rows[k]]
    OBVIOUS
  <2>. QED
    BY <2>1
<1> DEFINE es == rows'
<1>10. es = [k \in DOMAIN rows |-> IF k = i THEN q ELSE rows[k]]
  BY <1>1
<1> HIDE DEF es
<1>2. DOMAIN es = DOMAIN rows
  BY <1>10
<1>3. es = [k \in DOMAIN es |-> es[k]]
  BY <1>10, <1>2
<1>4. es[i] = q
  BY <1>10
<1>5. \A k \in DOMAIN rows : k # i => es[k] = rows[k]
  BY <1>10
<1>6. \A k \in DOMAIN rows : rows[k] \in Row
  OBVIOUS
<1>. QED
  BY <1>2, <1>3, <1>4, <1>5, <1>6 DEF es

(* What a user leaves unfit is noted.                                       *)
LEMMA LeftByHand ==
    ASSUME IInv, NEW q \in Row, LeavesUnfit(q)
    PROVE  byHand \subseteq byHand' /\ byHand' \subseteq Id /\ q \in FitBut(byHand')
<1>1. q.id \in Id
  BY DEF Row
<1>. QED
  BY <1>1, Types DEF LeavesUnfit, FitBut

(* What a user may enter is a text, and only words of his own.               *)
LEMMA EnteredFacts ==
    ASSUME NEW w \in Entered
    PROVE  w \in Seq(Words) /\ Range(w) \subseteq Edits
<1>1. CASE w = <<>>
  <2>1. w \in Seq(Words) /\ DOMAIN w = {}
    BY <1>1
  <2>. QED
    BY <2>1 DEF Range
<1>2. CASE w # <<>>
  <2>1. PICK e \in Edits : w = <<e>>
    BY <1>2 DEF Entered
  <2>2. w \in Seq(Words) /\ DOMAIN w = {1} /\ w[1] = e
    BY <2>1, EditsAssumption
  <2>. QED
    BY <2>2 DEF Range
<1>. QED
  BY <1>1, <1>2

(* A row edited is a row, with what was entered.                             *)
LEMMA EditedFacts ==
    ASSUME NEW r \in Row, NEW w \in Seq(Words), NEW t \in Seq(Words)
    PROVE  /\ LET q == EditedText(r, w)
              IN  q \in Row /\ q.id = r.id /\ q.words = w /\ q.speaker = r.speaker
           /\ LET q == EditedTranslation(r, w, t)
              IN  q \in Row /\ q.id = r.id /\ q.words = w /\ q.speaker = r.speaker
BY DEF EditedText, EditedTranslation, Row

(* update_segment_text: a new text, with or without a translation.           *)
LEMMA EditTextKeeps ==
    ASSUME IInv, NEW i \in DOMAIN rows, NEW w \in Entered, EditText(i, w)
    PROVE  IInv'
<1>1. PICK q \in {EditedText(rows[i], w)}
                    \union {EditedTranslation(rows[i], w, t) : t \in Entered \union {w}} :
        rows' = [rows EXCEPT ![i] = q] /\ LeavesUnfit(q)
  BY DEF EditText
<1>2. /\ edits < MaxEdits /\ edits' = edits + 1
      /\ texts' = texts \union {TextOf(rows')} /\ typed' = (typed \union Range(w)) \ Range(rows[i].words)
      /\ actor' = Miss(None, {"words"})
      /\ requests' = requests /\ diarizations' = diarizations /\ renamed' = renamed /\ mixed' = mixed
  BY DEF EditText
<1>3. rows \in Seq(Row) /\ rows[i] \in Row /\ DOMAIN rows = 1..Len(rows)
  BY Types
<1>4. w \in Seq(Words) /\ Range(w) \subseteq Edits
  BY EnteredFacts
<1>5. q \in Row /\ q.id = rows[i].id /\ q.words = w /\ q.speaker = rows[i].speaker
  <2>1. CASE q = EditedText(rows[i], w)
    BY <1>3, <1>4, <2>1, EditedFacts
  <2>2. CASE q # EditedText(rows[i], w)
    <3>1. PICK t \in Entered \union {w} : q = EditedTranslation(rows[i], w, t)
      BY <1>1, <2>2
    <3>2. t \in Seq(Words)
      BY <1>4, EnteredFacts
    <3>. QED
      BY <1>3, <1>4, <3>1, <3>2, EditedFacts
  <2>. QED
    BY <2>1, <2>2
<1>6. /\ DOMAIN rows' = DOMAIN rows /\ rows' = [k \in DOMAIN rows' |-> rows'[k]]
      /\ rows'[i] = q /\ \A k \in DOMAIN rows : k # i => rows'[k] = rows[k]
      /\ \A k \in DOMAIN rows : rows[k] \in Row
  BY <1>1, <1>3, RowReplaced
<1>7. \A k \in DOMAIN rows : rows'[k] \in Row /\ rows'[k].id = rows[k].id
  BY <1>5, <1>6
<1>80. byHand \subseteq byHand' /\ byHand' \subseteq Id /\ q \in FitBut(byHand')
  BY <1>1, <1>5, LeftByHand
<1>8. \A k \in DOMAIN rows : rows[k] \in FitBut(byHand) => rows'[k] \in FitBut(byHand')
  <2>1. \A r \in FitBut(byHand) : r \in FitBut(byHand')
    BY <1>80 DEF FitBut
  <2>. QED
    BY <1>6, <1>80, <2>1
<1>9. \A k \in DOMAIN rows : rows[k] \in Unnamed(renamed) => rows'[k] \in Unnamed(renamed')
  BY <1>2, <1>5, <1>6 DEF Unnamed
<1>10. TextOf(rows') \in Seq(Words)
  <2>1. rows' \in Seq(Row)
    BY <1>1, <1>3, <1>5
  <2>. QED
    BY <2>1, TextType
<1>11. diarizations <= 1 => TextOf(rows') \in texts' /\ TypedStays'
  <2> SUFFICES ASSUME diarizations <= 1, "words" \notin mixed'
               PROVE  typed' \subseteq Range(TextOf(rows'))
    BY <1>2 DEF TypedStays
  <2>1. typed \subseteq Range(TextOf(rows))
    BY <1>2 DEF IInv, RowsAreSound, TypedStays
  <2>2. /\ Range(TextOf(rows)) \ Range(rows[i].words) \in SUBSET Range(TextOf(rows'))
        /\ Range(q.words) \in SUBSET Range(TextOf(rows'))
    BY <1>1, <1>3, <1>5, ReplacedWords
  <2>. QED
    BY <1>2, <1>5, <2>1, <2>2
<1>12. edits' \in 0..MaxEdits /\ texts' \subseteq Seq(Words) /\ typed' \subseteq Edits /\ renamed' \subseteq Labels
       /\ texts \subseteq texts'
  <2>1. edits' \in 0..MaxEdits
    <3>1. edits \in 0..MaxEdits /\ MaxEdits \in Nat
      BY EditsAssumption DEF IInv, TypeOK
    <3>. QED
      BY <1>2, <3>1
  <2>. QED
    BY <1>2, <1>4, <1>10, <2>1, Types
<1>. QED
  BY <1>2, <1>6, <1>7, <1>8, <1>80, <1>9, <1>11, <1>12, EditKeeps

(* update_segment_text: a new translation.                                  *)
LEMMA EditTranslationKeeps ==
    ASSUME IInv, NEW i \in DOMAIN rows, NEW t \in Entered \union {rows[i].words}, EditTranslation(i, t)
    PROVE  IInv'
<1> DEFINE q == EditedTranslation(rows[i], rows[i].words, t)
<1>1. /\ edits < MaxEdits /\ edits' = edits + 1
      /\ rows' = [rows EXCEPT ![i] = q] /\ LeavesUnfit(q)
      /\ actor' = actor /\ requests' = requests /\ diarizations' = diarizations
      /\ texts' = texts /\ typed' = typed /\ renamed' = renamed /\ mixed' = mixed
  BY DEF EditTranslation
<1>2. rows \in Seq(Row) /\ rows[i] \in Row /\ DOMAIN rows = 1..Len(rows)
  BY Types
<1>3. q \in Row /\ q.id = rows[i].id /\ q.words = rows[i].words /\ q.speaker = rows[i].speaker
  <2>1. rows[i].words \in Seq(Words)
    BY <1>2 DEF Row
  <2>2. t \in Seq(Words)
    BY <2>1, EnteredFacts
  <2>. QED
    BY <1>2, <2>1, <2>2, EditedFacts
<1> HIDE DEF q
<1>4. /\ DOMAIN rows' = DOMAIN rows /\ rows' = [k \in DOMAIN rows' |-> rows'[k]]
      /\ rows'[i] = q /\ \A k \in DOMAIN rows : k # i => rows'[k] = rows[k]
      /\ \A k \in DOMAIN rows : rows[k] \in Row
  BY <1>1, <1>2, RowReplaced
<1>5. \A k \in DOMAIN rows : rows'[k] \in Row /\ rows'[k].id = rows[k].id /\ rows'[k].words = rows[k].words
  BY <1>3, <1>4
<1>60. byHand \subseteq byHand' /\ byHand' \subseteq Id /\ q \in FitBut(byHand')
  BY <1>1, <1>3, LeftByHand
<1>6. \A k \in DOMAIN rows : rows[k] \in FitBut(byHand) => rows'[k] \in FitBut(byHand')
  <2>1. \A r \in FitBut(byHand) : r \in FitBut(byHand')
    BY <1>60 DEF FitBut
  <2>. QED
    BY <1>4, <1>60, <2>1
<1>7. \A k \in DOMAIN rows : rows[k] \in Unnamed(renamed) => rows'[k] \in Unnamed(renamed')
  BY <1>1, <1>3, <1>4 DEF Unnamed
<1>8. TextOf(rows') = TextOf(rows)
  BY <1>2, <1>4, <1>5, Replaced
<1>9. diarizations <= 1 => TextOf(rows') \in texts' /\ TypedStays'
  BY <1>1, <1>8 DEF IInv, RowsAreSound, TypedStays
<1>10. edits' \in 0..MaxEdits
  <2>1. edits \in 0..MaxEdits /\ MaxEdits \in Nat
    BY EditsAssumption DEF IInv, TypeOK
  <2>. QED
    BY <1>1, <2>1
<1>11. {} \in SUBSET {"words", "speaker"} /\ texts \subseteq texts' /\ texts' \subseteq Seq(Words)
       /\ typed' \subseteq Edits /\ renamed' \subseteq Labels /\ renamed' \subseteq renamed
  BY <1>1, Types
<1>. QED
  BY <1>1, <1>4, <1>5, <1>6, <1>60, <1>7, <1>9, <1>10, <1>11, EditKeeps

(* rename_speaker.                                                          *)
LEMMA RenameSpeakerKeeps ==
    ASSUME IInv, NEW label \in Labels, RenameSpeaker(label)
    PROVE  IInv'
<1> DEFINE q(k) == IF rows[k].speaker = label THEN [rows[k] EXCEPT !.speaker = Name] ELSE rows[k]
<1>1. /\ edits < MaxEdits /\ edits' = edits + 1
      /\ rows' = [k \in DOMAIN rows |-> q(k)] /\ renamed' = renamed \union {label}
      /\ actor' = Miss(None, {"speaker"}) /\ requests' = requests /\ diarizations' = diarizations
      /\ texts' = texts /\ typed' = typed /\ byHand' = byHand /\ mixed' = mixed
  BY DEF RenameSpeaker, NamedRows
<1>2. rows \in Seq(Row) /\ DOMAIN rows = 1..Len(rows) /\ \A k \in DOMAIN rows : rows[k] \in Row
  BY Types
<1>3. ASSUME NEW k \in DOMAIN rows
      PROVE  /\ q(k) \in Row /\ q(k).id = rows[k].id /\ q(k).words = rows[k].words
             /\ q(k).speaker = IF rows[k].speaker = label THEN Name ELSE rows[k].speaker
             /\ rows[k] \in FitBut(byHand) => q(k) \in FitBut(byHand)
  <2>1. rows[k] \in Row
    BY <1>2
  <2>2. CASE rows[k].speaker = label
    BY <2>1, <2>2 DEF Row, FitBut, Fits
  <2>3. CASE rows[k].speaker # label
    BY <2>1, <2>3
  <2>. QED
    BY <2>2, <2>3
<1> HIDE DEF q
<1>4. /\ DOMAIN rows' = DOMAIN rows /\ rows' = [k \in DOMAIN rows' |-> rows'[k]]
      /\ \A k \in DOMAIN rows : rows'[k] = q(k)
  BY <1>1
<1>5. \A k \in DOMAIN rows : rows'[k] \in Row /\ rows'[k].id = rows[k].id /\ rows'[k].words = rows[k].words
  BY <1>3, <1>4
<1>6. \A k \in DOMAIN rows : rows[k] \in FitBut(byHand) => rows'[k] \in FitBut(byHand')
  BY <1>1, <1>3, <1>4
<1>7. \A k \in DOMAIN rows : rows[k] \in Unnamed(renamed) => rows'[k] \in Unnamed(renamed')
  <2>1. Name \notin renamed /\ Name # label
    BY Types, NamesAssumption
  <2>. QED
    BY <1>1, <1>3, <1>4, <2>1 DEF Unnamed
<1>8. TextOf(rows') = TextOf(rows)
  BY <1>2, <1>4, <1>5, Replaced
<1>9. diarizations <= 1 => TextOf(rows') \in texts' /\ TypedStays'
  BY <1>1, <1>8 DEF IInv, RowsAreSound, TypedStays
<1>10. edits' \in 0..MaxEdits
  <2>1. edits \in 0..MaxEdits /\ MaxEdits \in Nat
    BY EditsAssumption DEF IInv, TypeOK
  <2>. QED
    BY <1>1, <2>1
<1>11. {"speaker"} \in SUBSET {"words", "speaker"} /\ texts \subseteq texts' /\ texts' \subseteq Seq(Words)
       /\ byHand' \subseteq Id /\ byHand \subseteq byHand'
       /\ typed' \subseteq Edits /\ renamed' \subseteq Labels /\ "speaker" \in {"speaker"}
  BY <1>1, Types
<1>. QED
  BY <1>1, <1>4, <1>5, <1>6, <1>7, <1>9, <1>10, <1>11, EditKeeps

(* set_segment_speakers: one row.                                           *)
LEMMA AssignSpeakerKeeps ==
    ASSUME IInv, NEW i \in DOMAIN rows, AssignSpeaker(i)
    PROVE  IInv'
<1> DEFINE q == [rows[i] EXCEPT !.speaker = Name]
<1>1. /\ edits < MaxEdits /\ edits' = edits + 1
      /\ rows' = [rows EXCEPT ![i] = q]
      /\ actor' = Miss(None, {"speaker"}) /\ requests' = requests /\ diarizations' = diarizations
      /\ texts' = texts /\ typed' = typed /\ renamed' = renamed /\ byHand' = byHand /\ mixed' = mixed
  BY DEF AssignSpeaker, history
<1>2. rows \in Seq(Row) /\ rows[i] \in Row /\ DOMAIN rows = 1..Len(rows)
  BY Types
<1>3. /\ q \in Row /\ q.id = rows[i].id /\ q.words = rows[i].words /\ q.speaker = Name
      /\ rows[i] \in FitBut(byHand) => q \in FitBut(byHand)
  BY <1>2 DEF Row, FitBut, Fits
<1> HIDE DEF q
<1>4. /\ DOMAIN rows' = DOMAIN rows /\ rows' = [k \in DOMAIN rows' |-> rows'[k]]
      /\ rows'[i] = q /\ \A k \in DOMAIN rows : k # i => rows'[k] = rows[k]
      /\ \A k \in DOMAIN rows : rows[k] \in Row
  BY <1>1, <1>2, RowReplaced
<1>5. \A k \in DOMAIN rows : rows'[k] \in Row /\ rows'[k].id = rows[k].id /\ rows'[k].words = rows[k].words
  BY <1>3, <1>4
<1>6. \A k \in DOMAIN rows : rows[k] \in FitBut(byHand) => rows'[k] \in FitBut(byHand')
  BY <1>1, <1>3, <1>4
<1>7. \A k \in DOMAIN rows : rows[k] \in Unnamed(renamed) => rows'[k] \in Unnamed(renamed')
  <2>1. Name \notin renamed
    BY Types, NamesAssumption
  <2>. QED
    BY <1>1, <1>3, <1>4, <2>1 DEF Unnamed
<1>8. TextOf(rows') = TextOf(rows)
  BY <1>2, <1>4, <1>5, Replaced
<1>9. diarizations <= 1 => TextOf(rows') \in texts' /\ TypedStays'
  BY <1>1, <1>8 DEF IInv, RowsAreSound, TypedStays
<1>10. edits' \in 0..MaxEdits
  <2>1. edits \in 0..MaxEdits /\ MaxEdits \in Nat
    BY EditsAssumption DEF IInv, TypeOK
  <2>. QED
    BY <1>1, <2>1
<1>11. {"speaker"} \in SUBSET {"words", "speaker"} /\ texts \subseteq texts' /\ texts' \subseteq Seq(Words)
       /\ byHand' \subseteq Id /\ byHand \subseteq byHand'
       /\ typed' \subseteq Edits /\ renamed' \subseteq Labels /\ renamed' \subseteq renamed
  BY <1>1, Types
<1>. QED
  BY <1>1, <1>4, <1>5, <1>6, <1>7, <1>9, <1>10, <1>11, EditKeeps

(* A recording nobody has touched is sound.                                 *)
LEMMA InitIsSound == Init => IInv
<1> SUFFICES ASSUME Init PROVE IInv
  OBVIOUS
<1>1. PICK translated \in BOOLEAN, who \in Labels \union {NoSpeaker} :
        rows = [i \in DOMAIN Spoken |->
                  [id |-> RowId(i), ord |-> i - 1, words |-> Spoken[i],
                   trans |-> IF translated THEN Spoken[i] ELSE <<>>,
                   status |-> IF translated THEN "final" ELSE "skipped",
                   speaker |-> who]]
  BY DEF Init
<1>2. /\ actor = [a \in Actors |-> Idle] /\ requests = 0 /\ diarizations = 0 /\ edits = 0
      /\ texts = {TextOf(rows)} /\ typed = {} /\ renamed = {} /\ byHand = {} /\ mixed = {}
  BY DEF Init
<1>3. /\ MaxRequests \in Nat /\ MaxDiarizations \in Nat /\ MaxEdits \in Nat
      /\ Spoken \in Seq(Seq(Words) \ {<<>>}) /\ DOMAIN Spoken = 1..Len(Spoken) /\ Len(Spoken) \in Nat
  BY EditsAssumption
<1> DEFINE Sure == {r \in Row : r \in Fit /\ r \in Whole /\ r \in Before(1)}
<1>4. ASSUME NEW i \in 1..Len(Spoken)
      PROVE  rows[i] \in Sure /\ rows[i].id = RowId(i)
  <2> DEFINE t == IF translated THEN Spoken[i] ELSE <<>>
             s == IF translated THEN "final" ELSE "skipped"
             r == [id |-> RowId(i), ord |-> i - 1, words |-> Spoken[i], trans |-> t,
                   status |-> s, speaker |-> who]
  <2>1. Spoken[i] \in Seq(Words) /\ Spoken[i] # <<>> /\ i \in Nat /\ i - 1 \in Nat
    BY <1>3
  <2>2. <<>> \in Seq(Nat) /\ <<>> \in Seq(Words)
    OBVIOUS
  <2>3. t \in Seq(Words) /\ s \in {"final", "skipped"} /\ (s = "final" => t = Spoken[i])
    BY <2>1, <2>2
  <2>4. /\ RowId(i) \in Id /\ RowId(i).of = "recording" /\ RowId(i).part = <<>>
    BY <2>1, <2>2 DEF RowId, Id
  <2>5. rows[i] = r
    BY <1>1, <1>3
  <2> HIDE DEF t, s
  <2>6. /\ r.id = RowId(i) /\ r.words = Spoken[i] /\ r.trans = t /\ r.status = s /\ r.speaker = who
        /\ r \in Row
    BY <2>1, <2>3, <2>4 DEF Row
  <2> HIDE DEF r
  <2>8. r \in Fit /\ r \in Whole /\ r \in Before(1)
    BY <2>1, <2>3, <2>4, <2>6 DEF Fit, Fits, Whole, Before, IsPart
  <2>. QED
    BY <2>5, <2>6, <2>8
<1>5. rows \in Seq(Sure)
  <2>1. DOMAIN rows = 1..Len(Spoken)
    BY <1>1, <1>3
  <2>2. rows = [i \in DOMAIN rows |-> rows[i]]
    BY <1>1
  <2> HIDE DEF Sure
  <2>3. rows \in [1..Len(Spoken) -> Sure]
    BY <1>4, <2>1, <2>2
  <2>. QED
    BY <1>3, <2>3, FunctionIsSeq
<1>6. ASSUME NEW T, \A r \in Sure : r \in T PROVE rows \in Seq(T)
  <2> HIDE DEF Sure
  <2>. QED
    BY <1>5, <1>6
<1>7. rows \in Seq(Row) /\ rows \in Seq(FitBut({})) /\ rows \in Seq(Whole) /\ rows \in Seq(Before(1))
  <2>1. \A r \in Sure : r \in FitBut({})
    BY NumberingKinds
  <2>2. rows \in Seq(FitBut({}))
    BY <1>6, <2>1
  <2>. QED
    BY <1>6, <2>2
<1>8. rows \in Seq(Unnamed({}))
  BY <1>6 DEF Unnamed
<1>9. DistinctIds(rows)
  <2> SUFFICES ASSUME NEW i \in DOMAIN rows, NEW j \in DOMAIN rows, i # j
               PROVE  rows[i].id # rows[j].id
    BY DEF DistinctIds
  <2>1. i \in 1..Len(Spoken) /\ j \in 1..Len(Spoken)
    BY <1>1, <1>3
  <2>2. rows[i].id = RowId(i) /\ rows[j].id = RowId(j)
    BY <1>4, <2>1
  <2>3. RowId(i).n = i /\ RowId(j).n = j
    BY DEF RowId
  <2>. QED
    BY <2>2, <2>3
<1>10. TextOf(rows) \in Seq(Words)
  BY <1>7, TextType
<1>11. TypeOK
  <2>1. \A T : <<>> \in Seq(T)
    OBVIOUS
  <2>2. Idle \in ActorType
    BY <1>3, <2>1 DEF Idle, ActorType
  <2>3. actor \in [Actors -> ActorType]
    BY <1>2, <2>2
  <2>. QED
    BY <1>2, <1>3, <1>7, <1>9, <1>10, <2>3 DEF TypeOK, ActorType
<1>12. RowsAreSound
  <2>1. requests + 1 = 1
    BY <1>2
  <2>2. TypedStays
    BY <1>2 DEF TypedStays
  <2>. QED
    BY <1>2, <1>7, <1>8, <2>1, <2>2 DEF RowsAreSound
<1>13. \A a \in Actors : Sound(actor[a])
  BY <1>2, IdleIsSound
<1>. QED
  BY <1>11, <1>12, <1>13 DEF IInv

(* A step of nobody.                                                        *)
LEMMA StutterKeeps ==
    ASSUME IInv, UNCHANGED vars
    PROVE  IInv'
<1>1. /\ rows' = rows /\ actor' = actor /\ requests' = requests /\ diarizations' = diarizations
      /\ edits' = edits /\ texts' = texts /\ typed' = typed /\ renamed' = renamed /\ byHand' = byHand /\ mixed' = mixed
  BY DEF vars
<1>2. TypeOK'
  BY <1>1 DEF IInv, TypeOK, DistinctIds
<1>3. RowsAreSound'
  BY <1>1 DEF IInv, RowsAreSound, TypedStays
<1>4. ASSUME NEW a \in Actors PROVE Sound(actor[a])'
  <2>1. Sound(actor[a])
    BY DEF IInv
  <2>. QED
    BY <1>1, <2>1 DEF Sound, IdsAreOld, IsUndivided, ReadFit, StillThere, ReadGenuine, ReadNamed, DistinctIds
<1>. QED
  BY <1>2, <1>3, <1>4 DEF IInv

(* Every step.                                                              *)
LEMMA NextKeeps ==
    ASSUME IInv, Next
    PROVE  IInv'
<1>1. ASSUME NEW a \in Actors, NEW op \in Ops, Read(a, op) PROVE IInv'
  BY <1>1, ReadKeeps
<1>2. ASSUME NEW a \in Actors, Refuse(a) PROVE IInv'
  BY <1>2, RestKeeps DEF Refuse
<1>3. ASSUME NEW a \in Actors, JobFails(a) PROVE IInv'
  BY <1>3, RestKeeps DEF JobFails
<1>4. ASSUME NEW a \in Actors, Swap(a) PROVE IInv'
  BY <1>4, SwapKeeps
<1>5. ASSUME NEW a \in Actors, TranslateNext(a) PROVE IInv'
  BY <1>5, TranslateNextKeeps
<1>6. ASSUME NEW a \in Actors, Complete(a) PROVE IInv'
  BY <1>6, RestKeeps DEF Complete
<1>7. ASSUME NEW i \in DOMAIN rows, NEW w \in Entered, EditText(i, w) PROVE IInv'
  BY <1>7, EditTextKeeps
<1>8. ASSUME NEW i \in DOMAIN rows, NEW t \in Entered \union {rows[i].words}, EditTranslation(i, t)
      PROVE  IInv'
  BY <1>8, EditTranslationKeeps
<1>9. ASSUME NEW i \in DOMAIN rows, AssignSpeaker(i) PROVE IInv'
  BY <1>9, AssignSpeakerKeeps
<1>10. ASSUME NEW label \in Labels, RenameSpeaker(label) PROVE IInv'
  BY <1>10, RenameSpeakerKeeps
<1>. QED
  BY <1>1, <1>2, <1>3, <1>4, <1>5, <1>6, <1>7, <1>8, <1>9, <1>10 DEF Next

-----------------------------------------------------------------------------
(* The inductive invariant holds of every number of actors, requests,        *)
(* diarizations and edits, and of every recording.                           *)
THEOREM StaysSound == Spec => []IInv
<1>1. IInv /\ [Next]_vars => IInv'
  BY NextKeeps, StutterKeeps
<1>. QED
  BY <1>1, InitIsSound, PTL DEF Spec

(* What the invariant says of translations,                                 *)
LEMMA SoundRowsFit == IInv => TranslationsFit
<1> SUFFICES ASSUME IInv PROVE TranslationsFit
  OBVIOUS
<1>1. ASSUME "words" \notin mixed, NEW i \in DOMAIN rows PROVE rows[i] \in FitBut(byHand)
  <2>1. rows \in Seq(FitBut(byHand))
    BY <1>1 DEF IInv, RowsAreSound
  <2>. QED
    BY <2>1
<1>2. FinalFitsText
  BY <1>1 DEF FinalFitsText, FitBut, Fits
<1>3. EmptyRowIsLate
  BY <1>1 DEF EmptyRowIsLate, FitBut, Fits
<1>. QED
  BY <1>2, <1>3 DEF IInv, TranslationsFit

(* of names,                                                                *)
LEMMA SoundRowsAreNamed == IInv => NamedStays
<1> SUFFICES ASSUME IInv, "speaker" \notin mixed, NEW i \in DOMAIN rows
             PROVE  rows[i].speaker \notin renamed
  BY DEF NamedStays
<1>1. rows \in Seq(Unnamed(renamed))
  BY DEF IInv, RowsAreSound
<1>. QED
  BY <1>1 DEF Unnamed

(* A row is what the store's schema says, no id is used twice, no row is      *)
(* without a text and a final translation is one of the text beside it, but  *)
(* for rows a user left otherwise or that were merged with such, unless      *)
(* somebody has written back rows over words it had not seen: through every  *)
(* split, merge, diarization, translation, pass and edit, an empty text or   *)
(* translation among them (store.py:860, store.py:1067).                     *)
THEOREM TranslationsStayFit == Spec => []TranslationsFit
BY StaysSound, SoundRowsFit, PTL

(* A speaker a user has named keeps the name, however often the recording is *)
(* diarized (refine.py:279).                                                 *)
THEOREM NamesStay == Spec => []NamedStays
BY StaysSound, SoundRowsAreNamed, PTL

(* Up to the second diarization no word is doubled or moved, none is lost but *)
(* the later turns of rows found silent (core/diarize.py:600), and the words *)
(* a user typed stay where they were heard.                                  *)
THEOREM TextStaysUpToSecond ==
    Spec => [](diarizations <= 1 => TextIsGenuine /\ EditsStay)
<1>1. IInv => (diarizations <= 1 => TextIsGenuine /\ EditsStay)
  BY SoundRowsAreNamed DEF IInv, RowsAreSound, TextIsGenuine, EditsStay
<1>. QED
  BY <1>1, StaysSound, PTL

(* and of a session diarized once.                                          *)
LEMMA OneDiarization ==
    ASSUME MaxDiarizations <= 1
    PROVE  IInv => TextIsGenuine /\ EditsStay
<1> SUFFICES ASSUME IInv PROVE TextIsGenuine /\ EditsStay
  OBVIOUS
<1>1. diarizations <= 1
  BY Types, EditsAssumption
<1>. QED
  BY <1>1, SoundRowsAreNamed DEF IInv, RowsAreSound, TextIsGenuine, EditsStay

(* Where a session is diarized once at most, its text is always one that was *)
(* recorded, typed or heard by a pass, or what silence left of one           *)
(* (core/resegment.py, core/diarize.py:600).                                 *)
THEOREM TextStaysGenuine ==
    ASSUME MaxDiarizations <= 1
    PROVE  Spec => []TextIsGenuine
BY OneDiarization, StaysSound, PTL

(* There too, what a user changed by hand stays changed, silent rows apart    *)
(* (api/segments.py:57, core/diarize.py:600).                                *)
THEOREM EditsAlwaysStay ==
    ASSUME MaxDiarizations <= 1
    PROVE  Spec => []EditsStay
BY OneDiarization, StaysSound, PTL
=============================================================================
