------------------------- MODULE WebhookSetup_proofs -------------------------
(***************************************************************************)
(* What TLAPS proves of WebhookSetup, for any profiles, hooks, request     *)
(* threads and tokens: a request that nothing disturbed leaves the router  *)
(* as asked and reports what there is, and no rewrite loses a line of the  *)
(* operator's.                                                             *)
(*                                                                         *)
(* The argument: whatever lines a profile script has, a rewrite made from  *)
(* it leaves it as asked (RewrittenScript), and looks at no more than the  *)
(* script it replaces or the one that was fetched; as long as a request is *)
(* clean the profiles it has been through are as asked, the others as      *)
(* fetched, and the router's script as it was put (Undisturbed).           *)
(***************************************************************************)
EXTENDS WebhookSetup, InductionLemmas, SequenceTheorems

-----------------------------------------------------------------------------
\* The lines kept

Keeps(f, s, S) == f = [i \in 0..Len(s) |-> IF i = 0 THEN <<>>
                                           ELSE IF s[i] \in S THEN Append(f[i - 1], s[i])
                                           ELSE f[i - 1]]

LEMMA OnlyChosen ==
  ASSUME NEW s, NEW S
  PROVE  Only(s, S) = (CHOOSE f : Keeps(f, s, S))[Len(s)]
  BY DEF Only, Keeps

LEMMA KeepsEach ==
  ASSUME NEW f, NEW s, NEW S, Keeps(f, s, S), Len(s) \in Nat
  PROVE  /\ f[0] = <<>>
         /\ \A i \in 1..Len(s) : f[i] = IF s[i] \in S THEN Append(f[i - 1], s[i]) ELSE f[i - 1]
<1>1. \A i \in 0..Len(s) : f[i] = IF i = 0 THEN <<>>
                                  ELSE IF s[i] \in S THEN Append(f[i - 1], s[i])
                                  ELSE f[i - 1]
  BY Zenon DEF Keeps
<1> QED
  BY <1>1

LEMMA KeepsExists ==
  ASSUME NEW L, NEW S
  PROVE  \A s \in Seq(L) : \E f : Keeps(f, s, S)
<1> DEFINE G == {s \in Seq(L) : \E f : Keeps(f, s, S)}
<1>1. <<>> \in G
  <2> DEFINE f == [i \in {0} |-> <<>>]
  <2>1. 0..Len(<<>>) = {0}
    OBVIOUS
  <2>2. \A i \in {0} : i = 0
    OBVIOUS
  <2>3. Keeps(f, <<>>, S)
    BY <2>1 DEF Keeps
  <2> QED
    BY <2>3
<1>2. ASSUME NEW s \in G, NEW x \in L PROVE Append(s, x) \in G
  <2> DEFINE t == Append(s, x)
             n == Len(s)
  <2>1. PICK f : Keeps(f, s, S)
    OBVIOUS
  <2> DEFINE g == [i \in 0..(n + 1) |-> IF i = n + 1 THEN IF x \in S THEN Append(f[n], x) ELSE f[n]
                                        ELSE f[i]]
  <2>2. n \in Nat /\ t \in Seq(L) /\ Len(t) = n + 1 /\ t[n + 1] = x /\ \A i \in 1..n : t[i] = s[i]
    OBVIOUS
  <2>3. \A i \in 0..n : g[i] = f[i]
    BY <2>2
  <2>4. f[0] = <<>> /\ \A i \in 1..n : f[i] = IF s[i] \in S THEN Append(f[i - 1], s[i]) ELSE f[i - 1]
    BY <2>1, <2>2, KeepsEach
  <2>5. \A i \in 0..(n + 1) : g[i] = IF i = 0 THEN <<>>
                                     ELSE IF t[i] \in S THEN Append(g[i - 1], t[i])
                                     ELSE g[i - 1]
    <3> SUFFICES ASSUME NEW i \in 0..(n + 1)
                 PROVE  g[i] = IF i = 0 THEN <<>> ELSE IF t[i] \in S THEN Append(g[i - 1], t[i]) ELSE g[i - 1]
      OBVIOUS
    <3>1. CASE i = 0
      BY <2>2, <2>3, <2>4, <3>1
    <3>2. CASE i = n + 1
      <4>1. g[i] = IF x \in S THEN Append(f[n], x) ELSE f[n]
        BY <3>2
      <4>2. i - 1 = n /\ g[i - 1] = f[n] /\ i # 0
        BY <2>2, <2>3, <3>2
      <4> HIDE DEF g, t, n
      <4> QED
        BY <2>2, <3>2, <4>1, <4>2
    <3>3. CASE i \in 1..n
      <4>1. i - 1 \in 0..n /\ i \in 0..n /\ i # 0
        BY <2>2, <3>3
      <4>2. g[i] = f[i] /\ g[i - 1] = f[i - 1]
        BY <2>3, <4>1
      <4> HIDE DEF g, t, n
      <4> QED
        BY <2>2, <2>4, <3>3, <4>1, <4>2
    <3> QED
      BY <2>2, <3>1, <3>2, <3>3
  <2>6. g = [i \in 0..(n + 1) |-> g[i]]
    OBVIOUS
  <2>7. Keeps(g, t, S)
    <3> HIDE DEF g, t, n
    <3> QED
      BY <2>2, <2>5, <2>6, Zenon DEF Keeps
  <2> HIDE DEF g, t, n
  <2>8. t \in G
    BY <2>2, <2>7
  <2> QED
    BY <2>8 DEF t
<1>3. \A s \in Seq(L) : s \in G => \A x \in L : Append(s, x) \in G
  BY <1>2
<1> HIDE DEF G
<1>4. \A s \in Seq(L) : s \in G
  BY <1>1, <1>3, SequencesByAppend
<1> QED
  BY <1>4 DEF G

LEMMA OnlyKeeps ==
  ASSUME NEW L, NEW s \in Seq(L), NEW S
  PROVE  \E f : Keeps(f, s, S) /\ f[Len(s)] = Only(s, S)
<1>1. \E f : Keeps(f, s, S)
  BY KeepsExists
<1>2. Keeps(CHOOSE f : Keeps(f, s, S), s, S)
  BY <1>1
<1> QED
  BY <1>2, OnlyChosen

LEMMA OnlyOfNone ==
  ASSUME NEW S
  PROVE  Only(<<>>, S) = <<>>
<1>1. <<>> \in Seq({}) /\ Len(<<>>) = 0
  OBVIOUS
<1>2. PICK f : Keeps(f, <<>>, S) /\ f[0] = Only(<<>>, S)
  BY <1>1, OnlyKeeps
<1>3. f[0] = <<>>
  BY <1>1, <1>2, KeepsEach
<1> QED
  BY <1>2, <1>3

LEMMA OnlyAppend ==
  ASSUME NEW L, NEW s \in Seq(L), NEW x \in L, NEW S
  PROVE  Only(Append(s, x), S) = IF x \in S THEN Append(Only(s, S), x) ELSE Only(s, S)
<1> DEFINE t == Append(s, x)
           n == Len(s)
<1>1. n \in Nat /\ t \in Seq(L) /\ Len(t) = n + 1 /\ t[n + 1] = x /\ \A i \in 1..n : t[i] = s[i]
  OBVIOUS
<1>2. PICK f : Keeps(f, s, S) /\ f[n] = Only(s, S)
  BY OnlyKeeps
<1>3. PICK g : Keeps(g, t, S) /\ g[Len(t)] = Only(t, S)
  BY <1>1, OnlyKeeps
<1>4. f[0] = <<>> /\ \A i \in 1..n : f[i] = IF s[i] \in S THEN Append(f[i - 1], s[i]) ELSE f[i - 1]
  BY <1>1, <1>2, KeepsEach
<1> HIDE DEF t, n
<1>5. g[0] = <<>> /\ \A i \in 1..(n + 1) : g[i] = IF t[i] \in S THEN Append(g[i - 1], t[i]) ELSE g[i - 1]
  <2>1. Len(t) \in Nat
    BY <1>1
  <2>2. g[0] = <<>> /\ \A i \in 1..Len(t) : g[i] = IF t[i] \in S THEN Append(g[i - 1], t[i]) ELSE g[i - 1]
    BY <1>3, <2>1, KeepsEach
  <2> QED
    BY <1>1, <2>2
<1>6. \A i \in Nat : i <= n => f[i] = g[i]
  <2> DEFINE T == {i \in Nat : i <= n => f[i] = g[i]}
  <2>1. 0 \in T
    BY <1>4, <1>5
  <2>2. ASSUME NEW i \in T PROVE i + 1 \in T
    BY <1>1, <1>4, <1>5
  <2>3. T = Nat
    <3> HIDE DEF T
    <3>1. T \in SUBSET Nat
      BY DEF T
    <3> QED
      BY <2>1, <2>2, <3>1, NaturalsBySuccessor
  <2> QED
    BY <2>3
<1>7. f[n] = g[n] /\ g[n + 1] = IF x \in S THEN Append(g[n], x) ELSE g[n]
  BY <1>1, <1>5, <1>6
<1>8. Only(t, S) = g[n + 1]
  BY <1>1, <1>3
<1>9. Only(t, S) = IF x \in S THEN Append(Only(s, S), x) ELSE Only(s, S)
  BY <1>2, <1>7, <1>8
<1> QED
  BY <1>9 DEF t

LEMMA OnlyType ==
  ASSUME NEW L, NEW S
  PROVE  \A s \in Seq(L) : Only(s, S) \in Seq(L \cap S)
<1> DEFINE G == {s \in Seq(L) : Only(s, S) \in Seq(L \cap S)}
<1>1. <<>> \in G
  <2>1. Only(<<>>, S) = <<>> /\ <<>> \in Seq(L) /\ <<>> \in Seq(L \cap S)
    BY OnlyOfNone
  <2> QED
    BY <2>1
<1>2. ASSUME NEW s \in Seq(L), s \in G, NEW x \in L PROVE Append(s, x) \in G
  <2>1. Only(Append(s, x), S) = IF x \in S THEN Append(Only(s, S), x) ELSE Only(s, S)
    BY OnlyAppend
  <2>2. Append(s, x) \in Seq(L)
    OBVIOUS
  <2>3. Only(s, S) \in Seq(L \cap S) /\ (x \in S => x \in L \cap S)
    BY <1>2
  <2>4. Only(Append(s, x), S) \in Seq(L \cap S)
    BY <2>1, <2>3
  <2> QED
    BY <2>2, <2>4
<1> HIDE DEF G
<1>3. \A s \in Seq(L) : s \in G
  BY <1>1, <1>2, SequencesByAppend
<1> QED
  BY <1>3 DEF G

LEMMA OnlyLines ==
  ASSUME NEW L, NEW S
  PROVE  \A s \in Seq(L) : Only(s, S) \in Seq(L) /\ \A i \in 1..Len(Only(s, S)) : Only(s, S)[i] \in S
<1> TAKE s \in Seq(L)
<1>1. Only(s, S) \in Seq(L \cap S)
  BY OnlyType
<1> QED
  BY <1>1

LEMMA OnlyConcat ==
  ASSUME NEW L, NEW S, NEW s \in Seq(L)
  PROVE  \A t \in Seq(L) : Only(s \o t, S) = Only(s, S) \o Only(t, S)
<1> DEFINE G == {t \in Seq(L) : Only(s \o t, S) = Only(s, S) \o Only(t, S)}
<1>0. \A t \in Seq(L) : Only(t, S) \in Seq(L)
  BY OnlyLines
<1>1. <<>> \in G
  <2>1. s \o <<>> = s /\ Only(s, S) \o <<>> = Only(s, S)
    BY <1>0, ConcatEmptySeq
  <2>2. Only(<<>>, S) = <<>> /\ <<>> \in Seq(L)
    BY OnlyOfNone
  <2> QED
    BY <2>1, <2>2
<1>2. ASSUME NEW t \in Seq(L), t \in G, NEW x \in L PROVE Append(t, x) \in G
  <2>1. Only(Append(t, x), S) = IF x \in S THEN Append(Only(t, S), x) ELSE Only(t, S)
    BY OnlyAppend
  <2>2. s \o t \in Seq(L) /\ s \o Append(t, x) = Append(s \o t, x)
    OBVIOUS
  <2>3. Only(Append(s \o t, x), S) = IF x \in S THEN Append(Only(s \o t, S), x) ELSE Only(s \o t, S)
    BY <2>2, OnlyAppend
  <2>4. Only(s \o t, S) = Only(s, S) \o Only(t, S)
    BY <1>2
  <2>5. Append(Only(s, S) \o Only(t, S), x) = Only(s, S) \o Append(Only(t, S), x)
    <3>1. <<x>> \in Seq(L) /\ Only(s, S) \in Seq(L) /\ Only(t, S) \in Seq(L)
      BY <1>0
    <3>2. Only(s, S) \o Only(t, S) \in Seq(L)
      BY <3>1
    <3>3. Append(Only(s, S) \o Only(t, S), x) = (Only(s, S) \o Only(t, S)) \o <<x>>
      BY <3>2, AppendIsConcat
    <3>4. Append(Only(t, S), x) = Only(t, S) \o <<x>>
      BY <3>1, AppendIsConcat
    <3>5. (Only(s, S) \o Only(t, S)) \o <<x>> = Only(s, S) \o (Only(t, S) \o <<x>>)
      BY <3>1, ConcatAssociative
    <3> QED
      BY <3>3, <3>4, <3>5
  <2>6. Only(s \o Append(t, x), S) = Only(s, S) \o Only(Append(t, x), S)
    BY <2>1, <2>2, <2>3, <2>4, <2>5
  <2>7. Append(t, x) \in Seq(L)
    OBVIOUS
  <2> QED
    BY <2>6, <2>7
<1> HIDE DEF G
<1>3. \A t \in Seq(L) : t \in G
  BY <1>1, <1>2, SequencesByAppend
<1> QED
  BY <1>3 DEF G

LEMMA OnlyEmpty ==
  ASSUME NEW L, NEW S
  PROVE  \A s \in Seq(L) : Only(s, S) = <<>> <=> \A i \in 1..Len(s) : s[i] \notin S
<1> DEFINE G == {s \in Seq(L) : Only(s, S) = <<>> <=> \A i \in 1..Len(s) : s[i] \notin S}
<1>1. <<>> \in G
  BY OnlyOfNone
<1>2. ASSUME NEW s \in Seq(L), s \in G, NEW x \in L PROVE Append(s, x) \in G
  <2> DEFINE t == Append(s, x)
  <2>1. Only(t, S) = IF x \in S THEN Append(Only(s, S), x) ELSE Only(s, S)
    BY OnlyAppend
  <2>2. t \in Seq(L) /\ Len(t) = Len(s) + 1 /\ t[Len(s) + 1] = x /\ \A i \in 1..Len(s) : t[i] = s[i]
    OBVIOUS
  <2>3. Only(s, S) \in Seq(L)
    BY OnlyLines
  <2>4. Append(Only(s, S), x) # <<>>
    BY <2>3
  <2>5. Only(s, S) = <<>> <=> \A i \in 1..Len(s) : s[i] \notin S
    BY <1>2
  <2>6. Len(s) \in Nat
    OBVIOUS
  <2> HIDE DEF t, G
  <2>7. (\A i \in 1..Len(t) : t[i] \notin S) <=> x \notin S /\ \A i \in 1..Len(s) : s[i] \notin S
    <3>1. \A i : i \in 1..Len(t) <=> i \in 1..Len(s) \/ i = Len(s) + 1
      BY <2>2, <2>6
    <3> QED
      BY <2>2, <3>1
  <2>8. Only(t, S) = <<>> <=> \A i \in 1..Len(t) : t[i] \notin S
    BY <2>1, <2>4, <2>5, <2>7
  <2> QED
    BY <2>2, <2>8 DEF G, t
<1> HIDE DEF G
<1>3. \A s \in Seq(L) : s \in G
  BY <1>1, <1>2, SequencesByAppend
<1> QED
  BY <1>3 DEF G

LEMMA OnlyTwice ==
  ASSUME NEW L, NEW S, NEW R, S \subseteq R
  PROVE  \A s \in Seq(L) : Only(Only(s, R), S) = Only(s, S)
<1> DEFINE G == {s \in Seq(L) : Only(Only(s, R), S) = Only(s, S)}
<1>1. <<>> \in G
  BY OnlyOfNone
<1>2. ASSUME NEW s \in Seq(L), s \in G, NEW x \in L PROVE Append(s, x) \in G
  <2>1. Only(s, R) \in Seq(L) /\ Append(s, x) \in Seq(L)
    BY OnlyLines
  <2>2. Only(Append(s, x), R) = IF x \in R THEN Append(Only(s, R), x) ELSE Only(s, R)
    BY OnlyAppend
  <2>3. Only(Append(s, x), S) = IF x \in S THEN Append(Only(s, S), x) ELSE Only(s, S)
    BY OnlyAppend
  <2>4. Only(Append(Only(s, R), x), S)
          = IF x \in S THEN Append(Only(Only(s, R), S), x) ELSE Only(Only(s, R), S)
    BY <2>1, OnlyAppend
  <2>5. Only(Only(s, R), S) = Only(s, S)
    BY <1>2
  <2>6. Only(Only(Append(s, x), R), S) = Only(Append(s, x), S)
    BY <2>2, <2>3, <2>4, <2>5
  <2> QED
    BY <2>1, <2>6
<1> HIDE DEF G
<1>3. \A s \in Seq(L) : s \in G
  BY <1>1, <1>2, SequencesByAppend
<1> QED
  BY <1>3 DEF G

LEMMA OnlyFirst ==
  ASSUME NEW L, NEW S, NEW s \in Seq(L), NEW x \in L
  PROVE  Only(<<x>> \o s, S) = IF x \in S THEN <<x>> \o Only(s, S) ELSE Only(s, S)
<1>1. <<x>> = Append(<<>>, x) /\ <<x>> \in Seq(L) /\ <<>> \in Seq(L)
  OBVIOUS
<1>2. Only(<<x>>, S) = IF x \in S THEN <<x>> ELSE <<>>
  <2>1. Only(Append(<<>>, x), S) = IF x \in S THEN Append(Only(<<>>, S), x) ELSE Only(<<>>, S)
    BY <1>1, OnlyAppend
  <2>2. Only(<<>>, S) = <<>>
    BY OnlyOfNone
  <2> QED
    BY <1>1, <2>1, <2>2
<1>3. Only(<<x>> \o s, S) = Only(<<x>>, S) \o Only(s, S)
  BY <1>1, OnlyConcat
<1>4. <<>> \o Only(s, S) = Only(s, S)
  <2>1. Only(s, S) \in Seq(L)
    BY OnlyLines
  <2> QED
    BY <2>1
<1> QED
  BY <1>2, <1>3, <1>4

-----------------------------------------------------------------------------
\* Profile scripts

Own(s) == Only(s, {"own"})
Hookless(s) == \A i \in 1..Len(s) : s[i] # "hook"
HookFirst(s) == \E t \in Seq(Lines) : Hookless(t) /\ s = <<"hook">> \o t

LEMMA HookedOrNot ==
  ASSUME NEW s \in Seq(Lines)
  PROVE  IsHooked(s) <=> ~Hookless(s)
  BY DEF IsHooked, Hookless, ToSet

LEMMA OwnLinesOnly ==
  ASSUME NEW s \in Seq(Lines)
  PROVE  OwnLines(s) \in Seq(Lines) /\ Hookless(OwnLines(s)) /\ Own(OwnLines(s)) = Own(s)
<1>1. OwnLines(s) \in Seq(Lines) /\ Hookless(OwnLines(s))
  BY OnlyLines DEF OwnLines, Hookless
<1>2. {"own"} \subseteq Lines \ {"hook"}
  BY DEF Lines
<1>3. Own(OwnLines(s)) = Own(s)
  BY <1>2, OnlyTwice DEF Own, OwnLines
<1> QED
  BY <1>1, <1>3

LEMMA BlankHasNoneOfIts ==
  ASSUME NEW s \in Seq(Lines), Blank(s)
  PROVE  Own(s) = <<>> /\ Hookless(s)
<1>1. \A i \in 1..Len(s) : s[i] = "blank"
  BY DEF Blank, ToSet
<1>2. \A i \in 1..Len(s) : s[i] \notin {"own"}
  BY <1>1
<1> QED
  BY <1>1, <1>2, OnlyEmpty DEF Own, Hookless

\* The blank lines that are skipped.
LEMMA SkipBlankCuts ==
  ASSUME NEW s \in Seq(Lines)
  PROVE  \E n \in 0..Len(s) : Blank(SubSeq(s, 1, n)) /\ SkipBlank(s) = SubSeq(s, 1 + n, Len(s))
<1> DEFINE B == {n \in 0..Len(s) : Blank(SubSeq(s, 1, n))}
           C == {Len(s) - n : n \in B}
<1>0. Len(s) \in Nat
  OBVIOUS
<1>1. 0 \in B
  <2>1. SubSeq(s, 1, 0) = <<>>
    OBVIOUS
  <2>2. Blank(SubSeq(s, 1, 0))
    BY <2>1 DEF Blank, ToSet
  <2> QED
    BY <1>0, <2>2
<1>2. B \subseteq 0..Len(s)
  OBVIOUS
<1> HIDE DEF B
<1>3. C \in SUBSET Nat /\ C # {}
  BY <1>0, <1>1, <1>2
<1>4. PICK c \in C : \A d \in C : c <= d
  BY <1>3, LeastNatural
<1>5. PICK m \in B : c = Len(s) - m
  OBVIOUS
<1>6. \A n \in B : m >= n
  <2> TAKE n \in B
  <2>1. Len(s) - n \in C
    OBVIOUS
  <2>2. Len(s) - m <= Len(s) - n
    BY <1>4, <1>5, <2>1
  <2> QED
    BY <1>0, <1>2, <2>2
<1>7. Max(B) \in B
  BY <1>6 DEF Max
<1> QED
  BY <1>7 DEF SkipBlank, B

LEMMA SkipBlankKeeps ==
  ASSUME NEW s \in Seq(Lines)
  PROVE  /\ SkipBlank(s) \in Seq(Lines)
         /\ Hookless(s) => Hookless(SkipBlank(s))
         /\ Own(SkipBlank(s)) = Own(s)
<1>1. PICK n \in 0..Len(s) : Blank(SubSeq(s, 1, n)) /\ SkipBlank(s) = SubSeq(s, 1 + n, Len(s))
  BY SkipBlankCuts
<1> DEFINE t == SubSeq(s, 1, n)
           u == SubSeq(s, 1 + n, Len(s))
<1>2. t \in Seq(Lines) /\ u \in Seq(Lines) /\ s = t \o u
  <2>0. 1 \in 1..Len(s) + 1 /\ n \in 1 - 1..Len(s) /\ Len(s) \in n..Len(s) /\ 1 + n = n + 1
    OBVIOUS
  <2>1. SubSeq(s, 1, n) \o SubSeq(s, n + 1, Len(s)) = SubSeq(s, 1, Len(s))
    BY <2>0, ConcatAdjacentSubSeq
  <2>2. SubSeq(s, 1, Len(s)) = s /\ u = SubSeq(s, n + 1, Len(s))
    <3>1. SubSeq(s, 1, Len(s)) = s
      BY SubSeqFull
    <3> QED
      BY <2>0, <3>1
  <2>3. t \in Seq(Lines) /\ u \in Seq(Lines)
    OBVIOUS
  <2> QED
    BY <2>1, <2>2, <2>3
<1>3. Len(u) = Len(s) - n /\ \A i \in 1..Len(u) : u[i] = s[n + i]
  OBVIOUS
<1>4. Hookless(s) => Hookless(u)
  BY <1>3 DEF Hookless
<1>5. Own(s) = Own(t) \o Own(u)
  BY <1>2, OnlyConcat DEF Own
<1>6. Own(t) = <<>>
  BY <1>1, <1>2, BlankHasNoneOfIts
<1>7. Own(u) \in Seq(Lines)
  BY <1>2, OnlyLines DEF Own
<1>8. Own(s) = Own(u)
  BY <1>5, <1>6, <1>7
<1> QED
  BY <1>1, <1>2, <1>4, <1>8

LEMMA WithoutHookUnhooks ==
  ASSUME NEW s \in Seq(Lines)
  PROVE  WithoutHook(s) \in Seq(Lines) /\ Hookless(WithoutHook(s)) /\ Own(WithoutHook(s)) = Own(s)
<1>1. CASE IsHooked(s)
  <2>1. OwnLines(s) \in Seq(Lines) /\ Hookless(OwnLines(s)) /\ Own(OwnLines(s)) = Own(s)
    BY OwnLinesOnly
  <2>2. WithoutHook(s) = SkipBlank(OwnLines(s))
    BY <1>1 DEF WithoutHook
  <2> QED
    BY <2>1, <2>2, SkipBlankKeeps
<1>2. CASE ~IsHooked(s)
  BY <1>2, HookedOrNot DEF WithoutHook
<1> QED
  BY <1>1, <1>2

\* A line at the top is one the operator does not miss.
LEMMA HookOnTop ==
  ASSUME NEW s \in Seq(Lines)
  PROVE  <<"hook">> \o s \in Seq(Lines) /\ Own(<<"hook">> \o s) = Own(s)
<1>1. "hook" \in Lines /\ "hook" \notin {"own"}
  BY DEF Lines
<1>2. Own(<<"hook">> \o s) = Own(s)
  BY <1>1, OnlyFirst DEF Own
<1> QED
  BY <1>1, <1>2

LEMMA WithHookHooks ==
  ASSUME NEW s \in Seq(Lines)
  PROVE  WithHook(s) \in Seq(Lines) /\ HookFirst(WithHook(s)) /\ Own(WithHook(s)) = Own(s)
<1> DEFINE rest == WithoutHook(s)
           t == IF Blank(rest) THEN <<>> ELSE rest
<1>1. rest \in Seq(Lines) /\ Hookless(rest) /\ Own(rest) = Own(s)
  BY WithoutHookUnhooks
<1>2. t \in Seq(Lines) /\ Hookless(t) /\ Own(t) = Own(s)
  <2>1. CASE Blank(rest)
    <3>1. Own(rest) = <<>>
      BY <1>1, <2>1, BlankHasNoneOfIts
    <3>2. Own(<<>>) = <<>>
      BY OnlyOfNone DEF Own
    <3>3. t = <<>> /\ <<>> \in Seq(Lines) /\ Hookless(<<>>)
      BY <2>1 DEF Hookless
    <3> HIDE DEF t, rest
    <3> QED
      BY <1>1, <3>1, <3>2, <3>3
  <2>2. CASE ~Blank(rest)
    <3>1. t = rest
      BY <2>2
    <3> HIDE DEF t, rest
    <3> QED
      BY <1>1, <3>1
  <2> QED
    BY <2>1, <2>2
<1>3. WithHook(s) = <<"hook">> \o t
  BY DEF WithHook
<1> HIDE DEF t
<1> QED
  BY <1>2, <1>3, HookOnTop DEF HookFirst

\* What a script with the hook calls, and one without.
LEMMA CallsOf ==
  ASSUME NEW s \in Seq(Lines)
  PROVE  /\ Hookless(s) <=> Only(s, {"hook"}) = <<>>
         /\ HookFirst(s) => Only(s, {"hook"}) = <<"hook">> /\ Head(s) = "hook"
<1>1. \A t \in Seq(Lines) : Hookless(t) <=> Only(t, {"hook"}) = <<>>
  <2> TAKE t \in Seq(Lines)
  <2>1. Only(t, {"hook"}) = <<>> <=> \A i \in 1..Len(t) : t[i] \notin {"hook"}
    BY OnlyEmpty
  <2> QED
    BY <2>1 DEF Hookless
<1>2. ASSUME NEW t \in Seq(Lines), Hookless(t), s = <<"hook">> \o t
      PROVE  Only(s, {"hook"}) = <<"hook">> /\ Head(s) = "hook"
  <2>1. "hook" \in Lines
    BY DEF Lines
  <2>2. Only(s, {"hook"}) = <<"hook">> \o Only(t, {"hook"})
    BY <1>2, <2>1, OnlyFirst
  <2>3. Only(t, {"hook"}) = <<>>
    BY <1>1, <1>2
  <2> QED
    BY <1>2, <2>2, <2>3
<1> QED
  BY <1>1, <1>2 DEF HookFirst

LEMMA HookIsFirst ==
  ASSUME NEW s \in Seq(Lines), HookFirst(s)
  PROVE  ~Hookless(s)
<1>1. Only(s, {"hook"}) = <<"hook">>
  BY CallsOf
<1> QED
  BY <1>1, CallsOf

-----------------------------------------------------------------------------
\* Requests

Installs == {"install", "paste_install"}
Removes == {"uninstall", "paste_uninstall"}
Finished(kind, s) ==
  /\ kind \in Installs => ~Hookless(s)
  /\ kind = "install" => HookFirst(s)
  /\ kind \in Removes => Hookless(s)
ThereIn(P) == {p \in Profiles : P[p] # NoProfile}

\* The order of a request's steps.
InOrder(o) ==
  /\ o.kind = "none" <=> o.step = "idle"
  /\ o.step = "put" => o.kind \in Installs
  /\ o.kind = "check" => o.step \notin {"put", "fetch", "profiles"}
  /\ o.step = "profiles" /\ o.kind \notin Pastes => \A p \in o.todo : o.seen[p] # NoProfile

\* Where a request that nothing disturbed stands: the router's token is t, its script has
\* token c and its profiles are P.
Undisturbed(o, t, c, P) == o.clean /\ o.step # "idle" =>
  /\ o.token = t
  /\ o.kind \in Installs /\ o.step # "put" => c = o.token
  /\ o.step = "profiles" =>
       /\ o.kind \notin Pastes => \A p \in o.todo : o.seen[p] = P[p]
       /\ \A p \in ThereIn(P) \ o.todo, h \in Hooks : Finished(o.kind, P[p][h])
  /\ o.step \in {"script", "status", "done"} =>
       /\ \A p \in ThereIn(P), h \in Hooks : Finished(o.kind, P[p][h])
       /\ o.kind \in Removes => c = 0
  /\ o.step \in {"status", "done"} /\ o.kind \notin Pastes /\ o.script = "current" => c = t
  /\ o.step = "done" /\ o.kind \notin Pastes =>
       o.unhooked = {p \in ThereIn(P) : \E h \in Hooks : ~IsHooked(P[p][h])}

Stands(o, t, c, P) == o \in RequestStates /\ InOrder(o) /\ Undisturbed(o, t, c, P)

SetupInv ==
  /\ SetupTypeOK
  /\ \A r \in Requests : Stands(op[r], token, script, profile)

LEMMA ScriptsThere ==
  ASSUME NEW P \in [Profiles -> Scripts], NEW p \in ThereIn(P), NEW h \in Hooks
  PROVE  P[p] \in [Hooks -> Seq(Lines)] /\ P[p][h] \in Seq(Lines)
  BY DEF Scripts, ThereIn

\* The scripts of a profile are not what stands for none.
LEMMA ScriptsAreThere ==
  ASSUME NEW s \in [Hooks -> Seq(Lines)]
  PROVE  s # NoProfile
<1>1. PICK h \in Hooks : TRUE
  BY SetupConstants
<1>2. "absent" \notin Lines
  BY DEF Lines
<1>3. <<"absent">> \notin Seq(Lines)
  <2>1. Len(<<"absent">>) = 1 /\ <<"absent">>[1] = "absent"
    <3>1. <<"absent">> = Append(<<>>, "absent") /\ <<>> \in Seq({"absent"}) /\ Len(<<>>) = 0
      OBVIOUS
    <3> QED
      BY <3>1, AppendProperties
  <2>2. ASSUME NEW x \in Seq(Lines), Len(x) = 1 PROVE x[1] \in Lines
    <3>1. 1 \in 1..Len(x)
      BY <2>2
    <3> QED
      BY <3>1, ElementOfSeq
  <2> QED
    BY <1>2, <2>1, <2>2
<1> QED
  BY <1>1, <1>3 DEF NoProfile

\* A request that is disturbed is as it was, but not clean.
LEMMA TaintedKept ==
  ASSUME NEW o \in RequestStates, InOrder(o), NEW t, NEW c, NEW P
  PROVE  Stands(Tainted(o), t, c, P) /\ Tainted(o).step = o.step
<1>1. CASE o.step = "idle"
  BY <1>1 DEF Tainted, Stands, Undisturbed
<1>2. CASE o.step # "idle"
  <2>1. Tainted(o) = [o EXCEPT !.clean = FALSE]
    BY <1>2 DEF Tainted
  <2>2. /\ Tainted(o) \in RequestStates /\ Tainted(o).clean = FALSE /\ Tainted(o).step = o.step
        /\ Tainted(o).kind = o.kind /\ Tainted(o).todo = o.todo /\ Tainted(o).seen = o.seen
    BY <2>1 DEF RequestStates
  <2> QED
    BY <2>2 DEF Stands, Undisturbed, InOrder
<1> QED
  BY <1>1, <1>2

\* What the other requests are when r takes a step that disturbs them, and when not.
LEMMA OthersKept ==
  ASSUME SetupInv, NEW r \in Requests, NEW b, NEW changed \in BOOLEAN,
         b = IF changed THEN Disturb(r) ELSE op,
         NEW c, NEW P, ~changed => c = script /\ P = profile
  PROVE  /\ b \in [Requests -> RequestStates] /\ b[r] = op[r]
         /\ \A x \in Requests \ {r} : Stands(b[x], token, c, P)
<1>1. \A x \in Requests : op[x] \in RequestStates /\ InOrder(op[x]) /\ Stands(op[x], token, script, profile)
  BY DEF SetupInv, Stands
<1>2. CASE changed
  <2>1. b = [x \in Requests |-> IF x = r THEN op[x] ELSE Tainted(op[x])]
    BY <1>2 DEF Disturb
  <2>2. \A x \in Requests : Stands(Tainted(op[x]), token, c, P)
    BY <1>1, TaintedKept
  <2>3. \A x \in Requests : Tainted(op[x]) \in RequestStates
    BY <2>2 DEF Stands
  <2> QED
    BY <1>1, <2>1, <2>2, <2>3
<1>3. CASE ~changed
  BY <1>1, <1>3 DEF SetupInv, SetupTypeOK
<1> QED
  BY <1>2, <1>3

\* Everybody is disturbed.
LEMMA AllDisturbed ==
  ASSUME SetupInv, op' = Disturbed, NEW t, NEW c, NEW P
  PROVE  op' \in [Requests -> RequestStates] /\ \A x \in Requests : Stands(op'[x], t, c, P)
<1>1. \A x \in Requests : Stands(Tainted(op[x]), t, c, P)
  BY TaintedKept DEF SetupInv, Stands
<1>2. \A x \in Requests : Tainted(op[x]) \in RequestStates
  BY <1>1 DEF Stands
<1> QED
  BY <1>1, <1>2 DEF Disturbed

\* The step of one request, once it is clear what it does to that request.
LEMMA OneStep ==
  ASSUME SetupInv, NEW r \in Requests, NEW b, NEW o,
         b \in [Requests -> RequestStates], op' = [b EXCEPT ![r] = o],
         \A x \in Requests \ {r} : Stands(b[x], token, script', profile'),
         Stands(o, token, script', profile'),
         script' \in 0..MaxTokens, profile' \in [Profiles -> Scripts],
         UNCHANGED <<address, token, edits>>
  PROVE  SetupInv'
<1>1. o \in RequestStates
  BY DEF Stands
<1>2. op' \in [Requests -> RequestStates] /\ op'[r] = o /\ \A x \in Requests \ {r} : op'[x] = b[x]
  BY <1>1
<1>3. \A x \in Requests : Stands(op'[x], token, script', profile')
  BY <1>2
<1> QED
  BY <1>2, <1>3 DEF SetupInv, SetupTypeOK

LEMMA BeginKept ==
  ASSUME SetupInv, NEW r \in Requests, NEW kind \in RequestKinds, StartRequest(r, kind)
  PROVE  SetupInv'
<1> DEFINE first == CASE kind = "check" -> "script"
                      [] kind \in {"install", "paste_install"} -> "put"
                      [] OTHER -> "fetch"
           o == [Idle EXCEPT !.kind = kind, !.token = token, !.address = address, !.step = first]
<1>1. op' = [op EXCEPT ![r] = o] /\ UNCHANGED <<address, token, script, profile, edits>>
  BY DEF StartRequest
<1>2. /\ kind = "check" => first = "script"
      /\ kind \in Installs => first = "put"
      /\ kind \in Removes => first = "fetch"
  BY DEF Installs, Removes
<1>3. kind \in {"check"} \cup Installs \cup Removes
  BY DEF Installs, Removes, RequestKinds, Pastes
<1>4. first \in {"put", "fetch", "script"}
  BY <1>2, <1>3
<1>5. Idle \in RequestStates
  BY SetupConstants DEF Idle, RequestStates, Scripts
<1> HIDE DEF first
<1>6. /\ o \in RequestStates /\ o.kind = kind /\ o.token = token /\ o.step = first
  BY <1>4, <1>5 DEF RequestStates, SetupInv, SetupTypeOK
<1> HIDE DEF o
<1>7. InOrder(o)
  <2>1. kind # "none" /\ first # "idle" /\ first # "profiles"
    BY <1>3, <1>4 DEF Installs, Removes
  <2> QED
    BY <1>2, <1>3, <1>6, <2>1 DEF InOrder, Installs, Removes
<1>8. Undisturbed(o, token, script, profile)
  BY <1>2, <1>3, <1>4, <1>6 DEF Undisturbed, Installs, Removes, Finished
<1>9. op \in [Requests -> RequestStates] /\ \A x \in Requests : Stands(op[x], token, script, profile)
  BY DEF SetupInv, SetupTypeOK
<1>10. /\ script' \in 0..MaxTokens /\ profile' \in [Profiles -> Scripts]
  BY <1>1 DEF SetupInv, SetupTypeOK
<1> QED
  <2>1. Stands(o, token, script, profile)
    BY <1>6, <1>7, <1>8 DEF Stands
  <2>2. Stands(o, token, script', profile') /\ \A x \in Requests \ {r} : Stands(op[x], token, script', profile')
    BY <1>1, <1>9, <2>1
  <2> QED
    BY <1>1, <1>9, <1>10, <2>2, OneStep

\* What a step finds of the request that takes it.
LEMMA Standing ==
  ASSUME SetupInv, NEW r \in Requests
  PROVE  /\ op[r] \in RequestStates /\ InOrder(op[r]) /\ Undisturbed(op[r], token, script, profile)
         /\ profile \in [Profiles -> Scripts]
         /\ script \in 0..MaxTokens /\ token \in 0..MaxTokens
  BY DEF SetupInv, Stands, SetupTypeOK

LEMMA PutKept ==
  ASSUME SetupInv, NEW r \in Requests, PutScript(r)
  PROVE  SetupInv'
<1> DEFINE b == IF script' # script THEN Disturb(r) ELSE op
           o == [op[r] EXCEPT !.step = "fetch"]
<1>1. /\ op[r].step = "put" /\ script' = op[r].token /\ op' = [b EXCEPT ![r].step = "fetch"]
      /\ UNCHANGED <<address, token, profile, edits>>
  BY DEF PutScript
<1>2. /\ b \in [Requests -> RequestStates] /\ b[r] = op[r]
      /\ \A x \in Requests \ {r} : Stands(b[x], token, script', profile')
  BY <1>1, OthersKept
<1> HIDE DEF b
<1>3. op' = [b EXCEPT ![r] = o]
  BY <1>1, <1>2
<1>4. /\ o \in RequestStates /\ o.step = "fetch" /\ o.kind = op[r].kind /\ o.token = op[r].token
      /\ o.clean = op[r].clean
  BY Standing DEF RequestStates
<1>5. op[r].kind \in Installs
  BY <1>1, Standing DEF InOrder
<1> HIDE DEF o
<1>6. InOrder(o)
  BY <1>4, <1>5 DEF InOrder, Installs
<1>7. Undisturbed(o, token, script', profile')
  BY <1>1, <1>4, <1>5, Standing DEF Undisturbed, Installs, Removes
<1>8. Stands(o, token, script', profile')
  BY <1>4, <1>6, <1>7 DEF Stands
<1>9. op[r].token \in 0..MaxTokens
  BY Standing DEF RequestStates
<1> QED
  BY <1>1, <1>2, <1>3, <1>8, <1>9, Standing, OneStep

LEMMA FetchKept ==
  ASSUME SetupInv, NEW r \in Requests, Fetch(r)
  PROVE  SetupInv'
<1> DEFINE got == IF op[r].kind \in Pastes THEN op[r].seen ELSE profile
           o == [op[r] EXCEPT !.step = "profiles", !.todo = Existing, !.seen = got]
<1>1. /\ op[r].step = "fetch" /\ op' = [op EXCEPT ![r] = o]
      /\ UNCHANGED <<address, token, script, profile, edits>>
  BY DEF Fetch
<1>2. /\ op \in [Requests -> RequestStates] /\ \A x \in Requests \ {r} : Stands(op[x], token, script', profile')
  BY <1>1 DEF SetupInv, SetupTypeOK
<1>3. Existing = ThereIn(profile) /\ Existing \subseteq Profiles
  BY DEF Existing, ThereIn
<1>4. got \in [Profiles -> Scripts]
  BY Standing DEF RequestStates
<1> HIDE DEF got
<1>5. /\ o \in RequestStates /\ o.step = "profiles" /\ o.kind = op[r].kind /\ o.token = op[r].token
      /\ o.clean = op[r].clean /\ o.todo = Existing /\ o.seen = got
  BY <1>3, <1>4, Standing DEF RequestStates
<1> HIDE DEF o
<1>6. InOrder(o)
  BY <1>1, <1>3, <1>5, Standing DEF InOrder, ThereIn, got
<1>7. Undisturbed(o, token, script, profile)
  <2> SUFFICES ASSUME o.clean PROVE Undisturbed(o, token, script, profile)
    BY DEF Undisturbed
  <2>1. o.token = token /\ (o.kind \in Installs => script = o.token)
    BY <1>1, <1>5, Standing DEF Undisturbed
  <2>2. o.kind \notin Pastes => \A p \in o.todo : o.seen[p] = profile[p]
    BY <1>5 DEF got
  <2>3. ThereIn(profile) \ o.todo = {}
    BY <1>3, <1>5
  <2> QED
    BY <1>5, <2>1, <2>2, <2>3 DEF Undisturbed
<1>8. Stands(o, token, script', profile')
  BY <1>1, <1>5, <1>6, <1>7 DEF Stands
<1> QED
  BY <1>1, <1>2, <1>8, Standing, OneStep

\* The new script of a profile: from what there was when it was fetched, or what there is.
LEMMA RewrittenScript ==
  ASSUME SetupInv, NEW r \in Requests, NEW p \in op[r].todo, NEW h \in Hooks,
         op[r].step = "profiles", p \in Existing
  PROVE  LET fetched == op[r].seen[p][h]
             now == profile[p][h]
             new == Rewritten(r, p, h)
         IN  /\ new \in Seq(Lines)
             /\ (op[r].kind \notin Pastes => fetched = now) => Finished(op[r].kind, new)
             /\ (op[r].kind \notin Pastes => Own(fetched) = Own(now)) => Own(new) = Own(now)
<1> DEFINE fetched == op[r].seen[p][h]
           now == profile[p][h]
           new == Rewritten(r, p, h)
           kind == op[r].kind
<1>1. now \in Seq(Lines)
  <2>1. p \in ThereIn(profile)
    BY DEF ThereIn, Existing
  <2> QED
    BY <2>1, ScriptsThere, Standing
<1>2. kind \in {"install", "uninstall", "paste_install", "paste_uninstall"}
  BY Standing DEF InOrder, RequestStates, RequestKinds, Pastes
<1>3. kind \notin Pastes => fetched \in Seq(Lines)
  <2> SUFFICES ASSUME kind \notin Pastes PROVE fetched \in Seq(Lines)
    OBVIOUS
  <2>1. op[r].seen \in [Profiles -> Scripts] /\ p \in Profiles /\ op[r].seen[p] # NoProfile
    BY Standing DEF RequestStates, InOrder
  <2>2. p \in ThereIn(op[r].seen)
    BY <2>1 DEF ThereIn
  <2> QED
    BY <2>1, <2>2, ScriptsThere
<1>4. IsHooked(now) <=> ~Hookless(now)
  BY <1>1, HookedOrNot
<1> HIDE DEF fetched, now
<1>5. CASE kind = "install"
  <2>1. new = IF WithHook(fetched) # fetched THEN WithHook(fetched) ELSE now
    BY <1>5 DEF Rewritten, fetched, now
  <2>2. WithHook(fetched) \in Seq(Lines) /\ HookFirst(WithHook(fetched)) /\ Own(WithHook(fetched)) = Own(fetched)
    BY <1>3, <1>5, WithHookHooks DEF Pastes
  <2> HIDE DEF new
  <2>3. \A k : k = "install" => k \notin Pastes /\ k \notin Removes
    BY DEF Pastes, Removes
  <2>4. ~Hookless(WithHook(fetched))
    BY <2>2, HookIsFirst
  <2> QED
    BY <1>1, <1>5, <2>1, <2>2, <2>3, <2>4 DEF Finished, fetched, now, new
<1>6. CASE kind = "uninstall"
  <2>1. new = IF IsHooked(fetched) THEN WithoutHook(fetched) ELSE now
    BY <1>6 DEF Rewritten, fetched, now
  <2>2. WithoutHook(fetched) \in Seq(Lines) /\ Hookless(WithoutHook(fetched)) /\ Own(WithoutHook(fetched)) = Own(fetched)
    BY <1>3, <1>6, WithoutHookUnhooks DEF Pastes
  <2>3. IsHooked(fetched) <=> ~Hookless(fetched)
    BY <1>3, <1>6, HookedOrNot DEF Pastes
  <2> HIDE DEF new
  <2>4. \A k : k = "uninstall" => k \notin Pastes /\ k \notin Installs /\ k # "install"
    BY DEF Pastes, Installs
  <2> QED
    BY <1>1, <1>6, <2>1, <2>2, <2>3, <2>4 DEF Finished, fetched, now, new
<1>7. CASE kind = "paste_install"
  <2>1. new = IF IsHooked(now) THEN now ELSE <<"hook">> \o now
    BY <1>7 DEF Rewritten, PasteHook, now
  <2>2. <<"hook">> \o now \in Seq(Lines) /\ Own(<<"hook">> \o now) = Own(now)
    BY <1>1, HookOnTop
  <2>3. Hookless(now) => ~Hookless(<<"hook">> \o now)
    <3>1. Hookless(now) => HookFirst(<<"hook">> \o now)
      BY <1>1 DEF HookFirst
    <3> QED
      BY <2>2, <3>1, HookIsFirst
  <2> HIDE DEF new
  <2>4. \A k : k = "paste_install" => k \in Pastes /\ k \notin Removes /\ k # "install"
    BY DEF Pastes, Removes
  <2> QED
    BY <1>1, <1>4, <1>7, <2>1, <2>2, <2>3, <2>4 DEF Finished, fetched, now, new
<1>8. CASE kind = "paste_uninstall"
  <2>1. new = OwnLines(now)
    BY <1>8 DEF Rewritten, PasteUnhook, now
  <2>2. OwnLines(now) \in Seq(Lines) /\ Hookless(OwnLines(now)) /\ Own(OwnLines(now)) = Own(now)
    BY <1>1, OwnLinesOnly
  <2> HIDE DEF new
  <2>3. \A k : k = "paste_uninstall" => k \in Pastes /\ k \notin Installs /\ k # "install"
    BY DEF Pastes, Installs
  <2> QED
    BY <1>8, <2>1, <2>2, <2>3 DEF Finished, fetched, now, new
<1> QED
  BY <1>2, <1>5, <1>6, <1>7, <1>8

LEMMA RewriteKept ==
  ASSUME SetupInv, NEW r \in Requests, RewriteProfile(r)
  PROVE  SetupInv'
<1> DEFINE new(p) == [h \in Hooks |-> Rewritten(r, p, h)]
<1>1. PICK p \in op[r].todo :
        /\ p \in Existing
        /\ profile' = [profile EXCEPT ![p] = new(p)]
        /\ op' = [(IF new(p) = profile[p] THEN op ELSE Disturb(r)) EXCEPT ![r].todo = @ \ {p}, ![r].seen[p] = NoProfile]
  BY DEF RewriteProfile
<1> DEFINE b == IF new(p) # profile[p] THEN Disturb(r) ELSE op
           o == [op[r] EXCEPT !.todo = @ \ {p}, !.seen[p] = NoProfile]
<1>2. op[r].step = "profiles" /\ UNCHANGED <<address, token, script, edits>>
  BY DEF RewriteProfile
<1>3. p \in Profiles /\ p \in ThereIn(profile)
  BY <1>1 DEF Existing, ThereIn
<1>4. \A h \in Hooks : /\ Rewritten(r, p, h) \in Seq(Lines)
                       /\ (op[r].kind \notin Pastes => op[r].seen[p][h] = profile[p][h])
                            => Finished(op[r].kind, Rewritten(r, p, h))
  BY <1>1, <1>2, RewrittenScript
<1>5. new(p) \in [Hooks -> Seq(Lines)] /\ \A h \in Hooks : new(p)[h] = Rewritten(r, p, h)
  BY <1>4
<1> HIDE DEF new
<1>6. new(p) # NoProfile /\ new(p) \in Scripts
  BY <1>5, ScriptsAreThere DEF Scripts
<1>7. /\ profile' \in [Profiles -> Scripts] /\ profile'[p] = new(p)
      /\ \A q \in Profiles \ {p} : profile'[q] = profile[q]
      /\ ThereIn(profile') = ThereIn(profile)
  <2>1. /\ profile' \in [Profiles -> Scripts] /\ profile'[p] = new(p)
        /\ \A q \in Profiles \ {p} : profile'[q] = profile[q]
    BY <1>1, <1>3, <1>6, Standing
  <2>2. ThereIn(profile') = ThereIn(profile)
    BY <1>3, <1>6, <2>1 DEF ThereIn
  <2> QED
    BY <2>1, <2>2
<1>9. /\ b \in [Requests -> RequestStates] /\ b[r] = op[r]
      /\ \A x \in Requests \ {r} : Stands(b[x], token, script', profile')
  <2>1. new(p) = profile[p] => profile' = profile
    BY <1>1, Standing
  <2> QED
    BY <1>2, <2>1, OthersKept
<1>10. op' = [b EXCEPT ![r] = o]
  <2>1. op' = [b EXCEPT ![r].todo = @ \ {p}, ![r].seen[p] = NoProfile]
    BY <1>1
  <2> HIDE DEF b
  <2> QED
    BY <1>9, <2>1
<1> HIDE DEF b
<1>11. /\ o \in RequestStates /\ o.step = "profiles" /\ o.kind = op[r].kind /\ o.token = op[r].token
       /\ o.clean = op[r].clean /\ o.todo = op[r].todo \ {p}
       /\ \A q \in Profiles \ {p} : o.seen[q] = op[r].seen[q]
  <2>1. NoProfile \in Scripts
    BY DEF Scripts
  <2> QED
    BY <1>2, <2>1, Standing DEF RequestStates
<1> HIDE DEF o
<1>12. op[r].todo \subseteq Profiles
  BY Standing DEF RequestStates
<1>13. InOrder(o)
  BY <1>2, <1>11, <1>12, Standing DEF InOrder
<1>14. Undisturbed(o, token, script', profile')
  <2> SUFFICES ASSUME o.clean PROVE Undisturbed(o, token, script', profile')
    BY DEF Undisturbed
  <2>1. /\ o.token = token /\ (o.kind \in Installs => script' = o.token)
        /\ o.kind \notin Pastes => \A q \in op[r].todo : op[r].seen[q] = profile[q]
        /\ \A q \in ThereIn(profile) \ op[r].todo, h \in Hooks : Finished(o.kind, profile[q][h])
    BY <1>2, <1>11, Standing DEF Undisturbed
  <2>2. o.kind \notin Pastes => \A q \in o.todo : o.seen[q] = profile'[q]
    BY <1>7, <1>11, <1>12, <2>1
  <2>3. \A h \in Hooks : Finished(o.kind, profile'[p][h])
    BY <1>4, <1>5, <1>7, <1>11, <2>1
  <2>4. \A q \in ThereIn(profile') \ o.todo, h \in Hooks : Finished(o.kind, profile'[q][h])
    BY <1>7, <1>11, <2>1, <2>3 DEF ThereIn
  <2> QED
    BY <1>11, <2>1, <2>2, <2>4 DEF Undisturbed
<1>15. Stands(o, token, script', profile') /\ script' \in 0..MaxTokens
  BY <1>2, <1>11, <1>13, <1>14, Standing DEF Stands
<1> QED
  BY <1>2, <1>7, <1>9, <1>10, <1>15, OneStep

LEMMA AfterKept ==
  ASSUME SetupInv, NEW r \in Requests, AfterProfiles(r)
  PROVE  SetupInv'
<1> DEFINE b == IF script' # script THEN Disturb(r) ELSE op
           next == IF op[r].kind \in Pastes THEN "done" ELSE "script"
           o == [op[r] EXCEPT !.step = next]
<1>1. /\ op[r].step = "profiles" /\ op[r].todo = {} /\ op' = [b EXCEPT ![r].step = next]
      /\ script' = IF op[r].kind \in Removes THEN 0 ELSE script
      /\ UNCHANGED <<address, token, profile, edits>>
  BY DEF AfterProfiles, Removes
<1>2. /\ b \in [Requests -> RequestStates] /\ b[r] = op[r]
      /\ \A x \in Requests \ {r} : Stands(b[x], token, script', profile')
  BY <1>1, OthersKept
<1>3. op' = [b EXCEPT ![r] = o]
  <2> HIDE DEF b, next
  <2> QED
    BY <1>1, <1>2
<1> HIDE DEF b
<1>4. next \in {"done", "script"} /\ (next = "done" => op[r].kind \in Pastes)
  OBVIOUS
<1> HIDE DEF next
<1>5. /\ o \in RequestStates /\ o.step = next /\ o.kind = op[r].kind /\ o.token = op[r].token
      /\ o.clean = op[r].clean /\ o.unhooked = op[r].unhooked
  BY <1>4, Standing DEF RequestStates
<1> HIDE DEF o
<1>6. InOrder(o)
  BY <1>1, <1>4, <1>5, Standing DEF InOrder
<1>7. Undisturbed(o, token, script', profile')
  <2> SUFFICES ASSUME o.clean PROVE Undisturbed(o, token, script', profile')
    BY DEF Undisturbed
  <2>1. /\ o.token = token /\ (o.kind \in Installs => script = o.token)
        /\ \A q \in ThereIn(profile), h \in Hooks : Finished(o.kind, profile[q][h])
    BY <1>1, <1>5, Standing DEF Undisturbed
  <2>2. o.kind \in Installs => o.kind \notin Removes
    BY DEF Installs, Removes
  <2>3. o.step = "status" => FALSE
    BY <1>4, <1>5
  <2>4. o.step = "done" => o.kind \in Pastes
    BY <1>4, <1>5
  <2> QED
    BY <1>1, <1>4, <1>5, <2>1, <2>2, <2>3, <2>4 DEF Undisturbed
<1>8. Stands(o, token, script', profile')
  BY <1>5, <1>6, <1>7 DEF Stands
<1>9. script' \in 0..MaxTokens
  BY <1>1, Standing, SetupConstants
<1> QED
  BY <1>1, <1>2, <1>3, <1>8, <1>9, Standing, OneStep

LEMMA StatusKept ==
  ASSUME SetupInv, NEW r \in Requests, ReadScript(r) \/ ReadProfiles(r) \/ Answer(r)
  PROVE  SetupInv'
<1>0. /\ op \in [Requests -> RequestStates] /\ UNCHANGED <<address, token, script, profile, edits>>
      /\ \A x \in Requests \ {r} : Stands(op[x], token, script', profile')
  BY DEF ReadScript, ReadProfiles, Answer, SetupInv, SetupTypeOK
<1>1. CASE ReadScript(r)
  <2> DEFINE found == IF script = 0 THEN "missing"
                      ELSE IF op[r].address /\ script = op[r].token THEN "current" ELSE "outdated"
             o == [op[r] EXCEPT !.step = "status", !.script = found]
  <2>1. op[r].step = "script" /\ op' = [op EXCEPT ![r] = o]
    BY <1>1 DEF ReadScript
  <2>2. found \in {"missing", "current", "outdated"} /\ (found = "current" => script = op[r].token)
    OBVIOUS
  <2> HIDE DEF found
  <2>3. /\ o \in RequestStates /\ o.step = "status" /\ o.kind = op[r].kind /\ o.token = op[r].token
        /\ o.clean = op[r].clean /\ o.script = found
    BY <2>2, Standing DEF RequestStates
  <2> HIDE DEF o
  <2>4. InOrder(o)
    BY <2>1, <2>3, Standing DEF InOrder
  <2>5. Undisturbed(o, token, script, profile)
    BY <2>1, <2>2, <2>3, Standing DEF Undisturbed
  <2>6. Stands(o, token, script', profile')
    BY <1>0, <2>3, <2>4, <2>5 DEF Stands
  <2> QED
    BY <1>0, <2>1, <2>6, Standing, OneStep
<1>2. CASE ReadProfiles(r)
  <2> DEFINE bare == {p \in Existing : \E h \in Hooks : ~IsHooked(profile[p][h])}
             o == [op[r] EXCEPT !.step = "done", !.unhooked = bare]
  <2>1. op[r].step = "status" /\ op' = [op EXCEPT ![r] = o]
    BY <1>2 DEF ReadProfiles
  <2>2. bare = {p \in ThereIn(profile) : \E h \in Hooks : ~IsHooked(profile[p][h])} /\ bare \subseteq Profiles
    BY DEF Existing, ThereIn
  <2> HIDE DEF bare
  <2>3. /\ o \in RequestStates /\ o.step = "done" /\ o.kind = op[r].kind /\ o.token = op[r].token
        /\ o.clean = op[r].clean /\ o.script = op[r].script /\ o.unhooked = bare
    BY <2>2, Standing DEF RequestStates
  <2> HIDE DEF o
  <2>4. InOrder(o)
    BY <2>1, <2>3, Standing DEF InOrder
  <2>5. Undisturbed(o, token, script, profile)
    BY <2>1, <2>2, <2>3, Standing DEF Undisturbed
  <2>6. Stands(o, token, script', profile')
    BY <1>0, <2>3, <2>4, <2>5 DEF Stands
  <2> QED
    BY <1>0, <2>1, <2>6, Standing, OneStep
<1>3. CASE Answer(r)
  <2>1. op' = [op EXCEPT ![r] = Idle]
    BY <1>3 DEF Answer
  <2>2. Idle \in RequestStates
    BY SetupConstants DEF Idle, RequestStates, Scripts
  <2>3. Stands(Idle, token, script', profile')
    BY <2>2 DEF Stands, InOrder, Undisturbed, Idle
  <2> QED
    BY <1>0, <2>1, <2>3, Standing, OneStep
<1> QED
  BY <1>1, <1>2, <1>3

\* The operator edits a profile.
LEMMA EditKept ==
  ASSUME SetupInv, NEW p \in Profiles, NEW s \in Scripts, Edit(p, s)
  PROVE  SetupInv'
<1>1. /\ op' = Disturbed /\ profile' = [profile EXCEPT ![p] = s]
      /\ UNCHANGED <<address, token, script>>
  BY DEF Edit
<1>2. edits' \in 0..MaxEdits
  BY SetupConstants DEF Edit, SetupInv, SetupTypeOK
<1>3. profile' \in [Profiles -> Scripts]
  BY <1>1 DEF SetupInv, SetupTypeOK
<1>4. op' \in [Requests -> RequestStates] /\ \A x \in Requests : Stands(op'[x], token', script', profile')
  BY <1>1, AllDisturbed
<1> QED
  BY <1>1, <1>2, <1>3, <1>4 DEF SetupInv, SetupTypeOK

LEMMA EditsKept ==
  ASSUME SetupInv, NEW p \in Profiles, AddProfile(p) \/ RemoveProfile(p) \/ \E h \in Hooks : EditScript(p, h)
  PROVE  SetupInv'
<1>0. "own" \in Lines /\ \A s \in {<<>>, <<"own">>, <<"blank", "own">>} : s \in Seq(Lines)
  BY DEF Lines
<1>1. CASE AddProfile(p)
  <2>1. PICK s \in {<<>>, <<"own">>} : Edit(p, [h \in Hooks |-> s])
    BY <1>1 DEF AddProfile
  <2>2. [h \in Hooks |-> s] \in Scripts
    BY <1>0 DEF Scripts
  <2> QED
    BY <2>1, <2>2, EditKept
<1>2. CASE RemoveProfile(p)
  <2>1. Edit(p, NoProfile) /\ NoProfile \in Scripts
    BY <1>2 DEF RemoveProfile, Scripts
  <2> QED
    BY <2>1, EditKept
<1>3. ASSUME NEW h \in Hooks, EditScript(p, h) PROVE SetupInv'
  <2> DEFINE old == profile[p][h]
  <2>1. PICK s \in {<<>>, <<"blank", "own">>, Append(old, "own"), <<"own">> \o old, old \o old} :
          Edit(p, [profile[p] EXCEPT ![h] = s])
    BY <1>3 DEF EditScript
  <2>2. p \in ThereIn(profile)
    BY <1>3 DEF EditScript, Existing, ThereIn
  <2>3. profile[p] \in [Hooks -> Seq(Lines)] /\ old \in Seq(Lines)
    BY <2>2, ScriptsThere DEF SetupInv, SetupTypeOK
  <2> HIDE DEF old
  <2>4. s \in Seq(Lines)
    <3>1. <<"own">> \in Seq(Lines) /\ <<>> \in Seq(Lines) /\ <<"blank", "own">> \in Seq(Lines)
      BY <1>0
    <3>2. Append(old, "own") \in Seq(Lines) /\ <<"own">> \o old \in Seq(Lines) /\ old \o old \in Seq(Lines)
      <4>1. Append(old, "own") \in Seq(Lines)
        BY <1>0, <2>3, AppendProperties
      <4>2. <<"own">> \o old \in Seq(Lines) /\ old \o old \in Seq(Lines)
        BY <2>3, <3>1, ConcatProperties
      <4> QED
        BY <4>1, <4>2
    <3> QED
      BY <3>1, <3>2, Zenon
  <2>5. [profile[p] EXCEPT ![h] = s] \in Scripts
    BY <2>3, <2>4 DEF Scripts
  <2> QED
    BY <2>1, <2>5, EditKept
<1> QED
  BY <1>1, <1>2, <1>3

LEMMA SetupInitInv == SetupInit => SetupInv
<1> SUFFICES ASSUME SetupInit PROVE SetupInv
  OBVIOUS
<1>1. <<"own">> \in Seq(Lines)
  BY DEF Lines
<1>2. profile \in [Profiles -> Scripts]
  BY <1>1 DEF SetupInit, Scripts
<1>3. Idle \in RequestStates
  BY SetupConstants DEF Idle, RequestStates, Scripts
<1>4. Stands(Idle, token, script, profile)
  BY <1>3 DEF Stands, InOrder, Undisturbed, Idle
<1>5. /\ op \in [Requests -> RequestStates]
      /\ \A r \in Requests : Stands(op[r], token, script, profile)
  <2>1. \A r \in Requests : op[r] = Idle
    BY DEF SetupInit
  <2>2. op = [r \in Requests |-> Idle]
    BY DEF SetupInit
  <2> QED
    BY <1>3, <1>4, <2>1, <2>2
<1>6. 0 \in 0..MaxTokens /\ 0 \in 0..MaxEdits
  BY SetupConstants
<1> QED
  BY <1>2, <1>5, <1>6 DEF SetupInit, SetupInv, SetupTypeOK

LEMMA SetupInvStep == SetupInv /\ [SetupNext]_setupVars => SetupInv'
<1> SUFFICES ASSUME SetupInv, [SetupNext]_setupVars PROVE SetupInv'
  OBVIOUS
<1>1. CASE UNCHANGED setupVars
  BY <1>1 DEF setupVars, SetupInv, SetupTypeOK
<1>2. ASSUME NEW on \in BOOLEAN, SaveAddress(on) PROVE SetupInv'
  <2>1. op' = Disturbed /\ address' = on /\ UNCHANGED <<token, script, profile, edits>>
    BY <1>2 DEF SaveAddress
  <2>2. op' \in [Requests -> RequestStates] /\ \A x \in Requests : Stands(op'[x], token', script', profile')
    BY <2>1, AllDisturbed
  <2> QED
    BY <2>1, <2>2 DEF SetupInv, SetupTypeOK
<1>3. CASE NewToken
  <2>1. op' = Disturbed /\ token' = token + 1 /\ token < MaxTokens /\ UNCHANGED <<address, script, profile, edits>>
    BY <1>3 DEF NewToken
  <2>2. op' \in [Requests -> RequestStates] /\ \A x \in Requests : Stands(op'[x], token', script', profile')
    BY <2>1, AllDisturbed
  <2>3. token' \in 0..MaxTokens
    BY <2>1, SetupConstants DEF SetupInv, SetupTypeOK
  <2> QED
    BY <2>1, <2>2, <2>3 DEF SetupInv, SetupTypeOK
<1> QED
  BY <1>1, <1>2, <1>3, BeginKept, PutKept, FetchKept, RewriteKept, AfterKept, StatusKept, EditsKept DEF SetupNext

LEMMA SetupInvariance == SetupSpec => []SetupInv
  BY SetupInitInv, SetupInvStep, PTL DEF SetupSpec

\* What a finished request says.
LEMMA SetupInvSays == SetupInv => LeavesWhatItSays
<1> DEFINE Calls(p, h) == Only(profile[p][h], {"hook"})
           Called == \A p \in Existing, h \in Hooks : Calls(p, h) # <<>>
           OnceFirst == \A p \in Existing, h \in Hooks : Calls(p, h) = <<"hook">> /\ Head(profile[p][h]) = "hook"
           Clear == \A p \in Existing, h \in Hooks : Calls(p, h) = <<>>
<1> SUFFICES ASSUME SetupInv, NEW r \in Requests, op[r].step = "done", op[r].clean
             PROVE  /\ op[r].kind \in {"install", "paste_install"} => script = token /\ Called
                    /\ op[r].kind = "install" => OnceFirst
                    /\ op[r].kind \in {"uninstall", "paste_uninstall"} => script = 0 /\ Clear
                    /\ op[r].kind \notin Pastes =>
                         /\ (op[r].script = "current") => script = token
                         /\ op[r].unhooked = {} <=> Called
  BY DEF LeavesWhatItSays
<1>1. Existing = ThereIn(profile)
  BY DEF Existing, ThereIn
<1>2. \A p \in Existing, h \in Hooks : profile[p][h] \in Seq(Lines)
  BY <1>1, ScriptsThere, Standing
<1>3. /\ op[r].token = token /\ (op[r].kind \in Installs => script = op[r].token)
      /\ \A p \in Existing, h \in Hooks : Finished(op[r].kind, profile[p][h])
      /\ op[r].kind \in Removes => script = 0
      /\ op[r].kind \notin Pastes =>
           /\ op[r].script = "current" => script = token
           /\ op[r].unhooked = {p \in Existing : \E h \in Hooks : ~IsHooked(profile[p][h])}
  BY <1>1, Standing DEF Undisturbed
<1>4. \A p \in Existing, h \in Hooks :
        /\ HookFirst(profile[p][h]) => Calls(p, h) = <<"hook">> /\ Head(profile[p][h]) = "hook"
        /\ Hookless(profile[p][h]) <=> Calls(p, h) = <<>>
        /\ IsHooked(profile[p][h]) <=> ~Hookless(profile[p][h])
  BY <1>2, CallsOf, HookedOrNot
<1> HIDE DEF Calls
<1>5. op[r].kind \in Installs => script = token /\ Called
  BY <1>3, <1>4 DEF Finished
<1>6. op[r].kind = "install" => OnceFirst
  BY <1>3, <1>4 DEF Finished
<1>7. op[r].kind \in Removes => script = 0 /\ Clear
  BY <1>3, <1>4 DEF Finished
<1>8. op[r].kind \notin Pastes => (op[r].unhooked = {} <=> Called)
  BY <1>3, <1>4
<1> QED
  BY <1>3, <1>5, <1>6, <1>7, <1>8 DEF Installs, Removes

\* webhook.py, install, uninstall and check, over the API or pasted, whatever other requests,
\* the operator and failing calls do in between, and wherever in a script the hook already
\* is: a request that was not disturbed leaves the router as asked, and reports what there is.
THEOREM RequestsLeaveWhatTheySay == SetupSpec => []LeavesWhatItSays
  BY SetupInvariance, SetupInvSays, PTL

LEMMA TaintedList ==
  ASSUME SetupInv, NEW r \in Requests, op'[r] \in {op[r], Tainted(op[r])}
  PROVE  op'[r].todo = op[r].todo
  BY Standing DEF Tainted, RequestStates

\* Only its own steps change where a request stands.
LEMMA ListsShrink ==
  ASSUME SetupInv, SetupNext, NEW r \in Requests, op[r].step = "profiles", op'[r].step = "profiles",
         op'[r].todo # op[r].todo
  PROVE  RewriteProfile(r)
<1> USE DEF SetupInv, SetupTypeOK
<1>1. ASSUME NEW x \in Requests, x # r,
             \/ \E kind \in RequestKinds : StartRequest(x, kind)
             \/ PutScript(x) \/ Fetch(x) \/ RewriteProfile(x) \/ AfterProfiles(x)
             \/ ReadScript(x) \/ ReadProfiles(x) \/ Answer(x)
      PROVE  FALSE
  <2>1. op'[r] \in {op[r], Tainted(op[r])}
    BY <1>1 DEF StartRequest, PutScript, Fetch, RewriteProfile, AfterProfiles, ReadScript, ReadProfiles, Answer, Disturb
  <2> QED
    BY <2>1, TaintedList
<1>2. ASSUME (\E kind \in RequestKinds : StartRequest(r, kind)) \/ PutScript(r) \/ Fetch(r) \/ ReadScript(r) \/ ReadProfiles(r)
      PROVE  FALSE
  BY <1>2 DEF StartRequest, PutScript, Fetch, ReadScript, ReadProfiles
<1>3. ASSUME AfterProfiles(r) PROVE FALSE
  <2> DEFINE b == IF script' # script THEN Disturb(r) ELSE op
  <2>1. op' = [b EXCEPT ![r].step = IF op[r].kind \in Pastes THEN "done" ELSE "script"]
    BY <1>3 DEF AfterProfiles
  <2>2. b \in [Requests -> RequestStates] /\ b[r] = op[r]
    BY OthersKept
  <2> HIDE DEF b
  <2>3. op'[r].step \in {"done", "script"}
    BY <2>1, <2>2 DEF RequestStates
  <2> QED
    BY <2>3
<1>4. ASSUME Answer(r) PROVE FALSE
  BY <1>4 DEF Answer, Idle
<1>5. ASSUME op' = Disturbed PROVE FALSE
  BY <1>5, TaintedList DEF Disturbed
<1>6. CASE \/ \E on \in BOOLEAN : SaveAddress(on)
           \/ NewToken
           \/ \E p \in Profiles : AddProfile(p) \/ RemoveProfile(p) \/ \E h \in Hooks : EditScript(p, h)
  BY <1>5, <1>6 DEF SaveAddress, NewToken, AddProfile, RemoveProfile, EditScript, Edit
<1> QED
  BY <1>1, <1>2, <1>3, <1>4, <1>6 DEF SetupNext

\* The operator's own lines outlive a rewrite.
LEMMA OwnLinesStep ==
  ASSUME SetupInv, SetupNext, NEW r \in Requests, NEW p \in op[r].todo \ op'[r].todo, NEW h \in Hooks,
         op[r].step = "profiles", op'[r].step = "profiles",
         op[r].kind \notin Pastes => Own(op[r].seen[p][h]) = Own(profile[p][h])
  PROVE  Own(profile'[p][h]) = Own(profile[p][h])
<1>1. RewriteProfile(r)
  BY ListsShrink
<1>2. PICK q \in op[r].todo :
        /\ q \in Existing
        /\ profile' = [profile EXCEPT ![q] = [k \in Hooks |-> Rewritten(r, q, k)]]
        /\ op' = [(IF [k \in Hooks |-> Rewritten(r, q, k)] = profile[q] THEN op ELSE Disturb(r))
                    EXCEPT ![r].todo = @ \ {q}, ![r].seen[q] = NoProfile]
  BY <1>1 DEF RewriteProfile
<1>3. q = p
  <2> DEFINE new == [k \in Hooks |-> Rewritten(r, q, k)]
             b == IF new # profile[q] THEN Disturb(r) ELSE op
  <2>1. op' = [b EXCEPT ![r].todo = @ \ {q}, ![r].seen[q] = NoProfile]
    BY <1>2
  <2>2. b \in [Requests -> RequestStates] /\ b[r] = op[r]
    <3> DEFINE changed == new # profile[q]
    <3>1. changed \in BOOLEAN /\ b = IF changed THEN Disturb(r) ELSE op
      OBVIOUS
    <3> HIDE DEF changed, b
    <3> QED
      BY <3>1, OthersKept
  <2> HIDE DEF b
  <2>3. op'[r].todo = op[r].todo \ {q}
    BY <2>1, <2>2 DEF RequestStates
  <2> QED
    BY <2>3
<1>4. profile'[p][h] = Rewritten(r, p, h)
  BY <1>2, <1>3, Standing DEF Existing
<1> QED
  BY <1>2, <1>3, <1>4, RewrittenScript

\* webhook.py, with_hook, without_hook and the pasted scripts: rewriting a profile's scripts
\* keeps the operator's own lines, also when another request changed the hook meanwhile.
THEOREM OwnLinesAreKept == SetupSpec => OwnLinesKept
<1>1. SetupInv /\ [SetupNext]_setupVars =>
        [\A r \in Requests, p \in Profiles, h \in Hooks :
           (/\ op[r].step = "profiles" /\ op'[r].step = "profiles"
            /\ p \in op[r].todo \ op'[r].todo
            /\ op[r].kind \notin Pastes => Own(op[r].seen[p][h]) = Own(profile[p][h]))
           => Own(profile'[p][h]) = Own(profile[p][h])]_setupVars
  BY OwnLinesStep
<1> QED
  BY <1>1, SetupInvariance, PTL DEF SetupSpec, OwnLinesKept, Own
==============================================================================
