--------------------------- MODULE StatNamesProofs ---------------------------
(***************************************************************************)
(* What the split of a name comes to, for every text: theorems about the   *)
(* names of counters, for every set of emails and tags, of any length.     *)
(***************************************************************************)
EXTENDS StatNames, WellFoundedInduction, SequenceTheorems, TLAPS

-----------------------------------------------------------------------------
(* Induction.                                                              *)

(* A set of numbers has a least one.  Induction over texts is made of it: of*)
(* the texts a statement does not hold of, take a shortest one.            *)
LEMMA LeastExists ==
  ASSUME NEW T, T \subseteq Nat, T # {}
  PROVE  \E n \in T : \A m \in T : n <= m
<1> DEFINE R == OpToRel(<, Nat)
<1>0. IsWellFoundedOn(R, Nat)
  BY NatLessThanWellFounded
<1>2. ASSUME NEW m \in T, NEW n \in T, <<m, n>> \notin R PROVE n <= m
  BY <1>2 DEF OpToRel
<1> HIDE DEF R
<1>1. \E n \in T : \A m \in T : ~(<<m, n>> \in R)
  BY <1>0, WFMin, Zenon
<1> QED
  BY <1>1, <1>2

-----------------------------------------------------------------------------
(* Texts, and where their separators are.                                  *)

(* Texts.                                                                  *)
Text == Seq(Piece)

(* The places of the separator.                                            *)
Found(text) == Occurrences(text, Separator)

(* There is a separator.                                                   *)
Has(text) == Found(text) # {}

(* A separator begins at place i.                                          *)
SeparatorAt(text, i) ==
  /\ i \in Nat \ {0}
  /\ i + 2 <= Len(text)
  /\ text[i] = ">" /\ text[i + 1] = ">" /\ text[i + 2] = ">"

(* What stands before the first separator.                                 *)
FirstPart(text) == SubSeq(text, 1, Cut(text) - 1)

(* What stands after it.                                                   *)
Rest(text) == SubSeq(text, Cut(text) + Len(Separator), Len(text))

(* The separator is a text of three pieces.                                *)
LEMMA SeparatorIsText == 
  /\ Separator \in Text /\ Len(Separator) = 3
  /\ \A i \in 1..3 : Separator[i] = ">"
  BY StatNamesAssumption DEF Separator, Text

(* The places found are those where three ">" begin.                       *)
LEMMA FoundIff ==
  ASSUME NEW text \in Text, NEW i
  PROVE  i \in Found(text) <=> SeparatorAt(text, i)
<1>1. ASSUME i \in 1..Len(text), i + 2 <= Len(text)
      PROVE  SubSeq(text, i, i + 2) = <<">", ">", ">">> <=>
               text[i] = ">" /\ text[i + 1] = ">" /\ text[i + 2] = ">"
  <2> DEFINE s == SubSeq(text, i, i + 2)
  <2>1. /\ Len(s) = 3
        /\ s[1] = text[i] /\ s[2] = text[i + 1] /\ s[3] = text[i + 2]
        /\ s \in Seq(Piece)
    BY <1>1 DEF Text
  <2> HIDE DEF s
  <2>2. ASSUME s[1] = ">", s[2] = ">", s[3] = ">"
        PROVE  s = <<">", ">", ">">>
    <3> DEFINE t == <<">", ">", ">">>
    <3>1. t \in Seq(Piece) /\ Len(t) = 3 /\ \A j \in 1..3 : t[j] = ">"
      BY StatNamesAssumption
    <3>2. \A j \in 1..3 : s[j] = t[j]
      BY <2>2, <3>1
    <3> HIDE DEF t
    <3>3. s = t
      BY <3>1, <3>2, <2>1, SeqEqual
    <3> QED
      BY <3>3 DEF t
  <2>3. s = <<">", ">", ">">> => s[1] = ">" /\ s[2] = ">" /\ s[3] = ">"
    OBVIOUS
  <2>4. s = <<">", ">", ">">> <=>
          text[i] = ">" /\ text[i + 1] = ">" /\ text[i + 2] = ">"
    BY <2>1, <2>2, <2>3
  <2> QED
    BY <2>4 DEF s
<1>2. Len(text) \in Nat
  BY DEF Text
<1> QED
  BY <1>1, <1>2 DEF Found, Occurrences, Separator, SeparatorAt

(* The cut is at the first separator.                                      *)
LEMMA CutIsFirst ==
  ASSUME NEW text \in Text, Has(text)
  PROVE  /\ SeparatorAt(text, Cut(text))
         /\ \A i \in Nat : SeparatorAt(text, i) => Cut(text) <= i
<1> DEFINE F == Found(text)
<1>1. F \subseteq Nat
  BY FoundIff DEF SeparatorAt
<1>2. F # {}
  BY DEF Has
<1>3. Cut(text) = CHOOSE x \in F : \A y \in F : x =< y
  BY DEF Cut, Min, Found
<1> HIDE DEF F
<1>4. \E n \in F : \A m \in F : n <= m
  BY <1>1, <1>2, LeastExists
<1>5. Cut(text) \in F /\ \A y \in F : Cut(text) <= y
  BY <1>3, <1>4
<1> QED
  BY <1>5, FoundIff DEF F

(* The texts around the cut; what is left to split is shorter.             *)
LEMMA RestIsText ==
  ASSUME NEW text \in Text, Has(text)
  PROVE  /\ Rest(text) \in Text
         /\ Len(Rest(text)) = Len(text) - Cut(text) - 2
         /\ Len(Rest(text)) < Len(text)
         /\ \A i \in 1..Len(Rest(text)) :
              Rest(text)[i] = text[i + Cut(text) + 2]
         /\ FirstPart(text) \in Text
         /\ Len(FirstPart(text)) = Cut(text) - 1
         /\ \A i \in 1..Cut(text) - 1 : FirstPart(text)[i] = text[i]
<1> DEFINE c == Cut(text)
<1>1. c \in 1..Len(text) /\ c + 2 <= Len(text) /\ Len(text) \in Nat
  BY CutIsFirst DEF SeparatorAt, Text
<1>2. /\ Rest(text) = SubSeq(text, c + 3, Len(text))
      /\ FirstPart(text) = SubSeq(text, 1, c - 1)
  BY SeparatorIsText DEF Rest, FirstPart
<1> HIDE DEF c
<1>3. /\ SubSeq(text, c + 3, Len(text)) \in Text
      /\ Len(SubSeq(text, c + 3, Len(text))) = Len(text) - c - 2
      /\ \A i \in 1..Len(text) - c - 2 :
           SubSeq(text, c + 3, Len(text))[i] = text[i + c + 2]
  BY <1>1 DEF Text
<1>4. /\ SubSeq(text, 1, c - 1) \in Text
      /\ Len(SubSeq(text, 1, c - 1)) = c - 1
      /\ \A i \in 1..c - 1 : SubSeq(text, 1, c - 1)[i] = text[i]
  BY <1>1 DEF Text
<1> QED
  BY <1>1, <1>2, <1>3, <1>4 DEF c

(* One text after another.                                                 *)
LEMMA ConcatShape ==
  ASSUME NEW s \in Text, NEW t \in Text
  PROVE  /\ s \o t \in Text
         /\ Len(s \o t) = Len(s) + Len(t)
         /\ \A i \in 1..Len(s) : (s \o t)[i] = s[i]
         /\ \A i \in 1..Len(t) : (s \o t)[Len(s) + i] = t[i]
<1>1. Len(s) \in Nat /\ Len(t) \in Nat
  BY DEF Text
<1>2. /\ s \o t \in Seq(Piece)
      /\ Len(s \o t) = Len(s) + Len(t)
      /\ \A i \in 1..Len(s) + Len(t) : (s \o t)[i] =
           IF i <= Len(s) THEN s[i] ELSE t[i - Len(s)]
  BY ConcatProperties DEF Text
<1> DEFINE u == s \o t
<1> HIDE DEF u
<1>3. \A i \in 1..Len(s) + Len(t) : u[i] =
           IF i <= Len(s) THEN s[i] ELSE t[i - Len(s)]
  BY <1>2 DEF u
<1>4. \A i \in 1..Len(s) : u[i] = s[i]
  BY <1>1, <1>3
<1>5. \A i \in 1..Len(t) : u[Len(s) + i] = t[i]
  <2> TAKE i \in 1..Len(t)
  <2>1. /\ Len(s) + i \in 1..Len(s) + Len(t)
        /\ ~(Len(s) + i <= Len(s)) /\ (Len(s) + i) - Len(s) = i
    BY <1>1
  <2> QED
    BY <2>1, <1>3
<1> QED
  BY <1>2, <1>4, <1>5 DEF u, Text

(* It does not matter which two of three are put together first.           *)
LEMMA ConcatTwice ==
  ASSUME NEW s \in Text, NEW t \in Text, NEW u \in Text
  PROVE  (s \o t) \o u = s \o (t \o u)
  BY ConcatAssociative DEF Text

(* Two texts with a separator between them.                                *)
LEMMA BeforeSeparator ==
  ASSUME NEW part \in Text, NEW rest \in Text
  PROVE  LET all == part \o (Separator \o rest)
             n == Len(part)
         IN  /\ all \in Text /\ Len(all) = n + 3 + Len(rest)
             /\ \A i \in 1..n : all[i] = part[i]
             /\ \A i \in 1..3 : all[n + i] = ">"
             /\ \A i \in 1..Len(rest) : all[n + 3 + i] = rest[i]
<1>0. Len(part) \in Nat /\ Len(rest) \in Nat
  BY DEF Text
<1> DEFINE tail == Separator \o rest
           text == part \o tail
<1>1. /\ tail \in Text /\ Len(tail) = 3 + Len(rest)
      /\ \A i \in 1..3 : tail[i] = ">"
      /\ \A i \in 1..Len(rest) : tail[3 + i] = rest[i]
  <2>1. /\ tail \in Text /\ Len(tail) = Len(Separator) + Len(rest)
        /\ \A i \in 1..Len(Separator) : tail[i] = Separator[i]
        /\ \A i \in 1..Len(rest) : tail[Len(Separator) + i] = rest[i]
    BY SeparatorIsText, ConcatShape
  <2> HIDE DEF tail
  <2> QED
    BY <2>1, SeparatorIsText
<1> HIDE DEF tail
<1>2. /\ text \in Text /\ Len(text) = Len(part) + Len(tail)
      /\ \A i \in 1..Len(part) : text[i] = part[i]
      /\ \A i \in 1..Len(tail) : text[Len(part) + i] = tail[i]
  BY <1>1, ConcatShape
<1> HIDE DEF text
<1>3. /\ Len(text) = Len(part) + 3 + Len(rest)
      /\ \A i \in 1..3 : text[Len(part) + i] = ">"
  BY <1>0, <1>1, <1>2
<1>4. \A i \in 1..Len(rest) : text[Len(part) + 3 + i] = rest[i]
  <2> TAKE i \in 1..Len(rest)
  <2>1. 3 + i \in 1..Len(tail) /\ Len(part) + (3 + i) = Len(part) + 3 + i
    BY <1>0, <1>1
  <2>2. text[Len(part) + (3 + i)] = tail[3 + i]
    BY <2>1, <1>2
  <2> QED
    BY <2>1, <2>2, <1>1
<1> QED
  BY <1>2, <1>3, <1>4 DEF text, tail

-----------------------------------------------------------------------------
(* The split.                                                              *)

(* What Split does with a text, if f splits the rest.                      *)
SplitStep(f, text) ==
  IF Found(text) = {} THEN <<text>>
  ELSE <<FirstPart(text)>> \o f[Rest(text)]

(* Texts shorter than n.                                                   *)
Below(n) == {text \in Text : Len(text) < n}

(* f splits the texts shorter than n.                                      *)
SplitsBelow(f, n) == f = [text \in Below(n) |-> SplitStep(f, text)]

(* Only how the rest is split matters.                                     *)
LEMMA StepDependsOnRest ==
  ASSUME NEW f, NEW g, NEW text \in Text,
         Has(text) => f[Rest(text)] = g[Rest(text)]
  PROVE  SplitStep(f, text) = SplitStep(g, text)
  BY DEF SplitStep, Has

(* What such an f makes of a text.                                         *)
LEMMA SplitsValue ==
  ASSUME NEW f, NEW n \in Nat, SplitsBelow(f, n),
         NEW text \in Text, Len(text) < n
  PROVE  f[text] = SplitStep(f, text)
  BY DEF SplitsBelow, Below

(* Two such functions agree where both are defined: a shortest text on which*)
(* they differ has a rest on which they differ.                            *)
LEMMA SplitsUnique ==
  ASSUME NEW f, NEW g, NEW m \in Nat, NEW n \in Nat,
         SplitsBelow(f, m), SplitsBelow(g, n)
  PROVE  \A text \in Text : Len(text) < m /\ Len(text) < n => f[text] = g[text]
<1> DEFINE Differ(text) == Len(text) < m /\ Len(text) < n /\ f[text] # g[text]
           Bad == {k \in Nat : \E text \in Text : Len(text) = k /\ Differ(text)}
<1>1. SUFFICES ASSUME NEW u \in Text, Differ(u) PROVE FALSE
  OBVIOUS
<1>2. Len(u) \in Bad
  BY <1>1 DEF Text
<1>3. PICK k \in Bad : \A j \in Bad : k <= j
  <2> Bad \subseteq Nat /\ Bad # {}
    BY <1>2
  <2> HIDE DEF Bad
  <2> QED
    BY LeastExists
<1>4. PICK text \in Text : Len(text) = k /\ Differ(text)
  OBVIOUS
<1>5. SplitStep(f, text) # SplitStep(g, text)
  BY <1>4, SplitsValue
<1>6. Has(text) /\ f[Rest(text)] # g[Rest(text)]
  BY <1>5, StepDependsOnRest
<1>7. Rest(text) \in Text /\ Len(Rest(text)) < Len(text)
  BY <1>6, RestIsText
<1>8. Len(Rest(text)) \in Bad
  BY <1>4, <1>6, <1>7 DEF Text
<1>9. ~(k <= Len(Rest(text)))
  BY <1>4, <1>7 DEF Text
<1> QED
  BY <1>3, <1>8, <1>9

(* From the texts shorter than n to those shorter than n + 1.              *)
LEMMA SplitsFurther ==
  ASSUME NEW n \in Nat, NEW f, SplitsBelow(f, n)
  PROVE  \E g : SplitsBelow(g, n + 1)
<1> DEFINE g == [text \in Below(n + 1) |-> SplitStep(f, text)]
<1>1. ASSUME NEW text \in Below(n + 1)
      PROVE  SplitStep(f, text) = SplitStep(g, text)
  <2>1. text \in Text /\ Len(text) < n + 1 /\ Len(text) \in Nat
    BY DEF Below, Text
  <2>2. ASSUME Has(text) PROVE f[Rest(text)] = g[Rest(text)]
    <3>1. Rest(text) \in Text /\ Len(Rest(text)) < n /\ Len(Rest(text)) \in Nat
      BY <2>1, <2>2, RestIsText DEF Text
    <3>2. Rest(text) \in Below(n + 1)
      BY <3>1 DEF Below
    <3>3. g[Rest(text)] = SplitStep(f, Rest(text))
      BY <3>2
    <3> QED
      BY <3>1, <3>3, SplitsValue
  <2> HIDE DEF g
  <2> QED
    BY <2>1, <2>2, StepDependsOnRest
<1>2. g = [text \in Below(n + 1) |-> SplitStep(g, text)]
  BY <1>1
<1> QED
  BY <1>2 DEF SplitsBelow

(* Texts of any length can be split.                                       *)
LEMMA SplitsExists == \A n \in Nat : \E f : SplitsBelow(f, n)
<1> DEFINE Bad == {n \in Nat : ~\E f : SplitsBelow(f, n)}
<1>1. SUFFICES ASSUME Bad # {} PROVE FALSE
  OBVIOUS
<1>2. PICK n \in Bad : \A j \in Bad : n <= j
  <2> Bad \subseteq Nat
    OBVIOUS
  <2> HIDE DEF Bad
  <2> QED
    BY <1>1, LeastExists
<1>3. n # 0
  <2>1. Below(0) = {}
    BY DEF Below, Text
  <2>2. SplitsBelow([text \in {} |-> << >>], 0)
    BY <2>1 DEF SplitsBelow
  <2> QED
    BY <2>2
<1>4. n - 1 \in Nat /\ n - 1 \notin Bad
  BY <1>2, <1>3
<1>5. PICK f : SplitsBelow(f, n - 1)
  BY <1>4
<1>6. \E g : SplitsBelow(g, (n - 1) + 1) 
  <2> HIDE DEF Bad
  <2> QED
    BY <1>4, <1>5, SplitsFurther
<1> QED
  BY <1>6

(* There is a function that does what Split says, on all texts.            *)
LEMMA SplitExists == \E f : f = [text \in Text |-> SplitStep(f, text)]
<1> DEFINE G(n) == CHOOSE f : SplitsBelow(f, n)
           F == [text \in Text |-> G(Len(text) + 1)[text]]
<1>1. \A n \in Nat : SplitsBelow(G(n), n)
  BY SplitsExists
<1> HIDE DEF G
<1>2. ASSUME NEW text \in Text PROVE F[text] = SplitStep(F, text)
  <2>1. Len(text) \in Nat
    BY DEF Text
  <2> DEFINE n == Len(text) + 1
  <2>2. n \in Nat /\ Len(text) < n /\ SplitsBelow(G(n), n)
    BY <2>1, <1>1
  <2>3. F[text] = G(n)[text]
    OBVIOUS
  <2> HIDE DEF n
  <2>4. G(n)[text] = SplitStep(G(n), text)
    BY <2>2, SplitsValue
  <2>5. ASSUME Has(text) PROVE G(n)[Rest(text)] = F[Rest(text)]
    <3>1. /\ Rest(text) \in Text /\ Len(Rest(text)) \in Nat
          /\ Len(Rest(text)) < Len(text)
      BY <2>5, RestIsText DEF Text
    <3> DEFINE m == Len(Rest(text)) + 1
    <3>2. F[Rest(text)] = G(m)[Rest(text)]
      BY <3>1
    <3>3. /\ m \in Nat /\ SplitsBelow(G(m), m)
          /\ Len(Rest(text)) < m /\ Len(Rest(text)) < n
      BY <3>1, <2>2, <1>1, <2>1
    <3> HIDE DEF m, F
    <3>4. G(m)[Rest(text)] = G(n)[Rest(text)]
      BY <3>1, <3>3, <2>2, SplitsUnique
    <3> QED
      BY <3>2, <3>4
  <2> HIDE DEF F
  <2>6. SplitStep(G(n), text) = SplitStep(F, text)
    BY <2>5, StepDependsOnRest
  <2> QED
    BY <2>3, <2>4, <2>6
<1>3. F = [text \in Text |-> SplitStep(F, text)] 
  <2> DEFINE H == [text \in Text |-> SplitStep(F, text)]
  <2>1. \A text \in Text : F[text] = H[text]
    BY <1>2
  <2> QED
    BY <2>1
<1> QED
  BY <1>3

(* Split is such a function, so its defining equation holds.               *)
LEMMA SplitUnfolds ==
  ASSUME NEW text \in Text
  PROVE  Split[text] = SplitStep(Split, text)
<1>1. Split = CHOOSE f : f = [t \in Text |-> SplitStep(f, t)]
  BY DEF Split, SplitStep, FirstPart, Rest, Text, Found
<1>2. Split = [t \in Text |-> SplitStep(Split, t)]
  BY <1>1, SplitExists, Zenon
<1> QED
  BY <1>2

(* A text without separator is its own only part.                          *)
LEMMA SplitOfWhole ==
  ASSUME NEW text \in Text, ~Has(text)
  PROVE  Split[text] = <<text>>
  BY SplitUnfolds DEF SplitStep, Has

-----------------------------------------------------------------------------
(* Parts put together.                                                     *)

(* Lists of texts, with at least one.                                      *)
Texts == Seq(Text) \ {<< >>}

(* What flattening does up to the i-th text.                               *)
FlatStep(f, seqs, i) == IF i = 1 THEN seqs[i] ELSE f[i - 1] \o seqs[i]

(* f flattens the first n texts.                                           *)
Flattens(f, seqs, n) == f = [i \in 1..n |-> FlatStep(f, seqs, i)]

(* The function FlattenSeq takes its result from.                          *)
Flat(seqs) == CHOOSE f : Flattens(f, seqs, Len(seqs))

(* The texts Join flattens.                                                *)
Preceded(parts) ==
  [i \in 1..Len(parts) |-> IF i = 1 THEN parts[i] ELSE Separator \o parts[i]]

(* What such an f makes of the first i texts.                              *)
LEMMA FlattensValue ==
  ASSUME NEW f, NEW seqs, NEW n \in Nat, Flattens(f, seqs, n), NEW i \in 1..n
  PROVE  f[i] = FlatStep(f, seqs, i)
BY DEF Flattens

(* From n texts to n + 1.                                                  *)
LEMMA FlattensFurther ==
  ASSUME NEW f, NEW seqs, NEW n \in Nat, Flattens(f, seqs, n)
  PROVE  \E g : Flattens(g, seqs, n + 1)
<1> DEFINE g == [i \in 1..n + 1 |-> FlatStep(f, seqs, i)]
<1>1. ASSUME NEW i \in 1..n + 1
      PROVE  FlatStep(f, seqs, i) = FlatStep(g, seqs, i)
  <2>1. CASE i = 1
    BY <2>1 DEF FlatStep
  <2>2. CASE i # 1
    <3>1. i - 1 \in 1..n
      BY <2>2
    <3>2. g[i - 1] = FlatStep(f, seqs, i - 1)
      BY <3>1
    <3>3. f[i - 1] = FlatStep(f, seqs, i - 1)
      BY <3>1, FlattensValue
    <3>4. g[i - 1] = f[i - 1]
      BY <3>2, <3>3
    <3> HIDE DEF g
    <3> QED
      BY <3>4 DEF FlatStep
  <2> QED
    BY <2>1, <2>2
<1>2. g = [i \in 1..n + 1 |-> FlatStep(g, seqs, i)]
  BY <1>1
<1> QED
  BY <1>2 DEF Flattens

(* Any number of texts can be flattened.                                   *)
LEMMA FlattensExists ==
  ASSUME NEW seqs
  PROVE  \A n \in Nat : \E f : Flattens(f, seqs, n)
<1> DEFINE Bad == {n \in Nat : ~\E f : Flattens(f, seqs, n)}
<1>1. SUFFICES ASSUME Bad # {} PROVE FALSE
  OBVIOUS
<1>2. PICK n \in Bad : \A j \in Bad : n <= j
  <2> Bad \subseteq Nat
    OBVIOUS
  <2> HIDE DEF Bad
  <2> QED
    BY <1>1, LeastExists
<1>3. n # 0
  <2>1. Flattens([i \in 1..0 |-> FlatStep(seqs, seqs, i)], seqs, 0)
    BY DEF Flattens
  <2> QED
    BY <2>1
<1>4. n - 1 \in Nat /\ n - 1 \notin Bad
  BY <1>2, <1>3
<1>5. PICK f : Flattens(f, seqs, n - 1)
  BY <1>4
<1>6. \E g : Flattens(g, seqs, (n - 1) + 1) 
  <2> HIDE DEF Bad
  <2> QED
    BY <1>4, <1>5, FlattensFurther
<1> QED
  BY <1>6

(* The equations of FlattenSeq.                                            *)
LEMMA FlattenUnfolds ==
  ASSUME NEW seqs, Len(seqs) \in Nat \ {0}
  PROVE  /\ FlattenSeq(seqs) = Flat(seqs)[Len(seqs)]
         /\ Flat(seqs)[1] = seqs[1]
         /\ \A i \in 2..Len(seqs) :
              Flat(seqs)[i] = Flat(seqs)[i - 1] \o seqs[i]
<1>1. FlattenSeq(seqs) = Flat(seqs)[Len(seqs)]
  BY DEF FlattenSeq, Flat, Flattens, FlatStep
<1>2. Flattens(Flat(seqs), seqs, Len(seqs))
  BY FlattensExists, Zenon DEF Flat
<1>3. \A i \in 1..Len(seqs) : Flat(seqs)[i] = FlatStep(Flat(seqs), seqs, i)
  BY <1>2, FlattensValue
<1> DEFINE F == Flat(seqs)
<1> HIDE DEF F
<1>4. \A i \in 1..Len(seqs) :
        F[i] = IF i = 1 THEN seqs[i] ELSE F[i - 1] \o seqs[i]
  BY <1>3 DEF FlatStep, F
<1>5. F[1] = seqs[1]
  BY <1>4
<1>6. ASSUME NEW i \in 2..Len(seqs) PROVE F[i] = F[i - 1] \o seqs[i]
  <2>1. i \in 1..Len(seqs) /\ i # 1
    OBVIOUS
  <2> QED
    BY <2>1, <1>4
<1> QED
  BY <1>1, <1>5, <1>6 DEF F

(* Texts flattened are a text.                                             *)
LEMMA FlatType ==
  ASSUME NEW seqs \in Texts
  PROVE  \A i \in 1..Len(seqs) : Flat(seqs)[i] \in Text
<1>0. Len(seqs) \in Nat \ {0} /\ \A i \in 1..Len(seqs) : seqs[i] \in Text
  BY EmptySeq DEF Texts
<1> DEFINE F == Flat(seqs)
           Bad == {i \in 1..Len(seqs) : F[i] \notin Text}
<1>1. /\ F[1] = seqs[1]
      /\ \A i \in 2..Len(seqs) : F[i] = F[i - 1] \o seqs[i]
  BY <1>0, FlattenUnfolds
<1> HIDE DEF F
<1>2. SUFFICES ASSUME Bad # {} PROVE FALSE
  BY DEF F
<1>3. PICK i \in Bad : \A j \in Bad : i <= j
  <2> Bad \subseteq Nat
    OBVIOUS
  <2> HIDE DEF Bad
  <2> QED
    BY <1>2, LeastExists
<1>4. i # 1
  BY <1>0, <1>1
<1>5. i - 1 \in 1..Len(seqs) /\ i \in 2..Len(seqs)
  BY <1>0, <1>3, <1>4
<1>6. F[i - 1] \in Text
  BY <1>3, <1>5
<1>7. F[i - 1] \o seqs[i] \in Text
  BY <1>0, <1>5, <1>6, ConcatShape
<1>8. F[i] = F[i - 1] \o seqs[i]
  BY <1>1, <1>5
<1> QED
  BY <1>7, <1>8

(* Every text but the first has a separator before it.                     *)
LEMMA PrecededType ==
  ASSUME NEW parts \in Texts
  PROVE  /\ Preceded(parts) \in Texts
         /\ Len(Preceded(parts)) = Len(parts)
         /\ Len(parts) \in Nat \ {0}
         /\ \A i \in 1..Len(parts) : parts[i] \in Text
         /\ Preceded(parts)[1] = parts[1]
         /\ \A i \in 2..Len(parts) : Preceded(parts)[i] = Separator \o parts[i]
<1>1. Len(parts) \in Nat \ {0} /\ \A i \in 1..Len(parts) : parts[i] \in Text
  BY EmptySeq DEF Texts
<1>2. \A i \in 1..Len(parts) : Separator \o parts[i] \in Text
  BY <1>1, SeparatorIsText, ConcatShape
<1>3. \A i \in 1..Len(parts) :
        (IF i = 1 THEN parts[i] ELSE Separator \o parts[i]) \in Text
  BY <1>1, <1>2
<1> DEFINE value(i) == IF i = 1 THEN parts[i] ELSE Separator \o parts[i]
<1>4. Preceded(parts) = [i \in 1..Len(parts) |-> value(i)]
  BY DEF Preceded
<1>5. \A i \in 1..Len(parts) : value(i) \in Text
  BY <1>3
<1>6. /\ value(1) = parts[1]
      /\ \A i \in 2..Len(parts) : value(i) = Separator \o parts[i]
  BY <1>1
<1> HIDE DEF value
<1>7. Preceded(parts) \in Seq(Text) /\ Len(Preceded(parts)) = Len(parts)
  BY <1>1, <1>4, <1>5
<1>8. Preceded(parts) # << >>
  BY <1>1, <1>7
<1>9. \A i \in 1..Len(parts) : Preceded(parts)[i] = value(i)
  BY <1>4
<1> QED
  BY <1>1, <1>6, <1>7, <1>8, <1>9 DEF Texts

(* The equations of Join.                                                  *)
LEMMA JoinUnfolds ==
  ASSUME NEW parts \in Texts
  PROVE  LET F == Flat(Preceded(parts)) IN
         /\ Join(parts) = F[Len(parts)]
         /\ F[1] = parts[1]
         /\ \A i \in 2..Len(parts) : F[i] = F[i - 1] \o (Separator \o parts[i])
         /\ \A i \in 1..Len(parts) : F[i] \in Text
<1> DEFINE seqs == Preceded(parts)
<1>1. /\ seqs \in Texts
      /\ Len(seqs) = Len(parts)
      /\ Len(seqs) \in Nat \ {0}
      /\ seqs[1] = parts[1]
      /\ \A i \in 2..Len(parts) : seqs[i] = Separator \o parts[i]
  BY PrecededType
<1>2. Join(parts) = FlattenSeq(seqs)
  BY DEF Join, Preceded
<1> HIDE DEF seqs
<1>3. /\ FlattenSeq(seqs) = Flat(seqs)[Len(seqs)]
      /\ Flat(seqs)[1] = seqs[1]
      /\ \A i \in 2..Len(seqs) : Flat(seqs)[i] = Flat(seqs)[i - 1] \o seqs[i]
  BY <1>1, FlattenUnfolds
<1>4. \A i \in 1..Len(seqs) : Flat(seqs)[i] \in Text
  BY <1>1, FlatType
<1> QED
  BY <1>1, <1>2, <1>3, <1>4 DEF seqs

(* One part put together is the part.                                      *)
LEMMA JoinOfOne ==
  ASSUME NEW text \in Text
  PROVE  Join(<<text>>) = text
<1> DEFINE parts == <<text>>
<1>1. parts \in Texts /\ Len(parts) = 1 /\ parts[1] = text
  BY DEF Texts
<1> HIDE DEF parts
<1>2. Join(parts) = parts[1]
  BY <1>1, JoinUnfolds
<1> QED
  BY <1>1, <1>2 DEF parts

(* Parts put together are a text.                                          *)
LEMMA JoinType ==
  ASSUME NEW parts \in Texts
  PROVE  Join(parts) \in Text
<1>1. Len(parts) \in Nat \ {0}
  BY PrecededType
<1>2. Len(parts) \in 1..Len(parts)
  BY <1>1
<1> QED
  BY <1>2, JoinUnfolds

(* Parts can be put together from the left, as Split takes them off.       *)
LEMMA JoinFirst ==
  ASSUME NEW part \in Text, NEW parts \in Texts
  PROVE  /\ <<part>> \o parts \in Texts
         /\ Join(<<part>> \o parts) = part \o (Separator \o Join(parts))
<1> DEFINE all == <<part>> \o parts
           n == Len(parts)
<1>0. n \in Nat \ {0} /\ \A i \in 1..n : parts[i] \in Text
  BY PrecededType
<1>1. /\ all \in Texts /\ Len(all) = n + 1
      /\ all[1] = part
      /\ \A i \in 1..n : all[i + 1] = parts[i]
  <2> DEFINE one == <<part>>
  <2>1. one \in Seq(Text) /\ Len(one) = 1 /\ one[1] = part
    OBVIOUS
  <2>2. parts \in Seq(Text)
    BY DEF Texts
  <2> HIDE DEF one
  <2>3. /\ one \o parts \in Seq(Text) /\ Len(one \o parts) = 1 + n
        /\ \A i \in 1..1 + n :
             (one \o parts)[i] = IF i <= 1 THEN one[i] ELSE parts[i - 1]
    <3>1. /\ one \o parts \in Seq(Text)
          /\ Len(one \o parts) = Len(one) + Len(parts)
          /\ \A i \in 1..Len(one) + Len(parts) : (one \o parts)[i] =
               IF i <= Len(one) THEN one[i] ELSE parts[i - Len(one)]
      BY <2>1, <2>2, ConcatProperties
    <3> QED
      BY <3>1, <2>1
  <2> DEFINE u == one \o parts
  <2> HIDE DEF u
  <2>4. u[1] = part
    BY <2>1, <2>3, <1>0 DEF u
  <2>5. \A i \in 1..n : u[i + 1] = parts[i]
    BY <2>3, <1>0 DEF u
  <2>6. u # << >>
    BY <2>3, <1>0 DEF u
  <2> QED
    BY <2>3, <2>4, <2>5, <2>6, <1>0 DEF u, one, Texts
<1> HIDE DEF all
<1> DEFINE F == Flat(Preceded(all))
           G == Flat(Preceded(parts))
           H(i) == part \o (Separator \o G[i])
<1>2. /\ Join(all) = F[n + 1]
      /\ F[1] = part
      /\ \A i \in 2..n + 1 : F[i] = F[i - 1] \o (Separator \o all[i])
  BY <1>1, JoinUnfolds
<1>3. /\ Join(parts) = G[n]
      /\ G[1] = parts[1]
      /\ \A i \in 2..n : G[i] = G[i - 1] \o (Separator \o parts[i])
      /\ \A i \in 1..n : G[i] \in Text
  BY JoinUnfolds
<1> HIDE DEF F, G
<1> DEFINE Bad == {i \in 1..n : F[i + 1] # H(i)}
<1>4. Bad = {}
  <2> SUFFICES ASSUME Bad # {} PROVE FALSE
    OBVIOUS
  <2>1. PICK i \in Bad : \A j \in Bad : i <= j
    <3> Bad \subseteq Nat
      OBVIOUS
    <3> HIDE DEF Bad
    <3> QED
      BY LeastExists
  <2>2. i \in 1..n /\ F[i + 1] # part \o (Separator \o G[i])
    OBVIOUS
  <2>6. ASSUME NEW j \in 1..n, j < i
        PROVE  F[j + 1] = part \o (Separator \o G[j])
    <3>1. F[j + 1] # H(j) => j \in Bad
      OBVIOUS
    <3>2. j \notin Bad
      <4>1. j \in Bad => i <= j
        BY <2>1
      <4> HIDE DEF Bad
      <4>2. ~(i <= j)
        BY <2>2, <2>6, <1>0
      <4> QED
        BY <4>1, <4>2
    <3> QED
      BY <3>1, <3>2
  <2>3. F[i + 1] = F[i] \o (Separator \o parts[i])
    <3>1. i + 1 \in 2..n + 1 /\ (i + 1) - 1 = i
      BY <2>2, <1>0
    <3> HIDE DEF Bad
    <3> QED
      BY <3>1, <2>2, <1>1, <1>2
  <2>4. CASE i = 1
    BY <2>2, <2>3, <2>4, <1>2, <1>3
  <2>5. CASE i # 1
    <3>1. i - 1 \in 1..n /\ i \in 2..n /\ (i - 1) + 1 = i
      BY <2>2, <2>5, <1>0
    <3> HIDE DEF Bad
    <3>9. i - 1 < i
      BY <3>1
    <3>10. F[(i - 1) + 1] = part \o (Separator \o G[i - 1])
      BY <2>6, <3>1, <3>9
    <3>2. F[i] = part \o (Separator \o G[i - 1])
      BY <3>1, <3>10
    <3> DEFINE a == G[i - 1]
               b == Separator \o parts[i]
    <3>3. a \in Text /\ b \in Text /\ Separator \in Text
      BY <3>1, <1>0, <1>3, SeparatorIsText, ConcatShape
    <3>4. G[i] = a \o b
      BY <3>1, <1>3
    <3>5. F[i + 1] = (part \o (Separator \o a)) \o b
      BY <2>3, <3>2
    <3> HIDE DEF a, b
    <3>6. Separator \o a \in Text
      BY <3>3, ConcatShape
    <3>7. (Separator \o a) \o b = Separator \o (a \o b)
      BY <3>3, ConcatTwice
    <3> DEFINE d == Separator \o a
    <3>8. (part \o d) \o b = part \o (d \o b)
      <4> HIDE DEF d
      <4>1. d \in Text
        BY <3>6 DEF d
      <4> QED
        BY <4>1, <3>3, ConcatTwice
    <3> QED
      BY <2>2, <3>4, <3>5, <3>7, <3>8
  <2> QED
    BY <2>4, <2>5
<1>5. F[n + 1] = H(n)
  BY <1>0, <1>4
<1> QED
  BY <1>1, <1>2, <1>3, <1>5 DEF all

-----------------------------------------------------------------------------
(* Splitting and putting together.                                         *)

(* The parts of a text put together are the text, and have no separator.   *)
FallsApart(text) ==
  LET parts == Split[text] IN
  /\ parts \in Texts
  /\ Join(parts) = text
  /\ \A i \in 1..Len(parts) : ~Has(parts[i])

(* Before the first separator there is none.                               *)
LEMMA FirstPartWhole ==
  ASSUME NEW text \in Text, Has(text)
  PROVE  ~Has(FirstPart(text))
<1> DEFINE first == FirstPart(text)
           c == Cut(text)
<1>1. /\ first \in Text
      /\ Len(first) = c - 1
      /\ \A i \in 1..c - 1 : first[i] = text[i]
      /\ c \in Nat \ {0} /\ c + 2 <= Len(text) /\ Len(text) \in Nat
      /\ \A i \in Nat : SeparatorAt(text, i) => c <= i
  BY RestIsText, CutIsFirst DEF SeparatorAt, Text
<1> HIDE DEF first, c
<1>2. ASSUME NEW i, SeparatorAt(first, i) PROVE FALSE
  <2>1. i \in Nat \ {0} /\ i + 2 <= c - 1
    BY <1>1, <1>2 DEF SeparatorAt
  <2>2. SeparatorAt(text, i)
    BY <1>1, <1>2, <2>1 DEF SeparatorAt
  <2> QED
    BY <1>1, <2>1, <2>2
<1> QED
  BY <1>1, <1>2, FoundIff DEF Has, first

(* A text is what stands around its first separator.                       *)
LEMMA TextAroundCut ==
  ASSUME NEW text \in Text, Has(text)
  PROVE  text = FirstPart(text) \o (Separator \o Rest(text))
<1> DEFINE first == FirstPart(text)
           rest == Rest(text)
           c == Cut(text)
           n == Len(text)
<1>1. /\ first \in Text
      /\ Len(first) = c - 1
      /\ \A i \in 1..c - 1 : first[i] = text[i]
      /\ rest \in Text
      /\ Len(rest) = n - c - 2
      /\ \A i \in 1..Len(rest) : rest[i] = text[i + c + 2]
      /\ c \in Nat \ {0} /\ c + 2 <= n /\ n \in Nat
      /\ text[c] = ">" /\ text[c + 1] = ">" /\ text[c + 2] = ">"
  BY RestIsText, CutIsFirst DEF SeparatorAt, Text
<1> HIDE DEF first, c, rest
<1> DEFINE all == first \o (Separator \o rest)
<1>3. /\ all \in Text
      /\ Len(all) = Len(first) + 3 + Len(rest)
      /\ \A i \in 1..Len(first) : all[i] = first[i]
      /\ \A i \in 1..3 : all[Len(first) + i] = ">"
      /\ \A i \in 1..Len(rest) : all[Len(first) + 3 + i] = rest[i]
  BY <1>1, BeforeSeparator
<1> HIDE DEF all
<1>4. Len(all) = n
  BY <1>1, <1>3
<1>5. ASSUME NEW i \in 1..n PROVE all[i] = text[i]
  <2>1. CASE i < c
    BY <2>1, <1>1, <1>3
  <2>2. CASE i \in {c, c + 1, c + 2}
    <3>1. i - Len(first) \in 1..3 /\ Len(first) + (i - Len(first)) = i
      BY <2>2, <1>1
    <3>2. all[i] = ">"
      BY <3>1, <1>3
    <3> QED
      BY <2>2, <3>2, <1>1
  <2>3. CASE c + 2 < i
    <3> DEFINE k == i - c - 2
    <3>1. /\ k \in 1..Len(rest)
          /\ i = Len(first) + 3 + k /\ i = k + c + 2
      BY <2>3, <1>1
    <3> HIDE DEF k
    <3>2. all[i] = rest[k]
      BY <3>1, <1>3
    <3>3. rest[k] = text[i]
      BY <3>1, <1>1
    <3> QED
      BY <3>2, <3>3
  <2> QED
    BY <2>1, <2>2, <2>3, <1>1
<1>6. all = text
  BY <1>3, <1>4, <1>5, SeqEqual DEF Text
<1> QED
  BY <1>6 DEF all, first, rest

(* One more part without a separator.                                      *)
LEMMA PartsInTurn ==
  ASSUME NEW part \in Text, ~Has(part), NEW parts \in Texts,
         \A i \in 1..Len(parts) : ~Has(parts[i])
  PROVE  \A i \in 1..Len(<<part>> \o parts) : ~Has((<<part>> \o parts)[i])
<1> DEFINE one == <<part>>
           all == one \o parts
<1>1. one \in Seq(Text) /\ Len(one) = 1 /\ one[1] = part
  OBVIOUS
<1>2. parts \in Seq(Text) /\ Len(parts) \in Nat
  BY PrecededType DEF Texts
<1> HIDE DEF one
<1>3. /\ Len(all) = Len(one) + Len(parts)
      /\ \A i \in 1..Len(one) + Len(parts) : all[i] =
           IF i <= Len(one) THEN one[i] ELSE parts[i - Len(one)]
  BY <1>1, <1>2, ConcatProperties
<1> HIDE DEF all
<1>4. ASSUME NEW i \in 1..Len(all) PROVE ~Has(all[i])
  <2>1. /\ i \in 1..1 + Len(parts)
        /\ all[i] = IF i <= 1 THEN part ELSE parts[i - 1]
    BY <1>1, <1>2, <1>3
  <2>2. CASE i <= 1
    BY <2>1, <2>2
  <2>3. CASE ~(i <= 1)
    <3>1. i - 1 \in 1..Len(parts)
      BY <2>1, <2>3, <1>2
    <3> QED
      BY <2>1, <2>3, <3>1
  <2> QED
    BY <2>2, <2>3
<1> QED
  BY <1>4 DEF all, one

(* Every text falls apart into parts that make it up (xray/stats.rs:30-36):*)
(* a shortest text that does not would have a rest that does not.          *)
THEOREM SplitLosesNothing == \A text \in Text : FallsApart(text)
<1> DEFINE Bad == {n \in Nat :
                     \E text \in Text : Len(text) = n /\ ~FallsApart(text)}
<1>1. SUFFICES ASSUME NEW u \in Text, ~FallsApart(u) PROVE FALSE
  OBVIOUS
<1>2. Len(u) \in Nat /\ Len(u) \in Bad
  BY <1>1 DEF Text
<1>3. PICK n \in Bad : \A j \in Bad : n <= j
  <2> Bad \subseteq Nat /\ Bad # {}
    BY <1>2
  <2> HIDE DEF Bad
  <2> QED
    BY LeastExists
<1>4. PICK text \in Text : Len(text) = n /\ ~FallsApart(text)
  OBVIOUS
<1>5. CASE ~Has(text)
  <2>1. Split[text] = <<text>>
    BY <1>5, SplitOfWhole
  <2> DEFINE parts == <<text>>
  <2>2. parts \in Texts /\ Len(parts) = 1 /\ parts[1] = text
    BY DEF Texts
  <2>3. Join(parts) = text
    BY JoinOfOne
  <2> HIDE DEF parts
  <2>4. \A i \in 1..Len(parts) : ~Has(parts[i])
    BY <1>5, <2>2
  <2>5. Split[text] = parts
    BY <2>1 DEF parts
  <2>6. FallsApart(text)
    BY <2>2, <2>3, <2>4, <2>5 DEF FallsApart
  <2> QED
    BY <1>4, <2>6
<1>6. CASE Has(text)
  <2> DEFINE first == FirstPart(text)
             rest == Rest(text)
             parts == Split[rest]
             all == <<first>> \o parts
  <2>1. /\ first \in Text
        /\ rest \in Text /\ Len(rest) \in Nat /\ Len(rest) < Len(text)
    BY <1>6, RestIsText DEF Text
  <2>2. text = first \o (Separator \o rest)
    BY <1>6, TextAroundCut
  <2>3. ~Has(first)
    BY <1>6, FirstPartWhole
  <2>4. Split[text] = all
    BY <1>6, SplitUnfolds DEF SplitStep, Has
  <2> HIDE DEF first, rest
  <2>5. FallsApart(rest)
    <3>1. ~(n <= Len(rest))
      BY <1>4, <2>1
    <3>2. ~FallsApart(rest) => Len(rest) \in Bad
      BY <2>1
    <3> HIDE DEF Bad
    <3> QED
      BY <1>3, <3>1, <3>2
  <2>6. /\ parts \in Texts /\ Join(parts) = rest
        /\ \A i \in 1..Len(parts) : ~Has(parts[i])
    BY <2>5 DEF FallsApart
  <2> HIDE DEF parts
  <2>7. all \in Texts /\ Join(all) = first \o (Separator \o rest)
    BY <2>1, <2>6, JoinFirst
  <2>8. \A i \in 1..Len(all) : ~Has(all[i])
    BY <2>1, <2>3, <2>6, PartsInTurn
  <2> HIDE DEF all
  <2>9. FallsApart(text)
    BY <2>2, <2>4, <2>7, <2>8 DEF FallsApart
  <2> QED
    BY <1>4, <2>9
<1> QED
  BY <1>5, <1>6

-----------------------------------------------------------------------------
(* Names.                                                                  *)

(* The name of a counter.                                                  *)
SpelledOut(c) ==
  <<c.scope>> \o (Separator \o
    (c.id \o (Separator \o
      (<<"traffic">> \o (Separator \o <<c.metric>>)))))

(* What a counter is made of.                                              *)
LEMMA CounterFields ==
  ASSUME NEW c \in Counter
  PROVE  /\ c.scope \in {"user", "inbound"}
         /\ c.id \in Ident /\ c.id \in Text
         /\ c.metric \in Metric
         /\ <<c.scope>> \in Text /\ <<"traffic">> \in Text /\ <<c.metric>> \in Text
         /\ << <<c.scope>>, c.id, <<"traffic">>, <<c.metric>> >> \in Texts
<1>1. c.scope \in {"user", "inbound"} /\ c.id \in Ident /\ c.metric \in Metric
  BY DEF Counter
<1>2. c.scope \in Piece /\ c.metric \in Piece /\ "traffic" \in Piece /\ c.id \in Text
  BY <1>1, StatNamesAssumption DEF Text
<1>3. <<c.scope>> \in Text /\ <<"traffic">> \in Text /\ <<c.metric>> \in Text
  BY <1>2 DEF Text
<1> DEFINE a == <<c.scope>>
           b == <<"traffic">>
           d == <<c.metric>>
           id == c.id
<1>4. a \in Text /\ b \in Text /\ d \in Text /\ id \in Text
  BY <1>2, <1>3
<1> HIDE DEF a, b, d, id
<1>5. <<a, id, b, d>> \in Texts
  BY <1>4 DEF Texts
<1> QED
  BY <1>1, <1>2, <1>3, <1>5 DEF a, b, d, id

(* A list is its first text and the others.                                *)
LEMMA ListOfFirst ==
  ASSUME NEW first \in Text, NEW others \in Seq(Text), NEW all \in Seq(Text),
         Len(all) = Len(others) + 1, all[1] = first,
         \A i \in 1..Len(others) : all[i + 1] = others[i]
  PROVE  all = <<first>> \o others
<1> DEFINE one == <<first>>
           both == one \o others
<1>1. one \in Seq(Text) /\ Len(one) = 1 /\ one[1] = first /\ Len(others) \in Nat
  OBVIOUS
<1> HIDE DEF one
<1>2. /\ both \in Seq(Text) /\ Len(both) = Len(one) + Len(others)
      /\ \A i \in 1..Len(one) + Len(others) : both[i] =
           IF i <= Len(one) THEN one[i] ELSE others[i - Len(one)]
  BY <1>1, ConcatProperties
<1> HIDE DEF both
<1>3. ASSUME NEW i \in 1..Len(all) PROVE all[i] = both[i]
  <2>1. both[i] = IF i <= 1 THEN first ELSE others[i - 1]
    BY <1>1, <1>2
  <2>2. CASE i <= 1
    BY <2>1, <2>2
  <2>3. CASE ~(i <= 1)
    <3>1. i - 1 \in 1..Len(others) /\ (i - 1) + 1 = i
      BY <2>3, <1>1
    <3> QED
      BY <2>1, <2>3, <3>1
  <2> QED
    BY <2>2, <2>3
<1>5. Len(all) = Len(both)
  BY <1>1, <1>2
<1>4. all = both
  BY <1>2, <1>3, <1>5, SeqEqual
<1> QED
  BY <1>4 DEF both, one

(* Lists of two, three and four texts, one text after another.             *)
InTurn(a, b, d, e) ==
  /\ <<a, b, d, e>> = <<a>> \o <<b, d, e>>
  /\ <<b, d, e>> = <<b>> \o <<d, e>>
  /\ <<d, e>> = <<d>> \o <<e>>

(* Lists are.                                                              *)
LEMMA ListOfFour ==
  ASSUME NEW a \in Text, NEW b \in Text, NEW d \in Text, NEW e \in Text
  PROVE  InTurn(a, b, d, e)
<1> DEFINE one == <<e>>
           two == <<d, e>>
           three == <<b, d, e>>
           four == <<a, b, d, e>>
<1>1. /\ one \in Seq(Text) /\ Len(one) = 1 /\ one[1] = e
      /\ two \in Seq(Text) /\ Len(two) = 2 /\ two[1] = d /\ two[2] = e
      /\ three \in Seq(Text) /\ Len(three) = 3
      /\ three[1] = b /\ three[2] = d /\ three[3] = e
      /\ four \in Seq(Text) /\ Len(four) = 4
      /\ four[1] = a /\ four[2] = b /\ four[3] = d /\ four[4] = e
  OBVIOUS
<1> HIDE DEF one, two, three, four
<1>2. \A i \in 1..Len(one) : two[i + 1] = one[i]
  BY <1>1
<1>3. \A i \in 1..Len(two) : three[i + 1] = two[i]
  BY <1>1
<1>4. \A i \in 1..Len(three) : four[i + 1] = three[i]
  BY <1>1
<1>5. /\ Len(two) = Len(one) + 1
      /\ Len(three) = Len(two) + 1
      /\ Len(four) = Len(three) + 1
  BY <1>1
<1>6. two = <<d>> \o one
  BY <1>1, <1>2, <1>5, ListOfFirst
<1>7. three = <<b>> \o two
  BY <1>1, <1>3, <1>5, ListOfFirst
<1>8. four = <<a>> \o three
  BY <1>1, <1>4, <1>5, ListOfFirst
<1> QED
  BY <1>6, <1>7, <1>8 DEF one, two, three, four, InTurn

(* A name is scope, id, "traffic" and metric, with separators between.     *)
LEMMA NameSpelled ==
  ASSUME NEW c \in Counter
  PROVE  NameOf(c) = SpelledOut(c)
<1> DEFINE a == <<c.scope>>
           b == c.id
           d == <<"traffic">>
           e == <<c.metric>>
<1>1. a \in Text /\ b \in Text /\ d \in Text /\ e \in Text
  BY CounterFields
<1>2. NameOf(c) = Join(<<a, b, d, e>>)
  BY DEF NameOf
<1>3. SpelledOut(c) = a \o (Separator \o (b \o (Separator \o (d \o (Separator \o e)))))
  BY DEF SpelledOut
<1> HIDE DEF a, b, d, e
<1> DEFINE one == <<e>>
           two == <<d, e>>
           three == <<b, d, e>>
<1>4. one \in Texts /\ two \in Texts /\ three \in Texts
  BY <1>1 DEF Texts
<1>5. <<a, b, d, e>> = <<a>> \o three /\ three = <<b>> \o two /\ two = <<d>> \o one
  <2>1. InTurn(a, b, d, e)
    BY <1>1, ListOfFour
  <2> QED
    BY <2>1 DEF InTurn
<1>6. Join(one) = e
  BY <1>1, JoinOfOne
<1> HIDE DEF one, two, three
<1>7. Join(<<d>> \o one) = d \o (Separator \o Join(one))
  BY <1>1, <1>4, JoinFirst
<1>8. Join(<<b>> \o two) = b \o (Separator \o Join(two))
  BY <1>1, <1>4, JoinFirst
<1>9. Join(<<a>> \o three) = a \o (Separator \o Join(three))
  BY <1>1, <1>4, JoinFirst
<1> QED
  BY <1>2, <1>3, <1>5, <1>6, <1>7, <1>8, <1>9

(* A name is a text.                                                       *)
LEMMA NameIsText ==
  ASSUME NEW c \in Counter
  PROVE  NameOf(c) \in Text
<1> DEFINE parts == << <<c.scope>>, c.id, <<"traffic">>, <<c.metric>> >>
<1>1. parts \in Texts
  BY CounterFields
<1>2. NameOf(c) = Join(parts)
  BY DEF NameOf
<1> HIDE DEF parts
<1> QED
  BY <1>1, <1>2, JoinType

-----------------------------------------------------------------------------
(* Names of counters with a plain id.                                      *)

(* What it is to end in a piece.                                           *)
LEMMA SuffixOfOne ==
  ASSUME NEW x, NEW S, NEW s \in Seq(S)
  PROVE  IsSuffix(<<x>>, s) <=> s # << >> /\ s[Len(s)] = x
<1>1. Len(s) \in Nat
  BY LenProperties
<1> DEFINE one == <<x>>
           r == Reverse(s)
           w == Reverse(one)
           p == SubSeq(r, 1, 1)
           v == SubSeq(w, 1, 1)
<1>2. Len(one) = 1 /\ one[1] = x /\ one \in Seq({x})
  OBVIOUS
<1> HIDE DEF one
<1>3. w = [i \in 1..1 |-> x]
  <2>1. w = [i \in 1..1 |-> one[(1 - i) + 1]]
    BY <1>2 DEF Reverse
  <2>2. \A i \in 1..1 : one[(1 - i) + 1] = x
    BY <1>2
  <2> HIDE DEF w
  <2> QED
    BY <2>1, <2>2
<1>4. w \in Seq({x}) /\ Len(w) = 1 /\ w[1] = x
  BY <1>3
<1> HIDE DEF w
<1>5. v \in Seq({x}) /\ Len(v) = 1 /\ v[1] = x
  BY <1>4
<1>6. IsSuffix(one, s) <=> 1 <= Len(r) /\ v = p
  BY <1>4 DEF IsSuffix, IsPrefix, w
<1> HIDE DEF v
<1>7. CASE s = << >>
  <2>1. Len(s) = 0
    BY <1>7
  <2>2. Len(r) = 0
    BY <2>1 DEF Reverse
  <2> QED
    BY <1>6, <1>7, <2>2 DEF one
<1>8. CASE s # << >>
  <2>1. Len(s) \in Nat \ {0}
    BY <1>8, EmptySeq
  <2>2. \A i \in 1..Len(s) : s[(Len(s) - i) + 1] \in S
    BY <2>1, ElementOfSeq
  <2>3. r = [i \in 1..Len(s) |-> s[(Len(s) - i) + 1]]
    BY DEF Reverse
  <2>4. r \in Seq(S) /\ Len(r) = Len(s)
    BY <2>1, <2>2, <2>3
  <2>5. r[1] = s[Len(s)]
    BY <2>1, <2>3
  <2> HIDE DEF r
  <2>6. p \in Seq(S) /\ Len(p) = 1 /\ p[1] = s[Len(s)]
    BY <2>1, <2>4, <2>5
  <2> HIDE DEF p
  <2>7. ASSUME s[Len(s)] = x PROVE v = p
    <3>1. v \in Seq({x} \cup S) /\ p \in Seq({x} \cup S)
      BY <1>5, <2>6
    <3>2. \A i \in 1..Len(v) : v[i] = p[i]
      BY <1>5, <2>6, <2>7
    <3> QED
      BY <3>1, <3>2, <1>5, <2>6, SeqEqual
  <2>8. v = p <=> s[Len(s)] = x
    BY <2>7, <1>5, <2>6
  <2> QED
    BY <1>6, <1>8, <2>1, <2>4, <2>8 DEF one
<1> QED
  BY <1>7, <1>8

(* The first separator after a part that has none and does not end in ">". *)
LEMMA CutAfterPart ==
  ASSUME NEW part \in Text, NEW rest \in Text, NEW text \in Text,
         Len(text) = Len(part) + 3 + Len(rest),
         \A i \in 1..Len(part) : text[i] = part[i],
         \A i \in 1..3 : text[Len(part) + i] = ">",
         \A i \in 1..Len(rest) : text[Len(part) + 3 + i] = rest[i],
         ~Has(part), part = << >> \/ part[Len(part)] # ">"
  PROVE  /\ Has(text)
         /\ Cut(text) = Len(part) + 1
         /\ FirstPart(text) = part
         /\ Rest(text) = rest
<1>0. Len(part) \in Nat /\ Len(rest) \in Nat /\ (part # << >> => Len(part) > 0)
  BY DEF Text
<1> DEFINE c == Len(part) + 1
<1>1. SeparatorAt(text, c)
  BY <1>0 DEF SeparatorAt
<1>2. Has(text)
  BY <1>1, FoundIff DEF Has
<1>3. ASSUME NEW i \in Nat, SeparatorAt(text, i), i < c PROVE FALSE
  <2>0. i \in 1..Len(part)
    BY <1>0, <1>3 DEF SeparatorAt
  <2>1. CASE i + 2 <= Len(part)
    <3>1. SeparatorAt(part, i)
      BY <2>0, <2>1, <1>0, <1>3 DEF SeparatorAt
    <3> QED
      BY <3>1, FoundIff DEF Has
  <2>2. CASE Len(part) < i + 2
    <3>1. Len(part) \in {i, i + 1}
      BY <2>0, <2>2, <1>0
    <3>2. text[Len(part)] = ">"
      BY <3>1, <1>3 DEF SeparatorAt
    <3>3. text[Len(part)] = part[Len(part)] /\ part # << >>
      BY <2>0, <1>0
    <3> QED
      BY <3>2, <3>3
  <2> QED
    BY <2>0, <2>1, <2>2, <1>0
<1>4. Cut(text) = c
  <2>1. SeparatorAt(text, Cut(text)) /\ Cut(text) <= c /\ Cut(text) \in Nat
    BY <1>0, <1>1, <1>2, CutIsFirst DEF SeparatorAt
  <2> QED
    BY <2>1, <1>3, <1>0
<1>5. /\ Rest(text) \in Text
      /\ Len(Rest(text)) = Len(rest)
      /\ \A i \in 1..Len(rest) : Rest(text)[i] = text[i + Cut(text) + 2]
      /\ FirstPart(text) \in Text
      /\ Len(FirstPart(text)) = Len(part)
      /\ \A i \in 1..Len(part) : FirstPart(text)[i] = text[i]
  BY <1>0, <1>2, <1>4, RestIsText
<1>6. \A i \in 1..Len(rest) : Rest(text)[i] = rest[i]
  BY <1>0, <1>4, <1>5
<1>7. Rest(text) = rest
  BY <1>5, <1>6, SeqEqual DEF Text
<1>8. FirstPart(text) = part
  BY <1>5, SeqEqual DEF Text
<1> QED
  BY <1>2, <1>4, <1>7, <1>8

(* Such a part is split off as it is.                                      *)
LEMMA SplitOff ==
  ASSUME NEW part \in Text, NEW rest \in Text,
         ~Has(part), part = << >> \/ part[Len(part)] # ">"
  PROVE  Split[part \o (Separator \o rest)] = <<part>> \o Split[rest]
<1> DEFINE text == part \o (Separator \o rest)
<1>1. /\ text \in Text
      /\ Len(text) = Len(part) + 3 + Len(rest)
      /\ \A i \in 1..Len(part) : text[i] = part[i]
      /\ \A i \in 1..3 : text[Len(part) + i] = ">"
      /\ \A i \in 1..Len(rest) : text[Len(part) + 3 + i] = rest[i]
  BY BeforeSeparator
<1> HIDE DEF text
<1>2. Has(text) /\ FirstPart(text) = part /\ Rest(text) = rest
  BY <1>1, CutAfterPart
<1>3. Split[text] = <<part>> \o Split[rest]
  BY <1>1, <1>2, SplitUnfolds DEF SplitStep, Has
<1> QED
  BY <1>3 DEF text

(* A single piece has no separator.                                        *)
LEMMA WordHasNone ==
  ASSUME NEW w \in Piece
  PROVE  <<w>> \in Text /\ ~Has(<<w>>) /\ (w # ">" => <<w>>[Len(<<w>>)] # ">")
<1> DEFINE text == <<w>>
<1>1. text \in Text /\ Len(text) = 1 /\ text[1] = w
  BY DEF Text
<1> HIDE DEF text
<1>2. ~Has(text)
  BY <1>1, FoundIff DEF Has, SeparatorAt
<1> QED
  BY <1>1, <1>2 DEF text

(* An id that is plain is such a part.                                     *)
LEMMA PlainMeans ==
  ASSUME NEW id \in Text, Plain(id)
  PROVE  ~Has(id) /\ (id = << >> \/ id[Len(id)] # ">")
BY SuffixOfOne DEF Plain, Has, Found, Text

(* The parts of a name are what it was made of.                            *)
LEMMA PlainParts ==
  ASSUME NEW c \in Counter, Plain(c.id)
  PROVE  PartsOf(NameOf(c)) =
           << <<c.scope>>, c.id, <<"traffic">>, <<c.metric>> >>
<1> DEFINE a == <<c.scope>>
           b == c.id
           d == <<"traffic">>
           e == <<c.metric>>
<1>1. a \in Text /\ b \in Text /\ d \in Text /\ e \in Text
  BY CounterFields
<1>2. NameOf(c) = a \o (Separator \o (b \o (Separator \o (d \o (Separator \o e)))))
  BY NameSpelled DEF SpelledOut
<1>3. c.scope \in Piece /\ "traffic" \in Piece /\ c.metric \in Piece
  BY CounterFields, StatNamesAssumption
<1>4. c.scope # ">"
  BY CounterFields
<1>5. /\ ~Has(a) /\ a[Len(a)] # ">"
      /\ ~Has(d) /\ d[Len(d)] # ">"
      /\ ~Has(e)
  BY <1>3, <1>4, WordHasNone
<1>6. ~Has(b) /\ (b = << >> \/ b[Len(b)] # ">")
  BY <1>1, PlainMeans
<1> HIDE DEF a, b, d, e
<1> DEFINE fromMetric == e
           fromTraffic == d \o (Separator \o e)
           fromId == b \o (Separator \o fromTraffic)
           all == a \o (Separator \o fromId)
<1>7. Separator \o e \in Text
  BY <1>1, SeparatorIsText, ConcatShape
<1>8. fromTraffic \in Text
  <2> DEFINE t == Separator \o e
  <2> HIDE DEF t
  <2>1. t \in Text
    BY <1>7 DEF t
  <2>2. d \o t \in Text
    BY <1>1, <2>1, ConcatShape
  <2> QED
    BY <2>2 DEF t
<1>9. Split[fromTraffic] = <<d>> \o <<e>>
  BY <1>1, <1>5, SplitOff, SplitOfWhole
<1> HIDE DEF fromTraffic
<1>10. fromId \in Text
  <2> DEFINE t == Separator \o fromTraffic
  <2>1. t \in Text
    BY <1>8, SeparatorIsText, ConcatShape
  <2> HIDE DEF t
  <2>2. b \o t \in Text
    BY <1>1, <2>1, ConcatShape
  <2> QED
    BY <2>2 DEF t
<1>11. Split[fromId] = <<b>> \o Split[fromTraffic]
  BY <1>1, <1>6, <1>8, SplitOff
<1> HIDE DEF fromId
<1>12. Split[all] = <<a>> \o Split[fromId]
  BY <1>1, <1>5, <1>10, SplitOff
<1>13. NameOf(c) = all
  BY <1>2 DEF fromTraffic, fromId
<1> HIDE DEF all
<1>14. Split[NameOf(c)] = <<a>> \o (<<b>> \o (<<d>> \o <<e>>))
  BY <1>9, <1>11, <1>12, <1>13
<1>15. <<a, b, d, e>> = <<a>> \o (<<b>> \o (<<d>> \o <<e>>))
  <2>1. InTurn(a, b, d, e)
    BY <1>1, ListOfFour
  <2>2. <<a, b, d, e>> = <<a>> \o <<b, d, e>>
    BY <2>1 DEF InTurn
  <2>3. <<b, d, e>> = <<b>> \o <<d, e>>
    BY <2>1 DEF InTurn
  <2>4. <<d, e>> = <<d>> \o <<e>>
    BY <2>1 DEF InTurn
  <2> QED
    BY <2>2, <2>3, <2>4
<1> QED
  BY <1>14, <1>15 DEF PartsOf, a, b, d, e

(* So are the fields of its record.                                        *)
LEMMA PlainFields ==
  ASSUME NEW c \in Counter, Plain(c.id)
  PROVE  ParseStatName(NameOf(c)) =
           [name |-> NameOf(c), parts |-> PartsOf(NameOf(c)),
            scope |-> <<c.scope>>, id |-> c.id,
            category |-> <<"traffic">>, metric |-> <<c.metric>>]
<1> DEFINE name == NameOf(c)
           a == <<c.scope>>
           b == c.id
           d == <<"traffic">>
           e == <<c.metric>>
<1>1. PartsOf(name) = <<a, b, d, e>>
  BY PlainParts
<1> HIDE DEF name, a, b, d, e
<1>2. Len(PartsOf(name)) = 4
  BY <1>1
<1>3. /\ Part(name, 1) = a /\ Part(name, 2) = b
      /\ Part(name, 3) = d /\ Part(name, 4) = e
  BY <1>1, <1>2 DEF Part
<1>4. ParseStatName(name) =
        [name |-> name, parts |-> PartsOf(name),
         scope |-> a, id |-> b, category |-> d, metric |-> e]
  BY <1>3 DEF ParseStatName
<1> QED
  BY <1>4 DEF name, a, b, d, e

-----------------------------------------------------------------------------
(* Names that contain "user>>>".                                           *)

(* The pattern of list_users.                                              *)
UserPattern == <<"user">> \o Separator

(* It occurs at place i.                                                   *)
UserAt(text, i) ==
  /\ i \in Nat \ {0} /\ i + 3 <= Len(text)
  /\ text[i] = "user" /\ text[i + 1] = ">"
  /\ text[i + 2] = ">" /\ text[i + 3] = ">"

(* It has four pieces.                                                     *)
LEMMA UserPatternIs ==
  /\ UserPattern \in Seq(Piece) /\ Len(UserPattern) = 4
  /\ UserPattern[1] = "user" /\ UserPattern[2] = ">"
  /\ UserPattern[3] = ">" /\ UserPattern[4] = ">"
<1> DEFINE one == <<"user">>
<1>1. one \in Text /\ Len(one) = 1 /\ one[1] = "user"
  BY StatNamesAssumption DEF Text
<1> HIDE DEF one
<1> DEFINE all == one \o Separator
<1>2. /\ all \in Text /\ Len(all) = Len(one) + Len(Separator)
      /\ \A i \in 1..Len(one) : all[i] = one[i]
      /\ \A i \in 1..Len(Separator) : all[Len(one) + i] = Separator[i]
  BY <1>1, SeparatorIsText, ConcatShape
<1>3. UserPattern = all
  BY DEF UserPattern, one
<1> HIDE DEF all
<1>4. \A i \in 1..3 : all[1 + i] = ">"
  BY <1>1, <1>2, SeparatorIsText
<1>5. all[2] = ">" /\ all[3] = ">" /\ all[4] = ">"
  BY <1>4
<1>6. all[1] = "user" /\ Len(all) = 4
  BY <1>1, <1>2, SeparatorIsText
<1> QED
  BY <1>2, <1>3, <1>5, <1>6 DEF Text

(* Where it is found.                                                      *)
LEMMA UserFoundIff ==
  ASSUME NEW text \in Text, NEW i
  PROVE  i \in Occurrences(text, UserPattern) <=> UserAt(text, i)
<1>1. Len(text) \in Nat
  BY DEF Text
<1>2. ASSUME i \in 1..Len(text), i + 3 <= Len(text)
      PROVE  SubSeq(text, i, i + 3) = UserPattern <=>
               /\ text[i] = "user" /\ text[i + 1] = ">"
               /\ text[i + 2] = ">" /\ text[i + 3] = ">"
  <2> DEFINE s == SubSeq(text, i, i + 3)
  <2>1. /\ s \in Seq(Piece) /\ Len(s) = 4
        /\ s[1] = text[i] /\ s[2] = text[i + 1]
        /\ s[3] = text[i + 2] /\ s[4] = text[i + 3]
    BY <1>2 DEF Text
  <2> HIDE DEF s
  <2>2. ASSUME s[1] = "user", s[2] = ">", s[3] = ">", s[4] = ">"
        PROVE  s = UserPattern
    <3>1. \A j \in 1..4 : s[j] = UserPattern[j]
      BY <2>2, UserPatternIs
    <3> QED
      BY <2>1, <3>1, UserPatternIs, SeqEqual
  <2>3. s = UserPattern <=>
          s[1] = "user" /\ s[2] = ">" /\ s[3] = ">" /\ s[4] = ">"
    BY <2>2, UserPatternIs
  <2> QED
    BY <2>1, <2>3 DEF s
<1>3. i \in Occurrences(text, UserPattern) <=>
        /\ i \in 1..Len(text) /\ i + 3 <= Len(text)
        /\ SubSeq(text, i, i + 3) = UserPattern
  <2>1. Len(UserPattern) = 4
    BY UserPatternIs
  <2>2. \A j \in 1..Len(text) : j + 4 - 1 = j + 3
    BY <1>1
  <2> QED
    BY <2>1, <2>2 DEF Occurrences
<1> QED
  BY <1>1, <1>2, <1>3 DEF UserAt

(* A name, piece by piece.                                                 *)
LEMMA NamePieces ==
  ASSUME NEW c \in Counter
  PROVE  LET name == NameOf(c)
             n == Len(c.id)
         IN  /\ name \in Text /\ n \in Nat /\ Len(name) = n + 12
             /\ name[1] = c.scope
             /\ \A i \in 2..4 : name[i] = ">"
             /\ \A i \in 1..n : name[4 + i] = c.id[i]
             /\ \A i \in 5..7 : name[n + i] = ">"
             /\ name[n + 8] = "traffic"
             /\ \A i \in 9..11 : name[n + i] = ">"
             /\ name[n + 12] = c.metric
<1> DEFINE a == <<c.scope>>
           b == c.id
           d == <<"traffic">>
           e == <<c.metric>>
           third == d \o (Separator \o e)
           second == b \o (Separator \o third)
           first == a \o (Separator \o second)
           n == Len(b)
<1>1. /\ a \in Text /\ b \in Text /\ d \in Text /\ e \in Text
      /\ Len(a) = 1 /\ a[1] = c.scope
      /\ Len(d) = 1 /\ d[1] = "traffic"
      /\ Len(e) = 1 /\ e[1] = c.metric
  BY CounterFields
<1>2. NameOf(c) = first
  BY NameSpelled DEF SpelledOut
<1>3. Len(b) \in Nat
  BY <1>1 DEF Text
<1> HIDE DEF a, b, d, e
<1>4. /\ third \in Text /\ Len(third) = Len(d) + 3 + Len(e)
      /\ \A i \in 1..Len(d) : third[i] = d[i]
      /\ \A i \in 1..3 : third[Len(d) + i] = ">"
      /\ \A i \in 1..Len(e) : third[Len(d) + 3 + i] = e[i]
  BY <1>1, BeforeSeparator
<1> HIDE DEF third
<1>5. /\ second \in Text /\ Len(second) = Len(b) + 3 + Len(third)
      /\ \A i \in 1..Len(b) : second[i] = b[i]
      /\ \A i \in 1..3 : second[Len(b) + i] = ">"
      /\ \A i \in 1..Len(third) : second[Len(b) + 3 + i] = third[i]
  BY <1>1, <1>4, BeforeSeparator
<1> HIDE DEF second
<1>6. /\ first \in Text /\ Len(first) = Len(a) + 3 + Len(second)
      /\ \A i \in 1..Len(a) : first[i] = a[i]
      /\ \A i \in 1..3 : first[Len(a) + i] = ">"
      /\ \A i \in 1..Len(second) : first[Len(a) + 3 + i] = second[i]
  BY <1>1, <1>5, BeforeSeparator
<1> HIDE DEF first
<1>7. /\ Len(third) = 5 /\ third[1] = "traffic"
      /\ third[2] = ">" /\ third[3] = ">"
      /\ third[4] = ">" /\ third[5] = c.metric
  <2>1. Len(third) = 5 /\ third[1] = "traffic"
    BY <1>1, <1>4
  <2>2. \A i \in 1..3 : third[1 + i] = ">"
    BY <1>1, <1>4
  <2>3. \A i \in 1..1 : third[4 + i] = e[i]
    BY <1>1, <1>4
  <2>4. /\ third[1 + 1] = ">" /\ third[1 + 2] = ">" /\ third[1 + 3] = ">"
        /\ third[4 + 1] = c.metric
    BY <2>2, <2>3, <1>1
  <2> QED
    BY <2>1, <2>4
<1>8. Len(second) = n + 8 /\ Len(first) = n + 12
  BY <1>1, <1>3, <1>5, <1>6, <1>7
<1>9. first[1] = c.scope
  BY <1>1, <1>6
<1>10. \A i \in 2..4 : first[i] = ">"
  <2> TAKE i \in 2..4
  <2>1. i - 1 \in 1..3 /\ 1 + (i - 1) = i
    OBVIOUS
  <2> QED
    BY <2>1, <1>1, <1>6
<1>11. \A i \in 1..n + 8 : first[4 + i] = second[i]
  BY <1>1, <1>6, <1>8
<1>12. \A i \in 1..n : first[4 + i] = b[i]
  BY <1>3, <1>5, <1>11
<1>13. \A i \in 5..7 : first[n + i] = ">"
  <2> TAKE i \in 5..7
  <2>1. i - 4 \in 1..3 /\ n + (i - 4) \in 1..n + 8 /\ 4 + (n + (i - 4)) = n + i
    BY <1>3
  <2>2. second[n + (i - 4)] = ">"
    BY <2>1, <1>5
  <2>3. first[4 + (n + (i - 4))] = second[n + (i - 4)]
    BY <2>1, <1>11
  <2> QED
    BY <2>1, <2>2, <2>3
<1>14. \A i \in 8..12 : first[n + i] = third[i - 7]
  <2> TAKE i \in 8..12
  <2>1. /\ i - 7 \in 1..5 /\ n + 3 + (i - 7) \in 1..n + 8
        /\ 4 + (n + 3 + (i - 7)) = n + i
    BY <1>3
  <2>2. second[n + 3 + (i - 7)] = third[i - 7]
    BY <2>1, <1>5, <1>7
  <2>3. first[4 + (n + 3 + (i - 7))] = second[n + 3 + (i - 7)]
    BY <2>1, <1>11
  <2> QED
    BY <2>1, <2>2, <2>3
<1>15. first[n + 8] = "traffic" /\ first[n + 12] = c.metric
  <2>1. 8 - 7 = 1 /\ 12 - 7 = 5
    OBVIOUS
  <2>2. first[n + 8] = third[8 - 7] /\ first[n + 12] = third[12 - 7]
    BY <1>14
  <2> QED
    BY <2>1, <2>2, <1>7
<1>16. \A i \in 9..11 : first[n + i] = ">"
  <2> TAKE i \in 9..11
  <2>1. i \in 8..12 /\ i - 7 \in {2, 3, 4}
    OBVIOUS
  <2> QED
    BY <2>1, <1>14, <1>7
<1> QED
  BY <1>2, <1>3, <1>6, <1>8, <1>9, <1>10, <1>12, <1>13, <1>15, <1>16 DEF b

(* The names of users contain the pattern.                                 *)
LEMMA UserNamesMatch ==
  ASSUME NEW c \in Counter, c.scope = "user"
  PROVE  Occurrences(NameOf(c), UserPattern) # {}
<1> DEFINE name == NameOf(c)
<1>1. /\ name \in Text /\ Len(c.id) \in Nat /\ Len(name) = Len(c.id) + 12
      /\ name[1] = "user"
      /\ \A i \in 2..4 : name[i] = ">"
  BY NamePieces
<1> HIDE DEF name
<1>2. name[2] = ">" /\ name[3] = ">" /\ name[4] = ">"
  BY <1>1
<1>3. UserAt(name, 1)
  BY <1>1, <1>2 DEF UserAt
<1>4. 1 \in Occurrences(name, UserPattern)
  BY <1>1, <1>3, UserFoundIff
<1> QED
  BY <1>4 DEF name

(* Names of tags do not, if the tag is plain and does not end in "user": in*)
(* such a tag "user" is followed by something else.                        *)
LEMMA TagNamesDiffer ==
  ASSUME NEW c \in Counter, c.scope # "user",
         Plain(c.id), ~IsSuffix(<<"user">>, c.id)
  PROVE  Occurrences(NameOf(c), UserPattern) = {}
<1> DEFINE name == NameOf(c)
           n == Len(c.id)
           id == c.id
<1>1. /\ name \in Text /\ n \in Nat /\ Len(name) = n + 12
      /\ name[1] = c.scope
      /\ \A i \in 2..4 : name[i] = ">"
      /\ \A i \in 1..n : name[4 + i] = id[i]
      /\ \A i \in 5..7 : name[n + i] = ">"
      /\ name[n + 8] = "traffic"
      /\ \A i \in 9..11 : name[n + i] = ">"
  BY NamePieces
<1>2. id \in Text /\ n = Len(id)
  BY CounterFields
<1>3. ~Has(id) /\ (id = << >> \/ id[n] # ">")
  BY <1>2, PlainMeans
<1>4. id = << >> \/ id[n] # "user"
  BY <1>2, SuffixOfOne DEF Text
<1> HIDE DEF name, id, n
<1>5. ASSUME NEW i, UserAt(name, i) PROVE FALSE
  <2>1. /\ i \in Nat \ {0} /\ i + 3 <= n + 12
        /\ name[i] = "user" /\ name[i + 1] = ">"
        /\ name[i + 2] = ">" /\ name[i + 3] = ">"
    BY <1>1, <1>5 DEF UserAt
  <2>2. CASE i = 1
    BY <2>1, <2>2, <1>1
  <2>3. CASE i \in 2..4
    BY <2>1, <2>3, <1>1
  <2>4. CASE i \in 5..n + 4
    <3> DEFINE j == i - 4
    <3>1. j \in 1..n /\ i = 4 + j
      BY <2>4, <1>1
    <3> HIDE DEF j
    <3>2. id[j] = "user"
      BY <3>1, <2>1, <1>1
    <3>3. id # << >>
      BY <3>1, <1>1, <1>2
    <3>4. j # n
      BY <3>2, <3>3, <1>4
    <3>5. CASE n = j + 1
      <4>1. i + 1 = 4 + n /\ n \in 1..n
        BY <3>1, <3>5, <1>1
      <4>2. id[n] = ">"
        BY <4>1, <2>1, <1>1
      <4> QED
        BY <4>2, <3>3, <1>3
    <3>6. CASE n = j + 2
      <4>1. i + 2 = 4 + n /\ n \in 1..n
        BY <3>1, <3>6, <1>1
      <4>2. id[n] = ">"
        BY <4>1, <2>1, <1>1
      <4> QED
        BY <4>2, <3>3, <1>3
    <3>7. CASE n >= j + 3
      <4>1. /\ j + 1 \in 1..n /\ j + 2 \in 1..n /\ j + 3 \in 1..n
            /\ i + 1 = 4 + (j + 1) /\ i + 2 = 4 + (j + 2) /\ i + 3 = 4 + (j + 3)
        BY <3>1, <3>7, <1>1
      <4>2. id[j + 1] = ">" /\ id[j + 2] = ">" /\ id[j + 3] = ">"
        BY <4>1, <2>1, <1>1
      <4> DEFINE k == j + 1
      <4>3. k \in Nat \ {0} /\ k + 2 <= n /\ k + 1 = j + 2 /\ k + 2 = j + 3
        BY <3>1, <3>7, <1>1
      <4>4. SeparatorAt(id, k)
        BY <4>2, <4>3, <1>2 DEF SeparatorAt
      <4> HIDE DEF k
      <4>5. k \in Found(id)
        BY <4>4, <1>2, FoundIff
      <4> QED
        BY <4>5, <1>3 DEF Has
    <3> QED
      BY <3>1, <3>4, <3>5, <3>6, <3>7, <1>1
  <2>5. CASE i \in n + 5..n + 7
    <3>1. i - n \in 5..7 /\ n + (i - n) = i
      BY <2>5, <1>1
    <3>2. name[i] = ">"
      BY <3>1, <1>1
    <3> QED
      BY <3>2, <2>1
  <2>6. CASE i = n + 8
    BY <2>1, <2>6, <1>1
  <2>7. CASE i = n + 9
    <3>1. 9 \in 9..11
      OBVIOUS
    <3>2. name[i] = ">"
      BY <2>7, <3>1, <1>1
    <3> QED
      BY <3>2, <2>1
  <2> QED
    BY <2>1, <2>2, <2>3, <2>4, <2>5, <2>6, <2>7, <1>1
<1>6. \A i : i \notin Occurrences(name, UserPattern)
  BY <1>1, <1>5, UserFoundIff
<1> QED
  BY <1>6 DEF name

-----------------------------------------------------------------------------
(* The properties.                                                         *)

(* Counters are counters.                                                  *)
CountersOK == counters \subseteq Counter

(* It is invariant; names and records are computed from these counters.    *)
THEOREM AlwaysCounters == Spec => []CountersOK
<1>1. Init => CountersOK
  BY DEF Init, CountersOK
<1>2. CountersOK /\ [Next]_counters => CountersOK'
  BY DEF Next, Restart, Traffic, CountersOK
<1> QED
  BY <1>1, <1>2, PTL DEF Spec

(* For counters as they may be, the parts of a record are those of its name.*)
LEMMA NamesFallApart == CountersOK => PartsAreTheName
<1> SUFFICES ASSUME CountersOK, NEW c \in counters
    PROVE  LET record == ParseStatName(NameOf(c)) IN
           /\ Join(record.parts) = NameOf(c)
           /\ \A i \in 1..Len(record.parts) :
                Occurrences(record.parts[i], Separator) = {}
  BY DEF PartsAreTheName
<1>1. c \in Counter
  BY DEF CountersOK
<1> DEFINE name == NameOf(c)
<1>2. FallsApart(name)
  BY <1>1, NameIsText, SplitLosesNothing
<1> HIDE DEF name
<1>3. ParseStatName(name).parts = Split[name]
  BY DEF ParseStatName, PartsOf
<1>4. /\ Join(Split[name]) = name
      /\ \A i \in 1..Len(Split[name]) :
           Occurrences(Split[name][i], Separator) = {}
  BY <1>2 DEF FallsApart, Has, Found
<1> QED
  BY <1>3, <1>4 DEF name

(* For counters as they may be, fields tell whose they are.                *)
LEMMA FieldsTell == CountersOK => FieldsTellApart
<1> SUFFICES ASSUME CountersOK, NEW c \in {k \in counters : Plain(k.id)},
                    NEW d \in {k \in counters : Plain(k.id)}
    PROVE  LET one == ParseStatName(NameOf(c))
               other == ParseStatName(NameOf(d))
           IN  /\ one.id = c.id /\ one.scope = <<c.scope>>
               /\ [one EXCEPT !.name = None, !.parts = None] =
                  [other EXCEPT !.name = None, !.parts = None] => c = d
  BY DEF FieldsTellApart
<1>1. c \in Counter /\ Plain(c.id) /\ d \in Counter /\ Plain(d.id)
  BY DEF CountersOK
<1> DEFINE one == ParseStatName(NameOf(c))
           other == ParseStatName(NameOf(d))
           oneCut == [one EXCEPT !.name = None, !.parts = None]
           otherCut == [other EXCEPT !.name = None, !.parts = None]
<1>2. /\ one = [name |-> NameOf(c), parts |-> PartsOf(NameOf(c)),
                scope |-> <<c.scope>>, id |-> c.id,
                category |-> <<"traffic">>, metric |-> <<c.metric>>]
      /\ other = [name |-> NameOf(d), parts |-> PartsOf(NameOf(d)),
                  scope |-> <<d.scope>>, id |-> d.id,
                  category |-> <<"traffic">>, metric |-> <<d.metric>>]
  BY <1>1, PlainFields
<1> HIDE DEF one, other
<1>3. one.id = c.id /\ one.scope = <<c.scope>>
  BY <1>2
<1>4. ASSUME oneCut = otherCut PROVE c = d
  <2>1. /\ oneCut.id = c.id /\ otherCut.id = d.id
        /\ oneCut.scope = <<c.scope>> /\ otherCut.scope = <<d.scope>>
        /\ oneCut.metric = <<c.metric>> /\ otherCut.metric = <<d.metric>>
    BY <1>2
  <2> HIDE DEF oneCut, otherCut
  <2>2. c.id = d.id /\ c.scope = d.scope /\ c.metric = d.metric
    BY <1>4, <2>1
  <2>3. /\ c = [scope |-> c.scope, id |-> c.id, metric |-> c.metric]
        /\ d = [scope |-> d.scope, id |-> d.id, metric |-> d.metric]
    BY <1>1 DEF Counter
  <2> QED
    BY <2>2, <2>3
<1> QED
  BY <1>3, <1>4 DEF one, other

(* For counters as they may be, list_users lists the users.                *)
LEMMA UsersAreListed == CountersOK => ListsTheUsers
<1> SUFFICES ASSUME CountersOK PROVE ListsTheUsers
  OBVIOUS
<1> DEFINE emails(users) == {c.id : c \in {d \in users : d.scope = "user"}}
           plain == {c \in counters : Plain(c.id)}
           IdOf(c) == ParseStatName(NameOf(c)).id
           Matched ==
             {d \in counters : Occurrences(NameOf(d), UserPattern) # {}}
<1>1. \A x : x \in ListUsers <=> x # None /\ \E c \in Matched : x = IdOf(c)
  BY DEF ListUsers, QueryStats, UserPattern
<1> HIDE DEF IdOf, Matched
<1>2. ASSUME NEW c \in counters
      PROVE  /\ c \in Counter /\ c.id # None
             /\ Plain(c.id) => IdOf(c) = c.id
             /\ c.scope = "user" => c \in Matched
             /\ c \in Matched /\ Plain(c.id) =>
                  c.scope = "user" \/ IsSuffix(<<"user">>, c.id)
  <2>1. c \in Counter
    BY DEF CountersOK
  <2>2. c.id # None
    BY <2>1, CounterFields, StatNamesAssumption
  <2>3. ASSUME Plain(c.id) PROVE IdOf(c) = c.id
    BY <2>1, <2>3, PlainFields DEF IdOf
  <2>4. ASSUME c.scope = "user" PROVE c \in Matched
    BY <2>1, <2>4, UserNamesMatch DEF Matched
  <2>5. ASSUME c \in Matched, Plain(c.id)
        PROVE  c.scope = "user" \/ IsSuffix(<<"user">>, c.id)
    BY <2>1, <2>5, TagNamesDiffer DEF Matched
  <2> QED
    BY <2>1, <2>2, <2>3, <2>4, <2>5
<1>3. \A c \in Matched : c \in counters
  BY DEF Matched
<1>4. emails(plain) \subseteq ListUsers
  <2> SUFFICES ASSUME NEW c \in counters, Plain(c.id), c.scope = "user"
               PROVE  c.id \in ListUsers
    OBVIOUS
  <2> QED
    BY <1>1, <1>2
<1>5. ASSUME \A c \in counters :
               Plain(c.id) /\ (c.scope = "user" \/ ~IsSuffix(<<"user">>, c.id))
      PROVE  ListUsers = emails(counters)
  <2>1. ASSUME NEW x \in ListUsers PROVE x \in emails(counters)
    <3>1. PICK c \in Matched : x = IdOf(c)
      BY <1>1
    <3>2. c \in counters /\ Plain(c.id)
      BY <1>3, <1>5
    <3>3. c.scope = "user" /\ x = c.id
      BY <3>1, <3>2, <1>2, <1>5
    <3> QED
      BY <3>2, <3>3
  <2>2. ASSUME NEW c \in counters, c.scope = "user" PROVE c.id \in ListUsers
    BY <2>2, <1>1, <1>2, <1>5
  <2> QED
    BY <2>1, <2>2
<1> QED
  BY <1>4, <1>5 DEF ListsTheUsers

(* Whatever text an email or tag is, nothing of a name is lost or left     *)
(* together when it is taken apart (xray/stats.rs:30-36).                  *)
THEOREM NamesAlwaysFallApart == Spec => []PartsAreTheName
BY AlwaysCounters, NamesFallApart, PTL

(* The fields of a record say which counter it is of, for every plain id   *)
(* (xray/stats.rs:30-48).                                                  *)
THEOREM FieldsAlwaysTell == Spec => []FieldsTellApart
BY AlwaysCounters, FieldsTell, PTL

(* Every user with a plain email and traffic is listed under his own email,*)
(* and nobody else as long as every email and tag is plain and no tag ends *)
(* in "user" (xray/stats.rs:202).                                          *)
THEOREM UsersAlwaysListed == Spec => []ListsTheUsers
BY AlwaysCounters, UsersAreListed, PTL

=============================================================================
