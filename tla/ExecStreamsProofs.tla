------------------------- MODULE ExecStreamsProofs -------------------------
(***************************************************************************)
(* What the three parsers make of any stream, cut anywhere, of any command: *)
(* the lemmas under RequestsProofs. First positions in a sequence (rfind,   *)
(* trim, leading zeros), then the numerals, then each parser on a prefix of *)
(* what its provider writes; last the inductive invariant StreamInv, the    *)
(* shape of the stream together with the honesty of the answer.             *)
(***************************************************************************)
EXTENDS ExecStreams, TLAPS, SequenceTheorems, WellFoundedInduction

-----------------------------------------------------------------------------
(* A set of positions has a first and a last one.                           *)
LEMMA HasMin ==
  ASSUME NEW I, I \subseteq Nat, I # {}
  PROVE  Min(I) \in I /\ \A i \in I : Min(I) <= i
<1>1. PICK x \in I : \A y \in I : ~(<<y, x>> \in OpToRel(<, Nat))
  BY NatLessThanWellFounded, WFMin
<1>2. \A y \in I : ~(y < x)
  BY <1>1, Zenon DEF OpToRel
<1>3. \A y \in I : x <= y
  BY <1>2
<1> QED BY <1>3 DEF Min

LEMMA HasMax ==
  ASSUME NEW n \in Nat, NEW I, I \subseteq 1 .. n, I # {}
  PROVE  Max(I) \in I /\ \A i \in I : i <= Max(I)
<1> DEFINE J == {j \in Nat : n - j \in I}
<1>1. \A i \in I : i \in Nat /\ i <= n
  OBVIOUS
<1>2. \A i \in I : n - i \in J
  BY <1>1
<1>3. J \subseteq Nat /\ J # {}
  BY <1>2
<1> HIDE DEF J
<1>4. Min(J) \in J /\ \A j \in J : Min(J) <= j
  BY <1>3, HasMin
<1>5. Min(J) \in Nat /\ n - Min(J) \in I
  BY <1>4 DEF J
<1>6. \A y \in I : n - Min(J) >= y
  BY <1>1, <1>2, <1>4, <1>5
<1>7. \E x \in I : \A y \in I : x >= y
  BY <1>5, <1>6
<1>8. Max(I) \in I /\ \A y \in I : Max(I) >= y
  BY <1>7 DEF Max
<1> QED BY <1>1, <1>8

(* The positions the parsers look for, each 0 when there is none.           *)
LEMMA MarkAt ==
  ASSUME NEW s, Len(s) \in Nat
  PROVE  /\ Mark(s) \in 0 .. Len(s)
         /\ Mark(s) > 0 => s[Mark(s)] = "M"
         /\ \A i \in 1 .. Len(s) : s[i] = "M" => i <= Mark(s)
<1> DEFINE I == {i \in 1 .. Len(s) : s[i] = "M"}
<1>1. Mark(s) = IF I # {} THEN Max(I) ELSE 0
  BY DEF Mark, SelectLastInSeq
<1>2. I \subseteq 1 .. Len(s) /\ \A i \in 1 .. Len(s) : i \in I <=> s[i] = "M"
  OBVIOUS
<1> HIDE DEF I
<1>3. CASE I = {}
  BY <1>1, <1>2, <1>3
<1>4. CASE I # {}
  <2>1. Max(I) \in I /\ \A i \in I : i <= Max(I)
    BY <1>2, <1>4, HasMax
  <2>2. Max(I) \in 1 .. Len(s) /\ Mark(s) = Max(I)
    BY <1>1, <1>2, <1>4, <2>1
  <2> QED BY <1>2, <2>1, <2>2
<1> QED BY <1>3, <1>4

LEMMA EndAtPosition ==
  ASSUME NEW w, Len(w) \in Nat
  PROVE  /\ EndAt(w) \in 0 .. Len(w)
         /\ EndAt(w) > 0 => w[EndAt(w)].k = "end"
         /\ \A i \in 1 .. Len(w) : w[i].k = "end" => i <= EndAt(w)
<1> DEFINE I == {i \in 1 .. Len(w) : w[i].k = "end"}
<1>1. EndAt(w) = IF I # {} THEN Max(I) ELSE 0
  BY DEF EndAt, SelectLastInSeq
<1>2. I \subseteq 1 .. Len(w) /\ \A i \in 1 .. Len(w) : i \in I <=> w[i].k = "end"
  OBVIOUS
<1> HIDE DEF I
<1>3. CASE I = {}
  BY <1>1, <1>2, <1>3
<1>4. CASE I # {}
  <2>1. Max(I) \in I /\ \A i \in I : i <= Max(I)
    BY <1>2, <1>4, HasMax
  <2>2. Max(I) \in 1 .. Len(w) /\ EndAt(w) = Max(I)
    BY <1>1, <1>2, <1>4, <2>1
  <2> QED BY <1>2, <2>1, <2>2
<1> QED BY <1>3, <1>4

LEMMA TrimParts ==
  ASSUME NEW s \in Seq(Symbol)
  PROVE  /\ Trim(s) \in Seq(Symbol)
         /\ \A m \in 1 .. Len(s) :
              /\ \A i \in 1 .. m : s[i] # "n"
              /\ \A i \in m + 1 .. Len(s) : s[i] = "n"
              => Trim(s) = SubSeq(s, 1, m)
         /\ Len(s) = 0 => Trim(s) = <<>>
<1> DEFINE I == {i \in 1 .. Len(s) : s[i] # "n"}
<1>1. Trim(s) = IF I = {} THEN <<>> ELSE SubSeq(s, Min(I), Max(I))
  BY DEF Trim
<1>2. I \subseteq 1 .. Len(s) /\ \A i \in 1 .. Len(s) : i \in I <=> s[i] # "n"
  OBVIOUS
<1>3. Len(s) \in Nat /\ \A i \in 1 .. Len(s) : s[i] \in Symbol
  OBVIOUS
<1> HIDE DEF I
<1>4. I # {} => Max(I) \in 1 .. Len(s) /\ Max(I) \in I /\ \A i \in I : i <= Max(I)
  BY <1>2, <1>3, HasMax
<1>5. I # {} => Min(I) \in 1 .. Len(s) /\ Min(I) \in I /\ \A i \in I : Min(I) <= i
  <2>1. I \subseteq Nat
    BY <1>2, <1>3
  <2> QED BY <1>2, <2>1, HasMin
<1>6. Trim(s) \in Seq(Symbol)
  <2>1. CASE I = {}
    BY <1>1, <2>1
  <2>2. CASE I # {}
    <3>1. PICK a \in 1 .. Len(s), b \in 1 .. Len(s) : Trim(s) = SubSeq(s, a, b)
      BY <1>1, <1>4, <1>5, <2>2
    <3>2. \A i \in a .. b : s[i] \in Symbol
      BY <1>3
    <3>3. a \in Int /\ b \in Int
      BY <1>3
    <3> QED BY <3>1, <3>2, <3>3, SubSeqProperties
  <2> QED BY <2>1, <2>2
<1>7. ASSUME NEW m \in 1 .. Len(s), \A i \in 1 .. m : s[i] # "n",
             \A i \in m + 1 .. Len(s) : s[i] = "n"
      PROVE  Trim(s) = SubSeq(s, 1, m)
  <2>1. 1 \in I /\ m \in I
    BY <1>2, <1>3, <1>7
  <2>2. \A i \in I : i >= 1 /\ i <= m
    BY <1>2, <1>3, <1>7
  <2>3. Min(I) = 1
    BY <1>3, <1>5, <2>1, <2>2
  <2>4. Max(I) = m
    BY <1>3, <1>4, <2>1, <2>2
  <2> QED BY <1>1, <2>1, <2>3, <2>4
<1>8. Len(s) = 0 => Trim(s) = <<>>
  BY <1>1, <1>2
<1> QED BY <1>6, <1>7, <1>8

(* What parse::<i32> makes of digits: the numeral from its first digit that *)
(* is not 0.                                                                *)
LEMMA ValueOf ==
  ASSUME NEW ds \in Seq(Digit), ds # <<>>
  PROVE  \/ Value(ds) = <<"0">>
         \/ \E k \in 1 .. Len(ds) : ds[k] # "0" /\ Value(ds) = SubSeq(ds, k, Len(ds))
<1> DEFINE I == {i \in 1 .. Len(ds) : ds[i] # "0"}
<1>1. SelectInSeq(ds, LAMBDA d : d # "0") = IF I # {} THEN Min(I) ELSE 0
  BY DEF SelectInSeq
<1>2. I \subseteq 1 .. Len(ds) /\ \A i \in I : ds[i] # "0"
  OBVIOUS
<1> HIDE DEF I
<1>3. CASE I = {}
  BY <1>1, <1>3 DEF Value
<1>4. CASE I # {}
  <2>1. I \subseteq Nat
    BY <1>2
  <2>2. Min(I) \in I
    BY <1>4, <2>1, HasMin
  <2>3. Min(I) # 0
    BY <1>2, <2>2
  <2>4. Value(ds) = SubSeq(ds, Min(I), Len(ds))
    BY <1>1, <1>4, <2>3 DEF Value
  <2> QED BY <1>2, <2>2, <2>4
<1> QED BY <1>3, <1>4

LEMMA ValueFirst ==
  ASSUME NEW ds \in Seq(Digit), ds # <<>>, ds[1] # "0"
  PROVE  Value(ds) = ds
<1> DEFINE I == {i \in 1 .. Len(ds) : ds[i] # "0"}
<1>1. SelectInSeq(ds, LAMBDA d : d # "0") = IF I # {} THEN Min(I) ELSE 0
  BY DEF SelectInSeq
<1>2. 1 \in I /\ \A i \in I : 1 <= i /\ i \in Nat
  OBVIOUS
<1> HIDE DEF I
<1>3. I # {} /\ I \subseteq Nat
  BY <1>2
<1>4. Min(I) = 1
  <2>1. Min(I) \in I /\ \A i \in I : Min(I) <= i
    BY <1>3, HasMin
  <2> QED BY <1>2, <2>1
<1>5. Value(ds) = SubSeq(ds, 1, Len(ds))
  BY <1>1, <1>3, <1>4 DEF Value
<1> QED BY <1>5, SubSeqFull

LEMMA ValueTyped ==
  ASSUME NEW ds \in Seq(Digit), ds # <<>>
  PROVE  Value(ds) \in Seq(Digit) /\ Len(Value(ds)) <= Len(ds)
<1>1. Len(ds) \in Nat /\ Len(ds) >= 1 /\ \A i \in 1 .. Len(ds) : ds[i] \in Digit
  BY EmptySeq
<1>2. CASE Value(ds) = <<"0">>
  BY <1>1, <1>2 DEF Digit
<1>3. ASSUME NEW k \in 1 .. Len(ds), Value(ds) = SubSeq(ds, k, Len(ds))
      PROVE  Value(ds) \in Seq(Digit) /\ Len(Value(ds)) <= Len(ds)
  <2>1. k \in Int /\ Len(ds) \in Int /\ \A i \in k .. Len(ds) : ds[i] \in Digit
    BY <1>1
  <2>2. /\ SubSeq(ds, k, Len(ds)) \in Seq(Digit)
        /\ Len(SubSeq(ds, k, Len(ds))) = IF k <= Len(ds) THEN Len(ds) - k + 1 ELSE 0
    BY <2>1, SubSeqProperties
  <2> QED BY <1>1, <1>3, <2>2
<1> QED BY <1>2, <1>3, ValueOf

(* An exit code is 0, or its first digit is not.                            *)
LEMMA CodeShape ==
  ASSUME NEW c \in Codes
  PROVE  /\ c \in Seq(Digit) /\ Len(c) \in 1 .. 3 /\ c # <<>> /\ Value(c) = c
         /\ c = <<"0">> \/ c[1] # "0"
<1>1. c \in Seq(Digit) /\ Len(c) \in 1 .. 3 /\ Value(c) = c
  BY StreamsAssumption
<1>2. c # <<>>
  BY <1>1
<1>3. ASSUME NEW k \in 1 .. Len(c), c[k] # "0", Value(c) = SubSeq(c, k, Len(c))
      PROVE  c[1] # "0"
  <2>1. k \in Int /\ Len(c) \in Int /\ \A i \in k .. Len(c) : c[i] \in Digit
    BY <1>1
  <2>2. Len(SubSeq(c, k, Len(c))) = IF k <= Len(c) THEN Len(c) - k + 1 ELSE 0
    BY <2>1, SubSeqProperties
  <2>3. k = 1
    BY <1>1, <1>3, <2>2
  <2> QED BY <1>3, <2>3
<1> QED BY <1>1, <1>2, <1>3, ValueOf

(* A code cut short still parses, as 0 only if the code is 0.               *)
LEMMA CutCode ==
  ASSUME NEW c \in Codes, NEW l \in 1 .. Len(c)
  PROVE  LET cut == SubSeq(c, 1, l) IN
         /\ Parses(cut) /\ Value(cut) \in Seq(Digit)
         /\ Value(cut) = <<"0">> => c = <<"0">>
         /\ l = Len(c) => Value(cut) = c
<1> DEFINE cut == SubSeq(c, 1, l)
<1>1. c \in Seq(Digit) /\ Len(c) \in 1 .. 3 /\ Value(c) = c /\ (c = <<"0">> \/ c[1] # "0")
  BY CodeShape
<1>2. /\ l \in Int /\ l <= 3 /\ l >= 1
      /\ \A i \in 1 .. l : c[i] \in Digit
  <2> HIDE DEF cut
  <2>1. PICK n \in 1 .. 3 : Len(c) = n
    BY CodeShape
  <2>2. l \in 1 .. n
    BY <2>1
  <2>3. l \in Int /\ l <= 3 /\ l >= 1 /\ \A i \in 1 .. l : i \in 1 .. n
    BY <2>2
  <2> QED BY <1>1, <2>1, <2>3, ElementOfSeq
<1>3. cut \in Seq(Digit) /\ Len(cut) = l /\ \A i \in 1 .. l : cut[i] = c[i]
  BY <1>2, SubSeqProperties
<1>4. l = Len(c) => cut = c
  BY <1>1, SubSeqFull
<1> HIDE DEF cut
<1>5. cut # <<>>
  BY <1>2, <1>3
<1>6. Value(cut) \in Seq(Digit) /\ Len(Value(cut)) <= Len(cut)
  BY <1>3, <1>5, ValueTyped
<1>7. Len(Value(cut)) <= 10
  BY <1>2, <1>3, <1>6
<1>8. Numeric(cut)
  BY <1>3 DEF Numeric
<1>9. Parses(cut)
  BY <1>5, <1>7, <1>8 DEF Parses
<1>10. ASSUME Value(cut) = <<"0">> PROVE c = <<"0">>
  <2> SUFFICES ASSUME c[1] # "0" PROVE FALSE
    BY <1>1
  <2>1. cut[1] # "0"
    BY <1>2, <1>3
  <2>2. Value(cut) = cut
    BY <1>3, <1>5, <2>1, ValueFirst
  <2> QED BY <1>10, <2>1, <2>2
<1> QED BY <1>1, <1>4, <1>6, <1>9, <1>10 DEF cut

(* The exit code that was parsed and the output before the marker are parts *)
(* of the text.                                                             *)
LEMMA ParsedTyped ==
  ASSUME NEW s \in Seq(Symbol)
  PROVE  /\ ParseSentinel(s).code \in Seq(Digit) \cup {Unknown}
         /\ ParseSentinel(s).out \in Seq(Symbol)
<1> DEFINE rest == SubSeq(s, Mark(s) + 1, Len(s))
           code == Trim(rest)
           out == SubSeq(s, 1, Mark(s) - 1)
<1>1. Len(s) \in Nat /\ \A i \in 1 .. Len(s) : s[i] \in Symbol
  OBVIOUS
<1>2. PICK m \in 0 .. Len(s) : m = Mark(s)
  BY <1>1, MarkAt
<1>3. rest \in Seq(Symbol)
  <2>1. m + 1 \in Int /\ \A i \in m + 1 .. Len(s) : s[i] \in Symbol
    BY <1>1
  <2> QED BY <1>1, <1>2, <2>1, SubSeqProperties
<1>4. out \in Seq(Symbol)
  <2>1. m - 1 \in Int /\ \A i \in 1 .. m - 1 : s[i] \in Symbol
    BY <1>1
  <2> QED BY <1>2, <2>1, SubSeqProperties
<1> HIDE DEF rest
<1>5. code \in Seq(Symbol)
  BY <1>3, TrimParts
<1>6. ParseSentinel(s) = IF Mark(s) > 0 /\ Parses(code) THEN Answer(Value(code), out)
                         ELSE Answer(Unknown, s)
  BY DEF ParseSentinel, rest
<1> HIDE DEF code, out
<1>7. ASSUME Parses(code) PROVE Value(code) \in Seq(Digit)
  <2>1. code \in Seq(Digit) /\ code # <<>>
    BY <1>5, <1>7 DEF Parses, Numeric
  <2> QED BY <2>1, ValueTyped
<1> QED BY <1>4, <1>6, <1>7 DEF Answer

(* Without a marker there is no exit code, and everything is output.        *)
LEMMA ParsedNoMark ==
  ASSUME NEW s \in Seq(Symbol), \A i \in 1 .. Len(s) : s[i] # "M"
  PROVE  ParseSentinel(s) = Answer(Unknown, s)
<1>1. Len(s) \in Nat
  OBVIOUS
<1>2. Mark(s) = 0
  BY <1>1, MarkAt
<1> QED BY <1>2 DEF ParseSentinel

(* What the shell leaves behind: output, marker, code, end of line.         *)
Ended(s, c) == s \o <<"M">> \o c \o <<"n">>

LEMMA EndedParts ==
  ASSUME NEW s \in Seq(Symbol), NEW c \in Codes
  PROVE  LET n == Len(s) m == Len(c) IN
         /\ Ended(s, c) \in Seq(Symbol)
         /\ Len(Ended(s, c)) = n + m + 2
         /\ \A i \in 1 .. n : Ended(s, c)[i] = s[i]
         /\ Ended(s, c)[n + 1] = "M"
         /\ \A i \in 1 .. m : Ended(s, c)[n + 1 + i] = c[i]
         /\ Ended(s, c)[n + m + 2] = "n"
<1>1. c \in Seq(Symbol)
  BY CodeShape, SeqMonotonic DEF Symbol
<1>2. <<"M">> \in Seq(Symbol) /\ <<"n">> \in Seq(Symbol)
  BY DEF Symbol
<1> DEFINE a == s \o <<"M">>
           b == a \o c
<1>3. /\ a \in Seq(Symbol) /\ Len(a) = Len(s) + 1
      /\ \A i \in 1 .. Len(s) + 1 : a[i] = IF i <= Len(s) THEN s[i] ELSE "M"
  BY <1>2
<1> HIDE DEF a
<1>4. /\ b \in Seq(Symbol) /\ Len(b) = Len(a) + Len(c)
      /\ \A i \in 1 .. Len(a) + Len(c) : b[i] = IF i <= Len(a) THEN a[i] ELSE c[i - Len(a)]
  BY <1>1, <1>3, ConcatProperties
<1> HIDE DEF b
<1>5. /\ b \o <<"n">> \in Seq(Symbol) /\ Len(b \o <<"n">>) = Len(b) + 1
      /\ \A i \in 1 .. Len(b) + 1 : (b \o <<"n">>)[i] = IF i <= Len(b) THEN b[i] ELSE "n"
  BY <1>2, <1>4
<1>6. Ended(s, c) = b \o <<"n">>
  BY DEF Ended, a, b
<1> DEFINE z == Ended(s, c)
<1>7. Len(s) \in Nat /\ Len(c) \in Nat
  BY <1>1
<1>8. /\ z \in Seq(Symbol)
      /\ Len(z) = Len(s) + Len(c) + 2
      /\ \A i \in 1 .. Len(s) : z[i] = s[i]
      /\ z[Len(s) + 1] = "M"
      /\ \A i \in 1 .. Len(c) : z[Len(s) + 1 + i] = c[i]
      /\ z[Len(s) + Len(c) + 2] = "n"
  <2> HIDE DEF z
  <2>1. z = b \o <<"n">>
    BY <1>6 DEF z
  <2>2. z \in Seq(Symbol) /\ Len(z) = Len(s) + Len(c) + 2
    BY <1>3, <1>4, <1>5, <1>7, <2>1
  <2>3. \A i \in 1 .. Len(s) : z[i] = s[i]
    BY <1>3, <1>4, <1>5, <1>7, <2>1
  <2>4. z[Len(s) + 1] = "M"
    BY <1>3, <1>4, <1>5, <1>7, <2>1
  <2>5. \A i \in 1 .. Len(c) : z[Len(s) + 1 + i] = c[i]
    BY <1>3, <1>4, <1>5, <1>7, <2>1
  <2>6. z[Len(s) + Len(c) + 2] = "n"
    BY <1>3, <1>4, <1>5, <1>7, <2>1
  <2> QED BY <2>2, <2>3, <2>4, <2>5, <2>6
<1> QED BY <1>8

(* The same, cut after the marker and l more symbols.                       *)
Cut(s, c, l) == SubSeq(Ended(s, c), 1, Len(s) + 1 + l)

(* Once the marker of the shell has been read it is the last one, whatever  *)
(* the command printed, and the code is what has come of it.                *)
LEMMA ParsedTail ==
  ASSUME NEW s \in Seq(Symbol), NEW c \in Codes, NEW l \in 0 .. Len(c) + 1
  PROVE  /\ l = 0 => ParseSentinel(Cut(s, c, l)).code = Unknown
         /\ l > 0 => \E k \in 1 .. Len(c) :
                       /\ l >= Len(c) => k = Len(c)
                       /\ ParseSentinel(Cut(s, c, l)) = Answer(Value(SubSeq(c, 1, k)), s)
<1> DEFINE z == Ended(s, c)
           p == Len(s) + 1 + l
           t == Cut(s, c, l)
<1>1. PICK n \in Nat, m \in 1 .. 3 : n = Len(s) /\ m = Len(c)
  BY CodeShape
<1>2. l \in 0 .. m + 1
  BY <1>1
<1>3. c \in Seq(Digit) /\ \A i \in 1 .. m : c[i] \in Digit
  BY <1>1, CodeShape, ElementOfSeq
<1>4. /\ z \in Seq(Symbol) /\ Len(z) = n + m + 2
      /\ \A i \in 1 .. n : z[i] = s[i]
      /\ z[n + 1] = "M"
      /\ \A i \in 1 .. m : z[n + 1 + i] = c[i]
      /\ z[n + m + 2] = "n"
  BY <1>1, EndedParts
<1>t. t = SubSeq(z, 1, p)
  BY DEF Cut
<1> HIDE DEF t
<1> HIDE DEF z
<1>5. p = n + 1 + l /\ p \in Nat /\ p <= n + m + 2
  BY <1>1, <1>2
<1> HIDE DEF p
<1>6. t \in Seq(Symbol) /\ Len(t) = p /\ \A i \in 1 .. p : t[i] = z[i]
  <2>1. \A i \in 1 .. p : z[i] \in Symbol
    BY <1>4, <1>5, ElementOfSeq
  <2> QED BY <1>5, <1>t, <2>1, SubSeqProperties
<1>7. Mark(t) = n + 1
  <2>1. \A i \in n + 2 .. p : t[i] # "M"
    <3> SUFFICES ASSUME NEW i \in n + 2 .. p PROVE t[i] # "M"
      OBVIOUS
    <3>1. t[i] = z[i]
      BY <1>6, <1>5
    <3>2. CASE i = n + m + 2
      BY <1>4, <3>1, <3>2
    <3>3. CASE i # n + m + 2
      <4>1. i - (n + 1) \in 1 .. m /\ n + 1 + (i - (n + 1)) = i
        BY <1>5, <3>3
      <4>2. z[i] = c[i - (n + 1)]
        BY <1>4, <4>1
      <4> QED BY <1>3, <3>1, <4>1, <4>2 DEF Digit
    <3> QED BY <3>2, <3>3
  <2>2. t[n + 1] = "M" /\ n + 1 \in 1 .. p
    BY <1>2, <1>4, <1>5, <1>6
  <2>3. /\ Mark(t) \in 0 .. p
        /\ Mark(t) > 0 => t[Mark(t)] = "M"
        /\ \A i \in 1 .. p : t[i] = "M" => i <= Mark(t)
    BY <1>5, <1>6, MarkAt
  <2> QED BY <1>5, <2>1, <2>2, <2>3
<1> DEFINE rest == SubSeq(t, n + 2, p)
           code == Trim(rest)
<1>8. /\ rest \in Seq(Symbol) /\ Len(rest) = l
      /\ \A i \in 1 .. l : rest[i] = z[n + 1 + i]
  <2>1. \A i \in n + 2 .. p : t[i] \in Symbol
    BY <1>5, <1>6, ElementOfSeq
  <2>2. /\ rest \in Seq(Symbol) /\ Len(rest) = IF n + 2 <= p THEN p - (n + 2) + 1 ELSE 0
        /\ \A i \in 1 .. p - (n + 2) + 1 : rest[i] = t[n + 2 + i - 1]
    BY <1>5, <2>1, SubSeqProperties
  <2> HIDE DEF rest
  <2>3. Len(rest) = l /\ \A i \in 1 .. l : rest[i] = t[n + 1 + i]
    BY <1>2, <1>5, <2>2
  <2> QED BY <1>2, <1>5, <1>6, <2>2, <2>3
<1>9. SubSeq(t, 1, n) = s
  <2>1. \A i \in 1 .. n : t[i] \in Symbol
    BY <1>2, <1>5, <1>6, ElementOfSeq
  <2>2. /\ SubSeq(t, 1, n) \in Seq(Symbol) /\ Len(SubSeq(t, 1, n)) = n
        /\ \A i \in 1 .. n : SubSeq(t, 1, n)[i] = t[i]
    BY <2>1, SubSeqProperties
  <2>3. \A i \in 1 .. n : t[i] = s[i]
    BY <1>2, <1>4, <1>5, <1>6
  <2> QED BY <1>1, <2>2, <2>3, SeqEqual
<1>10. ParseSentinel(t) = IF Parses(code) THEN Answer(Value(code), s) ELSE Answer(Unknown, t)
  <2>1. Mark(t) > 0 /\ Mark(t) + 1 = n + 2 /\ Mark(t) - 1 = n /\ Len(t) = p
    BY <1>6, <1>7
  <2>2. /\ Trim(SubSeq(t, Mark(t) + 1, Len(t))) = code
        /\ SubSeq(t, 1, Mark(t) - 1) = s
    BY <1>9, <2>1
  <2> HIDE DEF rest, code
  <2> QED BY <2>1, <2>2 DEF ParseSentinel
<1> HIDE DEF rest, code
<1>11. l = 0 => ParseSentinel(t).code = Unknown
  <2> SUFFICES ASSUME l = 0 PROVE ParseSentinel(t).code = Unknown
    OBVIOUS
  <2>1. code = <<>>
    BY <1>8, TrimParts DEF code
  <2> QED BY <1>10, <2>1 DEF Parses, Answer
<1>12. l > 0 => \E k \in 1 .. Len(c) :
                   /\ l >= Len(c) => k = Len(c)
                   /\ ParseSentinel(t) = Answer(Value(SubSeq(c, 1, k)), s)
  <2> HAVE l > 0
  <2>1. PICK k \in 1 .. m : (l >= m => k = m) /\ (l < m => k = l) /\ k <= l
    <3>1. m \in Nat /\ l \in Nat /\ m \in 1 .. m
      BY <1>1, <1>2
    <3>2. CASE l >= m
      BY <3>1, <3>2
    <3>3. CASE l < m
      <4>1. l \in 1 .. m
        BY <3>1, <3>3
      <4> QED BY <3>1, <3>3, <4>1
    <3> QED BY <3>1, <3>2, <3>3
  <2>2. \A i \in 1 .. k : rest[i] = c[i]
    BY <1>2, <1>4, <1>8, <2>1
  <2>3. \A i \in 1 .. k : rest[i] # "n"
    BY <1>3, <2>1, <2>2 DEF Digit
  <2>4. \A i \in k + 1 .. l : rest[i] = "n"
    <3> SUFFICES ASSUME NEW i \in k + 1 .. l PROVE rest[i] = "n"
      OBVIOUS
    <3>1. i = m + 1
      BY <1>2, <2>1
    <3> QED BY <1>2, <1>4, <1>8, <3>1
  <2>5. k \in 1 .. Len(rest)
    BY <1>2, <1>8, <2>1
  <2>6. code = SubSeq(rest, 1, k)
    BY <1>8, <2>3, <2>4, <2>5, TrimParts DEF code
  <2>7. SubSeq(rest, 1, k) = SubSeq(c, 1, k)
    <3>1. \A i \in 1 .. k : rest[i] \in Symbol /\ c[i] \in Symbol
      BY <1>3, <2>1, <2>2 DEF Symbol
    <3>2. /\ SubSeq(rest, 1, k) \in Seq(Symbol) /\ Len(SubSeq(rest, 1, k)) = k
          /\ \A i \in 1 .. k : SubSeq(rest, 1, k)[i] = rest[i]
      BY <3>1, SubSeqProperties
    <3>3. /\ SubSeq(c, 1, k) \in Seq(Symbol) /\ Len(SubSeq(c, 1, k)) = k
          /\ \A i \in 1 .. k : SubSeq(c, 1, k)[i] = c[i]
      BY <3>1, SubSeqProperties
    <3> QED BY <2>2, <3>2, <3>3, SeqEqual
  <2>8. Parses(SubSeq(c, 1, k))
    BY <1>1, CutCode
  <2>9. ParseSentinel(t) = Answer(Value(SubSeq(c, 1, k)), s)
    BY <1>10, <2>6, <2>7, <2>8
  <2> QED BY <1>1, <2>1, <2>9
<1> QED BY <1>11, <1>12, Zenon DEF t

(* What is on the stream: an item per symbol of output, then the end event. *)
Item == [k : {"out", "end", "ok", "err"}, v : Symbol \cup Codes]

LEMMA OutParts ==
  ASSUME NEW s \in Seq(Symbol)
  PROVE  /\ Out(s) \in Seq(Item) /\ Len(Out(s)) = Len(s)
         /\ \A i \in 1 .. Len(s) : Out(s)[i].k = "out" /\ Out(s)[i].v = s[i]
<1>1. Len(s) \in Nat /\ DOMAIN s = 1 .. Len(s) /\ \A i \in 1 .. Len(s) : s[i] \in Symbol
  OBVIOUS
<1>2. Out(s) = [i \in 1 .. Len(s) |-> [k |-> "out", v |-> s[i]]]
  BY <1>1 DEF Out
<1>3. \A i \in 1 .. Len(s) : [k |-> "out", v |-> s[i]] \in Item
  BY <1>1 DEF Item
<1> QED BY <1>1, <1>2, <1>3

LEMMA OutConcat ==
  ASSUME NEW s \in Seq(Symbol), NEW t \in Seq(Symbol)
  PROVE  Out(s) \o Out(t) = Out(s \o t)
<1>1. /\ s \o t \in Seq(Symbol) /\ Len(s \o t) = Len(s) + Len(t)
      /\ \A i \in 1 .. Len(s) + Len(t) : (s \o t)[i] = IF i <= Len(s) THEN s[i] ELSE t[i - Len(s)]
  BY ConcatProperties
<1>2. /\ Out(s) \in Seq(Item) /\ Len(Out(s)) = Len(s)
      /\ Out(t) \in Seq(Item) /\ Len(Out(t)) = Len(t)
      /\ Out(s \o t) \in Seq(Item) /\ Len(Out(s \o t)) = Len(s) + Len(t)
  BY <1>1, OutParts
<1>3. /\ Out(s) \o Out(t) \in Seq(Item) /\ Len(Out(s) \o Out(t)) = Len(s) + Len(t)
      /\ \A i \in 1 .. Len(s) + Len(t) :
           (Out(s) \o Out(t))[i] = IF i <= Len(s) THEN Out(s)[i] ELSE Out(t)[i - Len(s)]
  BY <1>2, ConcatProperties
<1>4. Len(s) \in Nat /\ Len(t) \in Nat
  OBVIOUS
<1>5. ASSUME NEW u \in Seq(Symbol), NEW i \in 1 .. Len(u)
      PROVE  Out(u)[i] = [k |-> "out", v |-> u[i]]
  BY DEF Out
<1>6. ASSUME NEW i \in 1 .. Len(s) + Len(t)
      PROVE  (Out(s) \o Out(t))[i] = Out(s \o t)[i]
  <2>1. Out(s \o t)[i] = [k |-> "out", v |-> (s \o t)[i]]
    BY <1>1, <1>5
  <2>2. CASE i <= Len(s)
    <3>1. Out(s)[i] = [k |-> "out", v |-> s[i]]
      BY <1>4, <1>5, <2>2
    <3> QED BY <1>1, <1>3, <2>1, <2>2, <3>1
  <2>3. CASE ~(i <= Len(s))
    <3>1. i - Len(s) \in 1 .. Len(t)
      BY <1>4, <2>3
    <3>2. Out(t)[i - Len(s)] = [k |-> "out", v |-> t[i - Len(s)]]
      BY <1>5, <3>1
    <3> QED BY <1>1, <1>3, <2>1, <2>3, <3>2
  <2> QED BY <2>2, <2>3
<1> QED BY <1>2, <1>3, <1>6, SeqEqual

(* The text of a stream whose first m items, and no other, are output.      *)
LEMMA TextOf ==
  ASSUME NEW w, Len(w) \in Nat, NEW m \in 0 .. Len(w),
         \A i \in 1 .. m : w[i].k = "out", \A i \in m + 1 .. Len(w) : w[i].k # "out"
  PROVE  Text(w) = [i \in 1 .. m |-> w[i].v]
<1> DEFINE I == {i \in 1 .. Len(w) : w[i].k = "out"}
<1>1. SelectLastInSeq(w, LAMBDA e : e.k = "out") = IF I # {} THEN Max(I) ELSE 0
  BY DEF SelectLastInSeq
<1>2. I \subseteq 1 .. Len(w) /\ \A i \in 1 .. Len(w) : i \in I <=> i <= m
  OBVIOUS
<1> HIDE DEF I
<1>3. (IF I # {} THEN Max(I) ELSE 0) = m
  <2>1. CASE m = 0
    <3>1. I = {}
      BY <1>2, <2>1
    <3> QED BY <2>1, <3>1
  <2>2. CASE m # 0
    <3>1. m \in I
      BY <1>2, <2>2
    <3>2. Max(I) \in I /\ \A i \in I : i <= Max(I)
      BY <1>2, <3>1, HasMax
    <3>3. Max(I) \in 1 .. Len(w) /\ Max(I) <= m /\ m <= Max(I)
      BY <1>2, <3>1, <3>2
    <3> QED BY <3>1, <3>3
  <2> QED BY <2>1, <2>2
<1> QED BY <1>1, <1>3 DEF Text

(* A prefix of nothing but output reads as that output.                     *)
LEMMA OutPrefix ==
  ASSUME NEW s \in Seq(Symbol), NEW n \in 0 .. Len(s)
  PROVE  LET w == SubSeq(Out(s), 1, n) IN
         /\ w \in Seq(Item) /\ Len(w) = n /\ \A i \in 1 .. n : w[i].k = "out"
         /\ Text(w) = SubSeq(s, 1, n)
         /\ SubSeq(s, 1, n) \in Seq(Symbol)
         /\ \A i \in 1 .. n : SubSeq(s, 1, n)[i] = s[i]
         /\ Len(SubSeq(s, 1, n)) = n
<1> DEFINE w == SubSeq(Out(s), 1, n)
           t == SubSeq(s, 1, n)
<1>1. /\ Out(s) \in Seq(Item) /\ Len(Out(s)) = Len(s)
      /\ \A i \in 1 .. Len(s) : Out(s)[i].k = "out" /\ Out(s)[i].v = s[i]
  BY OutParts
<1>2. /\ Len(s) \in Nat /\ n \in Nat /\ n <= Len(s)
      /\ \A i \in 1 .. n : i \in 1 .. Len(s) /\ s[i] \in Symbol
  OBVIOUS
<1>3. \A i \in 1 .. n : Out(s)[i] \in Item
  BY <1>1, <1>2, ElementOfSeq
<1>4. w \in Seq(Item) /\ Len(w) = n /\ \A i \in 1 .. n : w[i] = Out(s)[i]
  BY <1>2, <1>3, SubSeqProperties
<1>5. t \in Seq(Symbol) /\ Len(t) = n /\ \A i \in 1 .. n : t[i] = s[i]
  BY <1>2, SubSeqProperties
<1> HIDE DEF w, t
<1>6. \A i \in 1 .. n : w[i].k = "out" /\ w[i].v = t[i]
  BY <1>1, <1>2, <1>4, <1>5
<1>7. Text(w) = [i \in 1 .. n |-> w[i].v]
  BY <1>2, <1>4, <1>6, TextOf
<1>8. t = [i \in 1 .. n |-> t[i]]
  BY <1>5
<1>9. Text(w) = t
  BY <1>6, <1>7, <1>8
<1> QED BY <1>4, <1>5, <1>6, <1>9 DEF w, t

-----------------------------------------------------------------------------
(* The shape of the stream: the output so far, and what came at its end, if *)
(* the command has ended and not taken its shell or agent with it.          *)
EndItem(c) == [k |-> "end", v |-> c]
Trailer(t, c) == [k |-> t, v |-> c]

WireShape ==
  /\ via = "k8s" => \/ wire = Out(sent)
                    \/ exit # <<>> /\ wire = Out(Ended(sent, exit))
  /\ via = "e2b" => \/ wire = Out(sent)
                    \/ /\ exit # <<>>
                       /\ \E t \in {"ok", "err"} :
                            wire = Out(sent) \o <<EndItem(exit), Trailer(t, exit)>>
  /\ via = "vsock" => \/ wire = <<>>
                      \/ exit # <<>> /\ wire = <<EndItem(exit)>>

(* What an answer read off the stream promises.                             *)
Honest(a, complete) ==
  /\ a.code \in Seq(Digit) \cup {Unknown, Error} /\ a.out \in Seq(Symbol)
  /\ complete /\ a.code # Error => a = Answer(exit, sent)
  /\ Numeric(a.code) /\ ~Contains(sent, "M") =>
       exit # <<>> /\ (a.code = <<"0">> => exit = <<"0">>)

LEMMA NotNumeric == ~Numeric(Unknown) /\ ~Numeric(Error) /\ ~Numeric(Pending)
<1>1. Unknown[1] = "-1" /\ Error[1] = "error" /\ Pending[1] = "pending"
  BY DEF Unknown, Error, Pending
<1>2. 1 \in DOMAIN Unknown /\ 1 \in DOMAIN Error /\ 1 \in DOMAIN Pending
  BY DEF Unknown, Error, Pending
<1> QED BY <1>1, <1>2 DEF Numeric, Digit

(* An error, and the whole truth, are honest answers.                       *)
LEMMA HonestAnswers ==
  ASSUME sent \in Seq(Symbol), NEW complete \in BOOLEAN
  PROVE  /\ Honest(Answer(Error, <<>>), complete)
         /\ exit \in Seq(Digit) /\ exit # <<>> => Honest(Answer(exit, sent), complete)
<1>1. \A c, o : Answer(c, o).code = c /\ Answer(c, o).out = o
  BY DEF Answer
<1>2. <<>> \in Seq(Symbol)
  OBVIOUS
<1>3. Honest(Answer(Error, <<>>), complete)
  BY <1>1, <1>2, NotNumeric DEF Honest
<1>4. exit \in Seq(Digit) /\ exit # <<>> => Honest(Answer(exit, sent), complete)
  BY <1>1 DEF Honest
<1> QED BY <1>3, <1>4

LEMMA HonestSentinel ==
  ASSUME sent \in Seq(Symbol), exit \in Codes \cup {<<>>}, WireShape, via = "k8s",
         NEW n \in 0 .. Len(wire)
  PROVE  Honest(Parse(SubSeq(wire, 1, n)), n = Len(wire) /\ Marked)
<1> DEFINE a == Parse(SubSeq(wire, 1, n))
           complete == n = Len(wire) /\ Marked
(* The stream is the text z, of which the reader sees the first n symbols.  *)
<1>1. PICK z \in Seq(Symbol) :
        /\ wire = Out(z)
        /\ \/ z = sent
           \/ exit \in Codes /\ z = Ended(sent, exit)
  <2>1. exit \in Codes => Ended(sent, exit) \in Seq(Symbol)
    BY EndedParts
  <2> QED BY <2>1 DEF WireShape
<1>2. Len(wire) = Len(z) /\ n \in 0 .. Len(z)
  BY <1>1, OutParts
<1> DEFINE t == SubSeq(z, 1, n)
<1>3. /\ Text(SubSeq(wire, 1, n)) = t /\ t \in Seq(Symbol) /\ Len(t) = n
      /\ \A i \in 1 .. n : t[i] = z[i]
  BY <1>1, <1>2, OutPrefix
<1>4. a = ParseSentinel(t)
  BY <1>3 DEF Parse
<1>5. a.code \in Seq(Digit) \cup {Unknown} /\ a.out \in Seq(Symbol)
  BY <1>3, <1>4, ParsedTyped
<1>6. Len(sent) \in Nat /\ n \in Nat
  BY <1>2
<1> HIDE DEF a
(* Before the marker of the shell: only what the command itself printed.    *)
<1>7. CASE n <= Len(sent)
  <2>1. \A i \in 1 .. n : t[i] = sent[i] /\ i \in 1 .. Len(sent)
    <3>1. \A i \in 1 .. Len(sent) : z[i] = sent[i]
      <4>1. CASE z = sent
        BY <4>1
      <4>2. CASE exit \in Codes /\ z = Ended(sent, exit)
        BY <4>2, EndedParts
      <4> QED BY <1>1, <4>1, <4>2
    <3>2. \A i \in 1 .. n : i \in 1 .. Len(sent)
      BY <1>6, <1>7
    <3> QED BY <1>3, <3>1, <3>2
  <2>2. ~complete
    <3> SUFFICES ASSUME n = Len(wire), Marked PROVE FALSE
      OBVIOUS
    <3>1. Len(wire) > Len(sent)
      BY DEF Marked
    <3> QED BY <1>6, <1>7, <3>1
  <2>3. ~Contains(sent, "M") => a.code = Unknown
    <3> SUFFICES ASSUME ~Contains(sent, "M") PROVE a.code = Unknown
      OBVIOUS
    <3>1. \A i \in 1 .. Len(t) : t[i] # "M"
      BY <1>3, <2>1 DEF Contains
    <3>2. a = Answer(Unknown, t)
      BY <1>3, <1>4, <3>1, ParsedNoMark
    <3> QED BY <3>2 DEF Answer
  <2> QED BY <1>5, <2>2, <2>3, NotNumeric DEF Honest, a
<1>8. CASE ~(n <= Len(sent))
  <2>1. exit \in Codes /\ z = Ended(sent, exit)
    BY <1>1, <1>2, <1>6, <1>8
  <2>2. Len(exit) \in Nat /\ Len(z) = Len(sent) + Len(exit) + 2
    BY <2>1, CodeShape, EndedParts
  <2>3. PICK l \in 0 .. Len(exit) + 1 : n = Len(sent) + 1 + l
    <3>1. n - Len(sent) - 1 \in 0 .. Len(exit) + 1 /\ n = Len(sent) + 1 + (n - Len(sent) - 1)
      BY <1>2, <1>6, <1>8, <2>2
    <3> QED BY <3>1
  <2>4. t = Cut(sent, exit, l)
    BY <2>1, <2>3 DEF Cut
  <2>5. CASE l = 0
    <3>1. a.code = Unknown
      <4>1. ParseSentinel(Cut(sent, exit, l)).code = Unknown
        BY <2>1, <2>3, <2>5, ParsedTail
      <4> QED BY <1>4, <2>4, <4>1
    <3>2. n # Len(wire)
      BY <1>2, <1>6, <2>2, <2>3, <2>5
    <3> QED BY <1>5, <3>1, <3>2, NotNumeric DEF Honest, a
  <2>6. CASE l > 0
    <3>1. PICK k \in 1 .. Len(exit) :
            /\ l >= Len(exit) => k = Len(exit)
            /\ a = Answer(Value(SubSeq(exit, 1, k)), sent)
      BY <1>4, <2>1, <2>4, <2>6, ParsedTail
    <3>2. /\ Value(SubSeq(exit, 1, k)) = <<"0">> => exit = <<"0">>
          /\ k = Len(exit) => Value(SubSeq(exit, 1, k)) = exit
      BY <2>1, CutCode
    <3>3. n = Len(wire) => k = Len(exit)
      BY <1>2, <1>6, <2>2, <2>3, <3>1
    <3>4. exit # <<>>
      BY <2>1, CodeShape
    <3>5. a.code = Value(SubSeq(exit, 1, k))
      BY <3>1 DEF Answer
    <3>6. n = Len(wire) => a = Answer(exit, sent)
      BY <3>1, <3>2, <3>3
    <3> QED BY <1>5, <3>2, <3>4, <3>5, <3>6 DEF Honest, a
  <2>7. l = 0 \/ l > 0
    BY <2>2
  <2> QED BY <2>5, <2>6, <2>7
<1> QED BY <1>7, <1>8

(* The envelopes after the output: the end event, then the trailer.         *)
LEMMA EnvelopeParts ==
  ASSUME sent \in Seq(Symbol), exit \in Codes, NEW t \in {"ok", "err"}
  PROVE  LET w == Out(sent) \o <<EndItem(exit), Trailer(t, exit)>> IN
         /\ w \in Seq(Item) /\ Len(w) = Len(sent) + 2
         /\ \A i \in 1 .. Len(sent) : w[i].k = "out" /\ w[i].v = sent[i]
         /\ w[Len(sent) + 1] = EndItem(exit)
         /\ w[Len(sent) + 2] = Trailer(t, exit)
<1> DEFINE e == <<EndItem(exit), Trailer(t, exit)>>
           w == Out(sent) \o e
<1>1. EndItem(exit) \in Item /\ Trailer(t, exit) \in Item
  BY DEF EndItem, Trailer, Item
<1>2. e \in Seq(Item) /\ Len(e) = 2 /\ e[1] = EndItem(exit) /\ e[2] = Trailer(t, exit)
  BY <1>1
<1>3. /\ Out(sent) \in Seq(Item) /\ Len(Out(sent)) = Len(sent) /\ Len(sent) \in Nat
      /\ \A i \in 1 .. Len(sent) : Out(sent)[i].k = "out" /\ Out(sent)[i].v = sent[i]
  BY OutParts
<1> HIDE DEF e
<1>4. /\ w \in Seq(Item) /\ Len(w) = Len(sent) + 2
      /\ \A i \in 1 .. Len(sent) + 2 :
           w[i] = IF i <= Len(sent) THEN Out(sent)[i] ELSE e[i - Len(sent)]
  <2>1. /\ w \in Seq(Item) /\ Len(w) = Len(Out(sent)) + Len(e)
        /\ \A i \in 1 .. Len(Out(sent)) + Len(e) :
             w[i] = IF i <= Len(Out(sent)) THEN Out(sent)[i] ELSE e[i - Len(Out(sent))]
    <3>1. Out(sent) \in Seq(Item) /\ e \in Seq(Item)
      BY <1>2, <1>3
    <3> QED BY <3>1, ConcatProperties, Zenon
  <2> HIDE DEF w
  <2> QED BY <1>2, <1>3, <2>1
<1> HIDE DEF w
<1>5. w[Len(sent) + 1] = e[1] /\ w[Len(sent) + 2] = e[2]
  BY <1>3, <1>4
<1>6. \A i \in 1 .. Len(sent) : w[i] = Out(sent)[i]
  BY <1>3, <1>4
<1> QED BY <1>2, <1>3, <1>4, <1>5, <1>6 DEF w, e

LEMMA HonestEnvelopes ==
  ASSUME sent \in Seq(Symbol), exit \in Codes \cup {<<>>}, WireShape, via = "e2b",
         NEW n \in 0 .. Len(wire)
  PROVE  Honest(Parse(SubSeq(wire, 1, n)), n = Len(wire) /\ Marked)
<1> DEFINE w == SubSeq(wire, 1, n)
           a == Parse(w)
           L == Len(sent)
<1>1. L \in Nat
  OBVIOUS
(* The output, and behind it the two envelopes or nothing.                  *)
<1>2. /\ wire \in Seq(Item) /\ Len(wire) \in {L, L + 2}
      /\ \A i \in 1 .. L : wire[i].k = "out" /\ wire[i].v = sent[i]
      /\ Len(wire) # L => /\ exit \in Codes
                          /\ wire[L + 1].k = "end" /\ wire[L + 1].v = exit
                          /\ wire[L + 2].k \in {"ok", "err"}
  <2>1. CASE wire = Out(sent)
    BY <2>1, OutParts
  <2>2. CASE wire # Out(sent)
    <3>1. PICK t \in {"ok", "err"} : /\ wire = Out(sent) \o <<EndItem(exit), Trailer(t, exit)>>
                                    /\ exit \in Codes
      BY <2>2 DEF WireShape
    <3>2. /\ wire \in Seq(Item) /\ Len(wire) = L + 2
          /\ \A i \in 1 .. L : wire[i].k = "out" /\ wire[i].v = sent[i]
          /\ wire[L + 1] = EndItem(exit) /\ wire[L + 2] = Trailer(t, exit)
      BY <3>1, EnvelopeParts
    <3> QED BY <3>1, <3>2 DEF EndItem, Trailer
  <2> QED BY <2>1, <2>2
<1>3. n \in Nat /\ n <= L + 2 /\ \A i \in 1 .. n : i \in 1 .. Len(wire)
  BY <1>1, <1>2
<1>4. w \in Seq(Item) /\ Len(w) = n /\ \A i \in 1 .. n : w[i] = wire[i]
  <2>1. \A i \in 1 .. n : wire[i] \in Item
    BY <1>2, <1>3, ElementOfSeq
  <2> QED BY <1>3, <2>1, SubSeqProperties
<1>5. a = IF \E i \in 1 .. n : w[i].k = "err" THEN Answer(Error, <<>>)
          ELSE Answer(IF EndAt(w) = 0 THEN Unknown ELSE w[EndAt(w)].v, Text(w))
  <2>1. DOMAIN w = 1 .. n
    BY <1>4, LenProperties
  <2> QED BY <2>1 DEF Parse, ParseEnvelopes
<1> HIDE DEF w, a
<1>6. /\ EndAt(w) \in 0 .. n
      /\ EndAt(w) > 0 => w[EndAt(w)].k = "end"
      /\ \A i \in 1 .. n : w[i].k = "end" => i <= EndAt(w)
  BY <1>3, <1>4, EndAtPosition
(* Nothing but output.                                                      *)
<1>7. CASE n <= L
  <2>1. \A i \in 1 .. n : w[i].k = "out" /\ w[i].v = sent[i] /\ sent[i] \in Symbol
    BY <1>1, <1>2, <1>3, <1>4, <1>7
  <2>2. EndAt(w) = 0
    BY <1>6, <2>1
  <2>3. Text(w) = [i \in 1 .. n |-> w[i].v]
    <3>1. n \in 0 .. Len(w) /\ \A i \in n + 1 .. Len(w) : w[i].k # "out"
      BY <1>3, <1>4
    <3> QED BY <1>3, <1>4, <2>1, <3>1, TextOf
  <2>4. Text(w) \in Seq(Symbol)
    BY <1>3, <2>1, <2>3
  <2>5. a = Answer(Unknown, Text(w))
    BY <1>5, <2>1, <2>2
  <2>6. ~(n = Len(wire) /\ Marked)
    <3> SUFFICES ASSUME n = Len(wire), Marked PROVE FALSE
      OBVIOUS
    <3>1. EndAt(wire) > 0
      BY DEF Marked
    <3>2. EndAt(wire) \in 1 .. Len(wire) /\ wire[EndAt(wire)].k = "end"
      BY <1>2, <3>1, EndAtPosition
    <3> QED BY <1>1, <1>2, <1>7, <3>2
  <2> QED BY <2>4, <2>5, <2>6, NotNumeric DEF Honest, Answer, a, w
(* The end event has been read, and perhaps the trailer.                    *)
<1>8. CASE n > L
  <2>1. Len(wire) = L + 2 /\ exit \in Codes /\ n \in {L + 1, L + 2}
    BY <1>1, <1>2, <1>3, <1>8
  <2>2. /\ \A i \in 1 .. L : w[i].k = "out" /\ w[i].v = sent[i]
        /\ w[L + 1].k = "end" /\ w[L + 1].v = exit
    BY <1>1, <1>2, <1>3, <1>4, <1>8, <2>1
  <2>3. n = L + 2 => w[L + 2].k \in {"ok", "err"}
    BY <1>1, <1>2, <1>4, <2>1
  <2>4. EndAt(w) = L + 1
    <3>1. L + 1 <= EndAt(w)
      BY <1>1, <1>6, <1>8, <2>1, <2>2
    <3>2. EndAt(w) > 0 => EndAt(w) # L + 2
      BY <1>1, <1>6, <2>1, <2>3
    <3> QED BY <1>1, <1>6, <2>1, <3>1, <3>2
  <2>5. Text(w) = sent
    <3>1. \A i \in L + 1 .. n : w[i].k # "out"
      BY <1>1, <2>1, <2>2, <2>3
    <3>2. Text(w) = [i \in 1 .. L |-> w[i].v]
      <4>1. L \in 0 .. Len(w) /\ Len(w) \in Nat
        BY <1>1, <1>3, <1>4, <1>8
      <4>2. \A i \in L + 1 .. Len(w) : w[i].k # "out"
        BY <1>4, <3>1
      <4> HIDE DEF L
      <4> QED BY <2>2, <4>1, <4>2, TextOf
    <3>3. sent = [i \in 1 .. L |-> sent[i]]
      OBVIOUS
    <3> QED BY <2>2, <3>2, <3>3
  <2>6. a = Answer(Error, <<>>) \/ a = Answer(exit, sent)
    BY <1>1, <1>5, <2>2, <2>4, <2>5
  <2>7. exit \in Seq(Digit) /\ exit # <<>>
    BY <2>1, CodeShape
  <2> QED BY <2>6, <2>7, HonestAnswers DEF a, w
<1> QED BY <1>1, <1>3, <1>7, <1>8

LEMMA HonestRecord ==
  ASSUME sent \in Seq(Symbol), exit \in Codes \cup {<<>>}, WireShape, via = "vsock",
         NEW n \in 0 .. Len(wire)
  PROVE  Honest(Parse(SubSeq(wire, 1, n)), n = Len(wire) /\ Marked)
<1> DEFINE w == SubSeq(wire, 1, n)
           a == Parse(w)
<1>1. a = IF EndAt(w) = 0 THEN Answer(Error, <<>>) ELSE Answer(w[EndAt(w)].v, sent)
  BY DEF Parse, ParseRecord
<1>2. wire = <<>> \/ (exit \in Codes /\ wire = <<EndItem(exit)>>)
  BY DEF WireShape
<1>3. wire \in Seq(Item)
  <2>1. exit \in Codes => EndItem(exit) \in Item
    BY DEF EndItem, Item
  <2>2. exit \in Codes => <<EndItem(exit)>> \in Seq(Item)
    BY <2>1
  <2>3. <<>> \in Seq(Item)
    OBVIOUS
  <2> QED BY <1>2, <2>2, <2>3, Zenon
<1>4. n \in Nat /\ n <= Len(wire) /\ \A i \in 1 .. n : i \in 1 .. Len(wire)
  BY <1>3
<1>5. w \in Seq(Item) /\ Len(w) = n /\ \A i \in 1 .. n : w[i] = wire[i]
  <2>1. \A i \in 1 .. n : wire[i] \in Item
    BY <1>3, <1>4, ElementOfSeq
  <2> QED BY <1>4, <2>1, SubSeqProperties
<1> HIDE DEF w, a
<1>6. EndAt(w) \in 0 .. n
  BY <1>4, <1>5, EndAtPosition
<1>7. EndAt(w) # 0 => exit \in Codes /\ w[EndAt(w)].v = exit
  <2> SUFFICES ASSUME EndAt(w) # 0 PROVE exit \in Codes /\ w[EndAt(w)].v = exit
    OBVIOUS
  <2>1. wire = <<EndItem(exit)>> /\ exit \in Codes
    BY <1>2, <1>4, <1>6
  <2>2. EndAt(w) = 1 /\ w[1] = EndItem(exit)
    BY <1>4, <1>5, <1>6, <2>1
  <2> QED BY <2>1, <2>2 DEF EndItem
<1>8. a = Answer(Error, <<>>) \/ (exit \in Codes /\ a = Answer(exit, sent))
  BY <1>1, <1>7
<1>9. exit \in Codes => exit \in Seq(Digit) /\ exit # <<>>
  BY CodeShape
<1> QED BY <1>8, <1>9, HonestAnswers DEF a, w

-----------------------------------------------------------------------------
(* The inductive invariant: the shape of the stream, and the honesty of an  *)
(* answer, after which nothing moves.                                       *)
StreamInv ==
  /\ via \in {"k8s", "e2b", "vsock"}
  /\ sent \in Seq(Symbol) /\ Len(sent) <= MaxOut
  /\ exit \in Codes \cup {<<>>}
  /\ WireShape
  /\ whole \in BOOLEAN
  /\ \/ told = Answer(Pending, <<>>) /\ ~whole
     \/ told.code # Pending /\ Honest(told, whole)

LEMMA StreamInitially == StreamInit => StreamInv
<1> SUFFICES ASSUME StreamInit PROVE StreamInv
  OBVIOUS
<1>1. Out(<<>>) = <<>>
  BY DEF Out
<1>2. sent \in Seq(Symbol) /\ Len(sent) <= MaxOut
  BY StreamsAssumption DEF StreamInit
<1>3. WireShape
  BY <1>1 DEF StreamInit, WireShape
<1> QED BY <1>2, <1>3 DEF StreamInit, StreamInv

LEMMA StreamStep == StreamInv /\ [StreamNext]_streamVars => StreamInv'
<1> SUFFICES ASSUME StreamInv, [StreamNext]_streamVars PROVE StreamInv'
  OBVIOUS
<1>1. CASE UNCHANGED streamVars
  BY <1>1 DEF streamVars, StreamInv, WireShape, Honest
<1>2. ASSUME told.code = Pending PROVE told = Answer(Pending, <<>>) /\ ~whole
  BY <1>2 DEF StreamInv
<1>3. ASSUME Running PROVE /\ told = Answer(Pending, <<>>) /\ ~whole
                          /\ exit = <<>> /\ wire = IF via = "vsock" THEN <<>> ELSE Out(sent)
  BY <1>2, <1>3 DEF Running, StreamInv, WireShape
<1>4. ASSUME NEW y \in Symbol, Emit(y)
      PROVE  StreamInv'
  <2>1. /\ told = Answer(Pending, <<>>) /\ ~whole
        /\ exit = <<>> /\ wire = IF via = "vsock" THEN <<>> ELSE Out(sent)
    BY <1>3, <1>4 DEF Emit
  <2>2. /\ sent' = Append(sent, y) /\ Len(sent) < MaxOut
        /\ wire' = IF via = "vsock" THEN wire ELSE wire \o Out(<<y>>)
        /\ UNCHANGED <<via, exit, told, whole>>
    BY <1>4 DEF Emit
  <2>3. <<y>> \in Seq(Symbol) /\ sent \in Seq(Symbol) /\ Len(sent) \in Nat
    BY DEF StreamInv
  <2>4. sent' \in Seq(Symbol) /\ Len(sent') <= MaxOut /\ sent' = sent \o <<y>>
    BY <2>2, <2>3, StreamsAssumption
  <2>5. Out(sent) \o Out(<<y>>) = Out(sent \o <<y>>)
    BY <2>3, OutConcat
  <2>6. wire' = IF via = "vsock" THEN <<>> ELSE Out(sent')
    BY <2>1, <2>2, <2>4, <2>5
  <2>7. WireShape'
    BY <2>2, <2>6 DEF WireShape
  <2> QED BY <2>1, <2>2, <2>4, <2>7 DEF StreamInv
<1>5. ASSUME NEW c \in Codes, End(c)
      PROVE  StreamInv'
  <2>1. /\ told = Answer(Pending, <<>>) /\ ~whole
        /\ wire = IF via = "vsock" THEN <<>> ELSE Out(sent)
    BY <1>3, <1>5 DEF End
  <2>2. exit' = c /\ UNCHANGED <<via, sent, told, whole>>
    BY <1>5 DEF End
  <2>3. c # <<>> /\ c \in Seq(Symbol) /\ sent \in Seq(Symbol)
    BY CodeShape, SeqMonotonic DEF StreamInv, Symbol
  <2>4. WireShape'
    <3>1. CASE via = "k8s"
      <4>1. wire' = Out(sent) \o Out(<<"M">> \o c \o <<"n">>)
        BY <1>5, <2>1, <3>1 DEF End
      <4>2. <<"M">> \in Seq(Symbol) /\ <<"n">> \in Seq(Symbol)
        BY DEF Symbol
      <4>3. <<"M">> \o c \in Seq(Symbol) /\ <<"M">> \o c \o <<"n">> \in Seq(Symbol)
        BY <2>3, <4>2, ConcatProperties
      <4>4. sent \o (<<"M">> \o c \o <<"n">>) = Ended(sent, c)
        <5>1. sent \o (<<"M">> \o c) = (sent \o <<"M">>) \o c
          BY <2>3, <4>2, ConcatAssociative
        <5>2. sent \o ((<<"M">> \o c) \o <<"n">>) = (sent \o (<<"M">> \o c)) \o <<"n">>
          BY <2>3, <4>2, <4>3, ConcatAssociative
        <5> QED BY <5>1, <5>2, Zenon DEF Ended
      <4>5. wire' = Out(Ended(sent, c))
        BY <2>3, <4>1, <4>3, <4>4, OutConcat
      <4> QED BY <2>2, <2>3, <3>1, <4>5 DEF WireShape
    <3>2. CASE via = "e2b"
      <4>1. \E t \in {"ok", "err"} : wire' = Out(sent) \o <<EndItem(c), Trailer(t, c)>>
        BY <1>5, <2>1, <3>2 DEF End, EndItem, Trailer
      <4> QED BY <2>2, <2>3, <3>2, <4>1 DEF WireShape
    <3>3. CASE via = "vsock"
      <4>1. wire' = <<>> \o <<EndItem(c)>>
        BY <1>5, <2>1, <3>3 DEF End, EndItem
      <4>2. EndItem(c) \in Item
        BY DEF EndItem, Item
      <4>3. wire' = <<EndItem(c)>>
        BY <4>1, <4>2, ConcatEmptySeq
      <4> QED BY <2>2, <2>3, <3>3, <4>3 DEF WireShape
    <3> QED BY <3>1, <3>2, <3>3 DEF StreamInv
  <2> QED BY <2>1, <2>2, <2>4 DEF StreamInv
<1>6. ASSUME NEW c \in Codes, EndSilently(c)
      PROVE  StreamInv'
  <2>1. /\ told = Answer(Pending, <<>>) /\ ~whole
        /\ wire = IF via = "vsock" THEN <<>> ELSE Out(sent)
    BY <1>3, <1>6 DEF EndSilently
  <2>2. exit' = c /\ UNCHANGED <<via, sent, wire, told, whole>>
    BY <1>6 DEF EndSilently
  <2>3. WireShape'
    BY <2>1, <2>2 DEF WireShape
  <2> QED BY <2>1, <2>2, <2>3 DEF StreamInv
<1>7. ASSUME NEW n \in 0 .. Len(wire), Read(n)
      PROVE  StreamInv'
  <2>1. UNCHANGED <<via, sent, exit, wire>> /\ told' = Parse(SubSeq(wire, 1, n))
    BY <1>7 DEF Read
  <2>2. whole' = (n = Len(wire) /\ Marked)
    BY <1>7 DEF Read
  <2>3. Honest(Parse(SubSeq(wire, 1, n)), n = Len(wire) /\ Marked)
    BY HonestSentinel, HonestEnvelopes, HonestRecord DEF StreamInv
  <2>4. Honest(told, whole)'
    BY <2>1, <2>2, <2>3 DEF Honest
  <2>5. told'.code # Pending
    <3>1. told'.code \in Seq(Digit) \cup {Unknown, Error}
      BY <2>4 DEF Honest
    <3>2. Pending \notin Seq(Digit)
      BY NotNumeric DEF Numeric
    <3>3. Unknown # Pending /\ Error # Pending
      BY DEF Unknown, Error, Pending
    <3> QED BY <3>1, <3>2, <3>3
  <2>6. whole' \in BOOLEAN
    BY <2>2
  <2>7. WireShape'
    BY <2>1 DEF StreamInv, WireShape
  <2> QED BY <2>1, <2>4, <2>5, <2>6, <2>7 DEF StreamInv
<1>8. CASE TimesOut
  <2>1. told' = Answer(Error, <<>>) /\ UNCHANGED <<via, sent, exit, wire, whole>> /\ ~whole
    BY <1>2, <1>8 DEF TimesOut
  <2>2. Honest(Answer(Error, <<>>), whole)
    BY HonestAnswers DEF StreamInv
  <2>3. Honest(told, whole)'
    BY <2>1, <2>2 DEF Honest
  <2>4. told'.code # Pending
    BY <2>1 DEF Answer, Error, Pending
  <2>5. WireShape'
    BY <2>1 DEF StreamInv, WireShape
  <2> QED BY <2>1, <2>3, <2>4, <2>5 DEF StreamInv
<1> QED BY <1>1, <1>4, <1>5, <1>6, <1>7, <1>8 DEF StreamNext

(* The end comes after all output.                                          *)
LEMMA OutputFirst ==
  ASSUME StreamInv
  PROVE  \A i, j \in DOMAIN wire : i < j /\ wire[j].k = "out" => wire[i].k = "out"
<1>1. sent \in Seq(Symbol) /\ Len(sent) \in Nat
  BY DEF StreamInv
<1>2. CASE \E z \in Seq(Symbol) : wire = Out(z)
  <2>1. PICK z \in Seq(Symbol) : wire = Out(z)
    BY <1>2
  <2>2. \A i \in DOMAIN wire : wire[i].k = "out"
    BY <2>1 DEF Out
  <2> QED BY <2>2
<1>3. CASE wire = <<>>
  BY <1>3
<1>4. ASSUME exit \in Codes, NEW t \in {"ok", "err"},
             wire = Out(sent) \o <<EndItem(exit), Trailer(t, exit)>>
      PROVE  \A i, j \in DOMAIN wire : i < j /\ wire[j].k = "out" => wire[i].k = "out"
  <2>1. /\ wire \in Seq(Item) /\ Len(wire) = Len(sent) + 2
        /\ \A i \in 1 .. Len(sent) : wire[i].k = "out"
        /\ wire[Len(sent) + 1].k # "out" /\ wire[Len(sent) + 2].k # "out"
    <3>1. /\ wire \in Seq(Item) /\ Len(wire) = Len(sent) + 2
          /\ \A i \in 1 .. Len(sent) : wire[i].k = "out"
          /\ wire[Len(sent) + 1] = EndItem(exit) /\ wire[Len(sent) + 2] = Trailer(t, exit)
      BY <1>1, <1>4, EnvelopeParts
    <3>2. EndItem(exit).k # "out" /\ Trailer(t, exit).k # "out"
      BY DEF EndItem, Trailer
    <3> QED BY <3>1, <3>2
  <2>2. DOMAIN wire = 1 .. Len(sent) + 2
    BY <2>1, LenProperties
  <2> QED BY <1>1, <2>1, <2>2
<1>5. CASE wire = <<EndItem(exit)>>
  BY <1>5 DEF EndItem
<1>6. exit \in Codes => Ended(sent, exit) \in Seq(Symbol)
  BY <1>1, EndedParts
<1> QED BY <1>1, <1>2, <1>3, <1>4, <1>5, <1>6 DEF StreamInv, WireShape

LEMMA StreamPromises == StreamInv => StreamTypeOK /\ ExitHonest
<1> SUFFICES ASSUME StreamInv PROVE StreamTypeOK /\ ExitHonest
  OBVIOUS
<1>1. CASE told = Answer(Pending, <<>>) /\ ~whole
  <2>1. told.code = Pending /\ told.out = <<>> /\ <<>> \in Seq(Symbol)
    BY <1>1 DEF Answer
  <2>2. StreamTypeOK
    BY <2>1, OutputFirst DEF StreamInv, StreamTypeOK
  <2>3. ExitHonest
    BY <1>1, <2>1, NotNumeric DEF ExitHonest
  <2> QED BY <2>2, <2>3
<1>2. CASE Honest(told, whole)
  <2>1. StreamTypeOK
    BY <1>2, OutputFirst DEF StreamInv, StreamTypeOK, Honest
  <2>2. ExitHonest
    BY <1>2 DEF ExitHonest, Honest
  <2> QED BY <2>1, <2>2
<1> QED BY <1>1, <1>2 DEF StreamInv
=============================================================================
