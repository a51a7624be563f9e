--------------------------- MODULE LoggingProofs ---------------------------
(***************************************************************************)
(* Proofs about Logging, for any sizes with a largest one, any INI files,  *)
(* and any number of lines, hours, failures and restarts.                  *)
(*                                                                         *)
(* The sum over the lines of a file is a recursive function; what it does  *)
(* on a longer file follows from induction over sets of numbers            *)
(* (NatSetInduction), which needs no operator as a parameter.              *)
(***************************************************************************)
EXTENDS Logging, SequenceTheorems, WellFoundedInduction, NaturalsInduction, TLAPS

-----------------------------------------------------------------------------
(* Induction over a set of numbers: it has no least number outside of it.  *)
LEMMA NatSetInduction ==
    ASSUME NEW S, 0 \in S, \A n \in Nat : n \in S => n + 1 \in S
    PROVE  Nat \subseteq S
  <1> DEFINE Less == {ss \in Nat \X Nat : ss[1] < ss[2]}
             Rest == Nat \ S
  <1>1. IsWellFoundedOn(Less, Nat)
    BY NatLessThanWellFounded DEF OpToRel
  <1>2. SUFFICES ASSUME Rest # {}
                 PROVE  FALSE
    OBVIOUS
  <1>3. \E x \in Rest : \A y \in Rest : ~(<<y, x>> \in Less)
    <2>1. Rest \subseteq Nat
      OBVIOUS
    <2> HIDE DEF Less, Rest
    <2> QED
      BY <1>1, <1>2, <2>1, WFMin, Zenon
  <1>4. PICK x \in Rest : \A y \in Rest : ~(<<y, x>> \in Less)
    BY <1>3
  <1>5. x \in Nat /\ x # 0 /\ x - 1 \in Nat /\ (x - 1) + 1 = x
    OBVIOUS
  <1>6. <<x - 1, x>> \in Less
    <2>1. <<x - 1, x>> \in Nat \X Nat
      BY <1>5
    <2> QED
      BY <1>5, <2>1
  <1>7. x - 1 \in Rest
    BY <1>5
  <1> QED
    BY <1>4, <1>6, <1>7

-----------------------------------------------------------------------------
(* The size of a file, as the last of its partial sums.                    *)

Sum(lines, upTo, last) ==
    upTo = [n \in 0..last |-> IF n = 0 THEN 0 ELSE upTo[n - 1] + lines[n].size]

LEMMA SumUnfold ==
    ASSUME NEW lines, NEW last \in Nat, NEW upTo, Sum(lines, upTo, last)
    PROVE  /\ upTo[0] = 0
           /\ \A n \in 0..last : n # 0 => upTo[n] = upTo[n - 1] + lines[n].size
  <1>1. \A n \in 0..last : upTo[n] = IF n = 0 THEN 0 ELSE upTo[n - 1] + lines[n].size
    BY Zenon DEF Sum
  <1>2. 0 \in 0..last
    OBVIOUS
  <1> QED
    BY <1>1, <1>2, Zenon

LEMMA SumExists ==
    ASSUME NEW lines, NEW last \in Nat
    PROVE  \E upTo : Sum(lines, upTo, last)
  <1> DEFINE S == {m \in Nat : \E upTo : Sum(lines, upTo, m)}
  <1>1. 0 \in S
    <2> DEFINE zero == [n \in 0..0 |-> 0]
    <2>1. zero = [n \in 0..0 |-> IF n = 0 THEN 0 ELSE zero[n - 1] + lines[n].size]
      OBVIOUS
    <2>2. Sum(lines, zero, 0)
      BY <2>1 DEF Sum
    <2> QED
      BY <2>2, Zenon
  <1>2. ASSUME NEW m \in Nat, m \in S
        PROVE  m + 1 \in S
    <2>1. PICK f : Sum(lines, f, m)
      BY <1>2
    <2> DEFINE g == [n \in 0..(m + 1) |-> IF n = m + 1 THEN f[m] + lines[n].size ELSE f[n]]
    <2>2. \A n \in 0..(m + 1) : g[n] = IF n = m + 1 THEN f[m] + lines[n].size ELSE f[n]
      BY Zenon
    <2>3. f[0] = 0 /\ \A n \in 0..m : n # 0 => f[n] = f[n - 1] + lines[n].size
      BY <2>1, SumUnfold
    <2>4. ASSUME NEW n \in 0..(m + 1)
          PROVE  g[n] = IF n = 0 THEN 0 ELSE g[n - 1] + lines[n].size
      <3> HIDE DEF g
      <3>1. CASE n = 0
        <4>1. n \in 0..(m + 1) /\ n # m + 1
          BY <3>1
        <4> QED
          BY <2>2, <2>3, <3>1, <4>1, Zenon
      <3>2. CASE n # 0 /\ n # m + 1
        <4>1. n \in 0..m /\ n - 1 \in 0..(m + 1) /\ n - 1 # m + 1
          BY <3>2
        <4>2. g[n] = f[n] /\ g[n - 1] = f[n - 1] /\ f[n] = f[n - 1] + lines[n].size
          BY <2>2, <2>3, <3>2, <4>1, Zenon
        <4> QED
          BY <3>2, <4>2, Zenon
      <3>3. CASE n = m + 1
        <4>1. n # 0 /\ n - 1 = m /\ m \in 0..(m + 1) /\ m # m + 1
          BY <3>3
        <4>2. g[n] = f[m] + lines[n].size /\ g[m] = f[m]
          BY <2>2, <3>3, <4>1, Zenon
        <4> QED
          BY <4>1, <4>2, Zenon
      <3> QED
        BY <3>1, <3>2, <3>3
    <2>5. g = [n \in 0..(m + 1) |-> IF n = 0 THEN 0 ELSE g[n - 1] + lines[n].size]
      BY <2>4, Zenon
    <2>6. Sum(lines, g, m + 1)
      BY <2>5, Zenon DEF Sum
    <2>7. \E upTo : Sum(lines, upTo, m + 1)
      <3> HIDE DEF g
      <3> QED
        BY <2>6, Zenon
    <2> QED
      BY <2>7
  <1>3. Nat \subseteq S
    <2> HIDE DEF S
    <2> QED
      BY <1>1, <1>2, NatSetInduction
  <1> QED
    BY <1>3

(* Bytes is the last partial sum.                                          *)
LEMMA BytesIsSum ==
    ASSUME NEW lines \in Seq(Lines)
    PROVE  \E upTo : Sum(lines, upTo, Len(lines)) /\ Bytes(lines) = upTo[Len(lines)]
  <1>1. Bytes(lines) = (CHOOSE f : Sum(lines, f, Len(lines)))[Len(lines)]
    BY DEF Bytes, Sum
  <1>2. \E f : Sum(lines, f, Len(lines))
    BY SumExists, LenProperties
  <1>3. Sum(lines, CHOOSE f : Sum(lines, f, Len(lines)), Len(lines))
    BY <1>2, Zenon
  <1> QED
    BY <1>1, <1>3, Zenon

LEMMA SumType ==
    ASSUME NEW lines, NEW last \in Nat, NEW upTo, Sum(lines, upTo, last),
           \A n \in 1..last : lines[n].size \in Nat
    PROVE  \A n \in 0..last : upTo[n] \in Nat
  <1> DEFINE S == {n \in Nat : n <= last => upTo[n] \in Nat}
  <1>1. upTo[0] = 0 /\ \A n \in 0..last : n # 0 => upTo[n] = upTo[n - 1] + lines[n].size
    BY SumUnfold
  <1>2. 0 \in S
    BY <1>1
  <1>3. ASSUME NEW n \in Nat, n \in S
        PROVE  n + 1 \in S
    <2>1. SUFFICES ASSUME n + 1 <= last
                   PROVE  upTo[n + 1] \in Nat
      OBVIOUS
    <2>2. upTo[n] \in Nat /\ n + 1 \in 0..last /\ n + 1 \in 1..last /\ n + 1 # 0
          /\ (n + 1) - 1 = n
      BY <1>3, <2>1
    <2>3. upTo[n + 1] = upTo[n] + lines[n + 1].size /\ lines[n + 1].size \in Nat
      BY <1>1, <2>2
    <2> QED
      BY <2>2, <2>3
  <1>4. Nat \subseteq S
    <2> HIDE DEF S
    <2> QED
      BY <1>2, <1>3, NatSetInduction
  <1> QED
    BY <1>4

(* The partial sums of the b lines s of a file r of c lines, behind a      *)
(* others.                                                                 *)
Behind(r, s, a, b) == \A n \in 1..b : r[a + n].size = s[n].size /\ s[n].size \in Nat
Adds(g, f, a, b, c) == g[c] = g[a] + f[b]

LEMMA SumShift ==
    ASSUME NEW r, NEW s, NEW a \in Nat, NEW b \in Nat, NEW c \in Nat, c = a + b,
           NEW f, NEW g, g[a] \in Nat, Sum(s, f, b), Sum(r, g, c), Behind(r, s, a, b)
    PROVE  Adds(g, f, a, b, c)
  <1>0. PICK start \in Nat : start = g[a]
    OBVIOUS
  <1> DEFINE S == {n \in Nat : n <= b => g[a + n] = start + f[n]}
  <1>1. f[0] = 0 /\ \A n \in 0..b : n # 0 => f[n] = f[n - 1] + s[n].size
    BY SumUnfold
  <1>2. \A n \in 0..(a + b) : n # 0 => g[n] = g[n - 1] + r[n].size
    BY SumUnfold
  <1>3. \A n \in 0..b : f[n] \in Nat
    BY SumType DEF Behind
  <1>4. 0 \in S
    BY <1>0, <1>1
  <1>5. ASSUME NEW n \in Nat, n \in S
        PROVE  n + 1 \in S
    <2>1. SUFFICES ASSUME n + 1 <= b
                   PROVE  g[a + (n + 1)] = start + f[n + 1]
      OBVIOUS
    <2>2. g[a + n] = start + f[n]
      BY <1>5, <2>1
    <2>3. /\ n \in 0..b /\ n + 1 \in 0..b /\ n + 1 # 0 /\ (n + 1) - 1 = n /\ n + 1 \in 1..b
          /\ a + (n + 1) \in 0..(a + b) /\ a + (n + 1) # 0 /\ (a + (n + 1)) - 1 = a + n
      BY <2>1
    <2>4. f[n + 1] = f[n] + s[n + 1].size
      BY <1>1, <2>3
    <2>5. g[a + (n + 1)] = g[a + n] + r[a + (n + 1)].size
      BY <1>2, <2>3
    <2>6. r[a + (n + 1)].size = s[n + 1].size /\ s[n + 1].size \in Nat /\ f[n] \in Nat
      BY <1>3, <2>3 DEF Behind
    <2> QED
      BY <2>2, <2>4, <2>5, <2>6
  <1>6. Nat \subseteq S
    <2> HIDE DEF S
    <2> QED
      BY <1>4, <1>5, NatSetInduction
  <1>7. g[a + b] = start + f[b] /\ f[b] \in Nat
    BY <1>3, <1>6
  <1> QED
    BY <1>0, <1>7 DEF Adds

(* The partial sums of the a lines s at the beginning of a file r of c.    *)
Begins(r, s, a) == \A n \in 1..a : r[n] = s[n]

LEMMA SumPrefix ==
    ASSUME NEW r, NEW s, NEW a \in Nat, NEW c \in Nat, a <= c, NEW f, NEW g,
           Sum(s, f, a), Sum(r, g, c), Begins(r, s, a)
    PROVE  \A n \in 0..a : g[n] = f[n]
  <1> DEFINE S == {n \in Nat : n <= a => g[n] = f[n]}
  <1>1. f[0] = 0 /\ \A n \in 0..a : n # 0 => f[n] = f[n - 1] + s[n].size
    BY SumUnfold
  <1>2. g[0] = 0 /\ \A n \in 0..c : n # 0 => g[n] = g[n - 1] + r[n].size
    BY SumUnfold
  <1>3. 0 \in S
    BY <1>1, <1>2
  <1>4. ASSUME NEW n \in Nat, n \in S
        PROVE  n + 1 \in S
    <2>1. SUFFICES ASSUME n + 1 <= a
                   PROVE  g[n + 1] = f[n + 1]
      OBVIOUS
    <2>2. g[n] = f[n]
      BY <1>4, <2>1
    <2>3. /\ n + 1 \in 0..a /\ n + 1 # 0 /\ (n + 1) - 1 = n /\ n + 1 \in 1..a
          /\ n + 1 \in 0..c
      BY <2>1
    <2>4. f[n + 1] = f[n] + s[n + 1].size /\ g[n + 1] = g[n] + r[n + 1].size
      BY <1>1, <1>2, <2>3, Zenon
    <2>5. r[n + 1] = s[n + 1]
      BY <2>3 DEF Begins
    <2> QED
      BY <2>2, <2>4, <2>5, Zenon
  <1>5. Nat \subseteq S
    <2> HIDE DEF S
    <2> QED
      BY <1>3, <1>4, NatSetInduction
  <1> QED
    BY <1>5

LEMMA LineSizes ==
    ASSUME NEW lines \in Seq(Lines)
    PROVE  \A n \in 1..Len(lines) : /\ lines[n] \in Lines /\ lines[n].size \in Nat
                                    /\ lines[n].size > 0 /\ lines[n].size \in Sizes
                                    /\ lines[n].id \in Nat
  <1>1. \A n \in 1..Len(lines) : lines[n] \in Lines
    BY ElementOfSeq
  <1>2. \A line \in Lines : line.size \in Sizes /\ line.id \in Nat
    BY DEF Lines
  <1>3. \A size \in Sizes : size \in Nat /\ size > 0
    BY LoggingAssumption
  <1> QED
    BY <1>1, <1>2, <1>3, Zenon

LEMMA BytesType ==
    ASSUME NEW lines \in Seq(Lines)
    PROVE  Bytes(lines) \in Nat
  <1>1. PICK f : Sum(lines, f, Len(lines)) /\ Bytes(lines) = f[Len(lines)]
    BY BytesIsSum
  <1>2. Len(lines) \in Nat /\ Len(lines) \in 0..Len(lines)
    BY LenProperties
  <1> QED
    BY <1>1, <1>2, SumType, LineSizes

LEMMA BytesEmpty == Bytes(<<>>) = 0
  <1>1. <<>> \in Seq(Lines) /\ Len(<<>>) = 0
    BY EmptySeq
  <1>2. PICK f : Sum(<<>>, f, Len(<<>>)) /\ Bytes(<<>>) = f[Len(<<>>)]
    BY <1>1, BytesIsSum
  <1> QED
    BY <1>1, <1>2, SumUnfold

LEMMA BytesOne ==
    ASSUME NEW line \in Lines
    PROVE  Bytes(<<line>>) = line.size /\ line.size \in Nat /\ line.size > 0
           /\ line.size \in Sizes
  <1>1. PICK one \in Seq(Lines) : one = <<line>> /\ Len(one) = 1 /\ one[1] = line
    BY <<line>> \in Seq(Lines)
  <1>2. PICK f : Sum(one, f, Len(one)) /\ Bytes(one) = f[Len(one)]
    BY BytesIsSum
  <1>3. Sum(one, f, 1) /\ Bytes(one) = f[1] /\ 1 \in Nat
    BY <1>1, <1>2, Zenon
  <1>4. f[0] = 0 /\ \A n \in 0..1 : n # 0 => f[n] = f[n - 1] + one[n].size
    BY <1>3, SumUnfold
  <1>5. f[1] = f[0] + line.size
    BY <1>1, <1>4
  <1>6. line.size \in Nat /\ line.size > 0 /\ line.size \in Sizes
    <2>1. line.size \in Sizes
      BY DEF Lines
    <2>2. \A size \in Sizes : size \in Nat /\ size > 0
      BY LoggingAssumption
    <2> QED
      BY <2>1, <2>2, Zenon
  <1>7. Bytes(one) = line.size
    BY <1>3, <1>4, <1>5, <1>6
  <1> QED
    BY <1>1, <1>6, <1>7, Zenon

LEMMA BytesConcat ==
    ASSUME NEW s \in Seq(Lines), NEW t \in Seq(Lines)
    PROVE  Bytes(s \o t) = Bytes(s) + Bytes(t)
  <1>1. PICK a \in Nat, b \in Nat, c \in Nat, r \in Seq(Lines) :
            a = Len(s) /\ b = Len(t) /\ r = s \o t /\ c = a + b
    BY LenProperties, ConcatProperties
  <1>2. /\ Len(r) = c /\ c = a + b
        /\ \A n \in 1..a : r[n] = s[n]
        /\ \A n \in 1..b : r[a + n] = t[n]
    <2>1. Len(r) = a + b /\ \A i \in 1..(a + b) : r[i] = IF i <= a THEN s[i] ELSE t[i - a]
      BY <1>1, ConcatProperties
    <2>2. \A n \in 1..b : a + n \in 1..(a + b) /\ ~(a + n <= a) /\ (a + n) - a = n
      OBVIOUS
    <2>3. \A n \in 1..a : n \in 1..(a + b) /\ n <= a
      OBVIOUS
    <2>4. \A n \in 1..a : r[n] = s[n]
      BY <2>1, <2>3
    <2>5. \A n \in 1..b : r[a + n] = t[n]
      BY <2>1, <2>2
    <2> QED
      BY <1>1, <2>1, <2>4, <2>5
  <1>3. PICK f : Sum(s, f, a) /\ Bytes(s) = f[a]
    BY <1>1, BytesIsSum
  <1>4. PICK g : Sum(t, g, b) /\ Bytes(t) = g[b]
    BY <1>1, BytesIsSum
  <1>5. PICK h : Sum(r, h, c) /\ Bytes(r) = h[c]
    BY <1>2, BytesIsSum
  <1>6. h[a] = f[a]
    <2>1. Begins(r, s, a) /\ Sum(s, f, a) /\ Sum(r, h, c) /\ a <= c
      BY <1>2, <1>3, <1>5 DEF Begins
    <2>2. \A n \in 0..a : h[n] = f[n]
      BY <2>1, SumPrefix
    <2> QED
      BY <2>2
  <1>7. Behind(r, t, a, b)
    <2>1. \A n \in 1..b : t[n].size \in Nat
      BY <1>1, LineSizes
    <2> QED
      BY <1>2, <2>1 DEF Behind
  <1>8. h[a] \in Nat
    BY <1>3, <1>6, BytesType
  <1>9. Adds(h, g, a, b, c)
    BY <1>2, <1>4, <1>5, <1>7, <1>8, SumShift
  <1> QED
    BY <1>1, <1>3, <1>4, <1>5, <1>6, <1>9 DEF Adds

-----------------------------------------------------------------------------
(* What a concatenation of lines holds.                                    *)

LEMMA BytesPositive ==
    ASSUME NEW lines \in Seq(Lines), lines # <<>>
    PROVE  Bytes(lines) > 0
  <1>1. PICK u \in Seq(Lines), x \in Lines : lines = Append(u, x)
    BY SequenceEmptyOrAppend
  <1>2. lines = u \o <<x>> /\ <<x>> \in Seq(Lines)
    BY <1>1, AppendIsConcat
  <1>3. Bytes(lines) = Bytes(u) + Bytes(<<x>>)
    BY <1>2, BytesConcat
  <1> QED
    BY <1>3, BytesType, BytesOne

LEMMA HeadAndTail ==
    ASSUME NEW S, NEW s \in Seq(S), s # <<>>
    PROVE  <<Head(s)>> \o Tail(s) = s /\ Head(s) \in S /\ Tail(s) \in Seq(S)
           /\ <<Head(s)>> \in Seq(S)
  OBVIOUS

LEMMA Split ==
    ASSUME NEW S, NEW s \in Seq(S), NEW n \in 0..Len(s)
    PROVE  /\ SubSeq(s, 1, n) \in Seq(S) /\ SubSeq(s, n + 1, Len(s)) \in Seq(S)
           /\ SubSeq(s, 1, n) \o SubSeq(s, n + 1, Len(s)) = s
  <1>1. Len(s) \in Nat
    BY LenProperties
  <1>2. SubSeq(s, 1, Len(s)) = s
    OBVIOUS
  <1>3. /\ 1 \in 1..(Len(s) + 1) /\ n \in (1 - 1)..Len(s) /\ Len(s) \in n..Len(s)
    BY <1>1
  <1>4. SubSeq(s, 1, n) \o SubSeq(s, n + 1, Len(s)) = SubSeq(s, 1, Len(s))
    BY <1>3, ConcatAdjacentSubSeq
  <1>5. SubSeq(s, 1, n) \in Seq(S) /\ SubSeq(s, n + 1, Len(s)) \in Seq(S)
    OBVIOUS
  <1> QED
    BY <1>2, <1>4, <1>5, Zenon

(* The places of r = s \o t, whose parts have a and b places.              *)
Joins(r, s, t, a, b) ==
    /\ DOMAIN s = 1..a /\ DOMAIN t = 1..b /\ DOMAIN r = 1..(a + b)
    /\ \A i \in 1..a : r[i] = s[i]
    /\ \A i \in 1..b : r[a + i] = t[i]
    /\ \A i \in 1..(a + b) : i \in 1..a \/ \E k \in 1..b : i = a + k

LEMMA Places ==
    ASSUME NEW S, NEW s \in Seq(S), NEW t \in Seq(S)
    PROVE  Joins(s \o t, s, t, Len(s), Len(t)) /\ Len(s) \in Nat /\ Len(t) \in Nat
  <1>1. PICK a \in Nat, b \in Nat, r \in Seq(S) : a = Len(s) /\ b = Len(t) /\ r = s \o t
    BY LenProperties, ConcatProperties
  <1>2. Len(r) = a + b /\ \A i \in 1..(a + b) : r[i] = IF i <= a THEN s[i] ELSE t[i - a]
    BY <1>1, ConcatProperties
  <1>3. DOMAIN s = 1..a /\ DOMAIN t = 1..b /\ DOMAIN r = 1..(a + b)
    BY <1>1, <1>2, LenProperties
  <1>4. \A i \in 1..b : a + i \in 1..(a + b) /\ ~(a + i <= a) /\ (a + i) - a = i
    OBVIOUS
  <1>5. \A i \in 1..a : i \in 1..(a + b) /\ i <= a
    OBVIOUS
  <1>6. \A i \in 1..a : r[i] = s[i]
    BY <1>2, <1>5
  <1>7. \A i \in 1..b : r[a + i] = t[i]
    BY <1>2, <1>4
  <1>8. ASSUME NEW i \in 1..(a + b), i \notin 1..a
        PROVE  \E k \in 1..b : i = a + k
    <2>1. i - a \in 1..b /\ i = a + (i - a)
      BY <1>8
    <2> QED
      BY <2>1, Zenon
  <1>9. Joins(r, s, t, a, b)
    BY <1>3, <1>6, <1>7, <1>8, Zenon DEF Joins
  <1> QED
    BY <1>1, <1>9, Zenon

(* Numbers of lines in order, those in d left aside.                       *)
Below(S, T, d) == \A x \in S \ d, y \in T \ d : x < y

Sorted(lines, d) ==
    \A i, j \in DOMAIN lines :
        i < j /\ lines[i].id \notin d /\ lines[j].id \notin d => lines[i].id < lines[j].id

LEMMA IdsOfConcat ==
    ASSUME NEW s \in Seq(Lines), NEW t \in Seq(Lines), NEW d, NEW r, r = s \o t
    PROVE  /\ Ids(r) = Ids(s) \cup Ids(t)
           /\ Once(r) <=> Once(s) /\ Once(t) /\ Ids(s) \cap Ids(t) = {}
           /\ Sorted(r, d) <=> Sorted(s, d) /\ Sorted(t, d) /\ Below(Ids(s), Ids(t), d)
  <1>2. PICK a \in Nat, b \in Nat : Joins(r, s, t, a, b)
    BY Places, ConcatProperties
  <1>1. /\ DOMAIN s = 1..a /\ DOMAIN t = 1..b /\ DOMAIN r = 1..(a + b)
        /\ \A i \in 1..a : r[i] = s[i]
        /\ \A i \in 1..b : r[a + i] = t[i]
        /\ \A i \in 1..(a + b) : i \in 1..a \/ \E k \in 1..b : i = a + k
    BY <1>2, Zenon DEF Joins
  <1>3. PICK f, g, h :
            /\ f = [i \in 1..a |-> s[i].id] /\ g = [i \in 1..b |-> t[i].id]
            /\ h = [i \in 1..(a + b) |-> r[i].id]
    OBVIOUS
  <1>4. /\ Ids(s) = {f[i] : i \in 1..a} /\ Ids(t) = {g[i] : i \in 1..b}
        /\ Ids(r) = {h[i] : i \in 1..(a + b)}
    BY <1>1, <1>2, <1>3 DEF Ids
  <1>5. /\ Once(s) <=> \A i, j \in 1..a : f[i] = f[j] => i = j
        /\ Once(t) <=> \A i, j \in 1..b : g[i] = g[j] => i = j
        /\ Once(r) <=> \A i, j \in 1..(a + b) : h[i] = h[j] => i = j
    BY <1>1, <1>2, <1>3 DEF Once
  <1>6. /\ Sorted(s, d) <=> \A i, j \in 1..a :
                                i < j /\ f[i] \notin d /\ f[j] \notin d => f[i] < f[j]
        /\ Sorted(t, d) <=> \A i, j \in 1..b :
                                i < j /\ g[i] \notin d /\ g[j] \notin d => g[i] < g[j]
        /\ Sorted(r, d) <=> \A i, j \in 1..(a + b) :
                                i < j /\ h[i] \notin d /\ h[j] \notin d => h[i] < h[j]
    BY <1>1, <1>2, <1>3 DEF Sorted
  <1>7. /\ \A i \in 1..a : h[i] = f[i] /\ i \in 1..(a + b)
        /\ \A i \in 1..b : h[a + i] = g[i] /\ a + i \in 1..(a + b)
        /\ \A i \in 1..(a + b) : i \in 1..a \/ \E k \in 1..b : i = a + k
    <2>1. /\ \A i \in 1..a : i \in 1..(a + b)
          /\ \A i \in 1..b : a + i \in 1..(a + b)
      OBVIOUS
    <2>2. \A i \in 1..a : h[i] = f[i]
      BY <1>1, <1>2, <1>3, <2>1, Zenon
    <2>3. \A i \in 1..b : h[a + i] = g[i]
      BY <1>1, <1>2, <1>3, <2>1, Zenon
    <2> QED
      BY <1>1, <2>1, <2>2, <2>3, Zenon
  <1>8. \A i \in 1..a, k \in 1..b : i < a + k /\ ~(a + k < i) /\ i # a + k
    OBVIOUS
  <1>9. \A i, k \in 1..b : (a + i < a + k <=> i < k) /\ (a + i = a + k <=> i = k)
    OBVIOUS
  <1>10. Ids(r) = Ids(s) \cup Ids(t)
    <2>1. \A x \in Ids(s) \cup Ids(t) : x \in Ids(r)
      BY <1>4, <1>7, Zenon
    <2>2. ASSUME NEW x \in Ids(r)
          PROVE  x \in Ids(s) \cup Ids(t)
      <3>1. PICK i \in 1..(a + b) : x = h[i]
        BY <1>4, Zenon
      <3>2. CASE i \in 1..a
        BY <1>4, <1>7, <3>1, <3>2, Zenon
      <3>3. CASE i \notin 1..a
        <4>1. PICK k \in 1..b : i = a + k
          BY <1>7, <3>3, Zenon
        <4> QED
          BY <1>4, <1>7, <3>1, <4>1, Zenon
      <3> QED
        BY <3>2, <3>3
    <2> QED
      BY <2>1, <2>2, Zenon
  <1>11. Once(r) <=> Once(s) /\ Once(t) /\ Ids(s) \cap Ids(t) = {}
    <2>1. ASSUME Once(r)
          PROVE  Once(s) /\ Once(t) /\ Ids(s) \cap Ids(t) = {}
      <3>1. Once(s)
        BY <1>5, <1>7, <2>1, Zenon
      <3>2. ASSUME NEW i \in 1..b, NEW k \in 1..b, g[i] = g[k]
            PROVE  i = k
        <4>1. a + i \in 1..(a + b) /\ a + k \in 1..(a + b) /\ h[a + i] = h[a + k]
          BY <1>7, <3>2, Zenon
        <4>2. a + i = a + k
          BY <1>5, <2>1, <4>1, Zenon
        <4> QED
          BY <1>9, <4>2, Zenon
      <3>3. \A i \in 1..a, k \in 1..b : f[i] # g[k]
        BY <1>5, <1>7, <1>8, <2>1, ZenonT(30)
      <3>4. Once(t)
        BY <1>5, <3>2, Zenon
      <3> QED
        BY <1>4, <3>1, <3>3, <3>4, Zenon
    <2>2. ASSUME Once(s), Once(t), Ids(s) \cap Ids(t) = {}
          PROVE  Once(r)
      <3>1. \A i \in 1..a, k \in 1..b : f[i] # g[k]
        BY <1>4, <2>2, Zenon
      <3>2. ASSUME NEW i \in 1..(a + b), NEW j \in 1..(a + b), h[i] = h[j]
            PROVE  i = j
        <4>1. CASE i \in 1..a /\ j \in 1..a
          BY <1>5, <1>7, <2>2, <3>2, <4>1, Zenon
        <4>2. CASE i \notin 1..a /\ j \notin 1..a
          <5>1. PICK k \in 1..b, l \in 1..b : i = a + k /\ j = a + l
            BY <1>7, <4>2, Zenon
          <5>2. g[k] = g[l]
            BY <1>7, <3>2, <5>1, Zenon
          <5>3. k = l
            BY <1>5, <2>2, <5>2, Zenon
          <5> QED
            BY <5>1, <5>3, Zenon
        <4>3. CASE i \in 1..a /\ j \notin 1..a
          <5>1. PICK l \in 1..b : j = a + l
            BY <1>7, <4>3, Zenon
          <5> QED
            BY <1>7, <3>1, <3>2, <4>3, <5>1, Zenon
        <4>4. CASE i \notin 1..a /\ j \in 1..a
          <5>1. PICK k \in 1..b : i = a + k
            BY <1>7, <4>4, Zenon
          <5>2. h[i] = g[k] /\ h[j] = f[j]
            BY <1>7, <4>4, <5>1, Zenon
          <5> QED
            BY <3>1, <3>2, <4>4, <5>2, Zenon
        <4> QED
          BY <4>1, <4>2, <4>3, <4>4, Zenon
      <3> QED
        BY <1>5, <3>2, Zenon
    <2> QED
      BY <2>1, <2>2
  <1>12. Sorted(r, d) <=> Sorted(s, d) /\ Sorted(t, d) /\ Below(Ids(s), Ids(t), d)
    <2>1. ASSUME Sorted(r, d)
          PROVE  Sorted(s, d) /\ Sorted(t, d) /\ Below(Ids(s), Ids(t), d)
      <3>1. Sorted(s, d)
        BY <1>6, <1>7, <2>1, Zenon
      <3>2. Sorted(t, d)
        <4>1. ASSUME NEW i \in 1..b, NEW k \in 1..b, i < k, g[i] \notin d, g[k] \notin d
              PROVE  g[i] < g[k]
          <5>1. a + i \in 1..(a + b) /\ a + k \in 1..(a + b) /\ a + i < a + k
                /\ h[a + i] = g[i] /\ h[a + k] = g[k]
            BY <1>7, <1>9, <4>1, Zenon
          <5>2. h[a + i] < h[a + k]
            BY <1>6, <2>1, <4>1, <5>1, Zenon
          <5> QED
            BY <5>1, <5>2, Zenon
        <4> QED
          BY <1>6, <4>1, Zenon
      <3>3. ASSUME NEW i \in 1..a, NEW k \in 1..b, f[i] \notin d, g[k] \notin d
            PROVE  f[i] < g[k]
        <4>1. i \in 1..(a + b) /\ a + k \in 1..(a + b) /\ i < a + k
              /\ h[i] = f[i] /\ h[a + k] = g[k]
          BY <1>7, <1>8, Zenon
        <4>2. h[i] < h[a + k]
          BY <1>6, <2>1, <3>3, <4>1, Zenon
        <4> QED
          BY <4>1, <4>2, Zenon
      <3>4. ASSUME NEW x \in Ids(s) \ d, NEW y \in Ids(t) \ d
            PROVE  x < y
        <4>1. PICK i \in 1..a, k \in 1..b : x = f[i] /\ y = g[k]
          BY <1>4, Zenon
        <4> QED
          BY <3>3, <3>4, <4>1, Zenon
      <3>5. Below(Ids(s), Ids(t), d)
        BY <3>4, Zenon DEF Below
      <3> QED
        BY <3>1, <3>2, <3>5
    <2>2. ASSUME Sorted(s, d), Sorted(t, d), Below(Ids(s), Ids(t), d)
          PROVE  Sorted(r, d)
      <3>1. \A i \in 1..a, k \in 1..b : f[i] \notin d /\ g[k] \notin d => f[i] < g[k]
        BY <1>4, <2>2, Zenon DEF Below
      <3>2. ASSUME NEW i \in 1..(a + b), NEW j \in 1..(a + b), i < j,
                   h[i] \notin d, h[j] \notin d
            PROVE  h[i] < h[j]
        <4>1. CASE i \in 1..a /\ j \in 1..a
          BY <1>6, <1>7, <2>2, <3>2, <4>1, Zenon
        <4>2. CASE i \notin 1..a /\ j \notin 1..a
          <5>1. PICK k \in 1..b, l \in 1..b : i = a + k /\ j = a + l
            BY <1>7, <4>2, Zenon
          <5>2. h[i] = g[k] /\ h[j] = g[l] /\ k < l
            BY <1>7, <1>9, <3>2, <5>1, Zenon
          <5>3. g[k] < g[l]
            BY <1>6, <2>2, <3>2, <5>2, Zenon
          <5> QED
            BY <5>2, <5>3, Zenon
        <4>3. CASE i \in 1..a /\ j \notin 1..a
          <5>1. PICK l \in 1..b : j = a + l
            BY <1>7, <4>3, Zenon
          <5>2. h[i] = f[i] /\ h[j] = g[l]
            BY <1>7, <4>3, <5>1, Zenon
          <5> QED
            BY <3>1, <3>2, <4>3, <5>2, Zenon
        <4>4. CASE i \notin 1..a /\ j \in 1..a
          <5>1. PICK k \in 1..b : i = a + k
            BY <1>7, <4>4, Zenon
          <5> QED
            BY <1>8, <3>2, <4>4, <5>1, Zenon
        <4> QED
          BY <4>1, <4>2, <4>3, <4>4, Zenon
      <3> QED
        BY <1>6, <3>2, Zenon
    <2> QED
      BY <2>1, <2>2
  <1> QED
    BY <1>2, <1>10, <1>11, <1>12

LEMMA IdsOfFew ==
    /\ Ids(<<>>) = {} /\ Once(<<>>) /\ \A d : Sorted(<<>>, d)
    /\ \A x : Ids(<<x>>) = {x.id} /\ Once(<<x>>) /\ \A d : Sorted(<<x>>, d)
  <1>1. DOMAIN <<>> = {}
    OBVIOUS
  <1>2. ASSUME NEW x
        PROVE  DOMAIN <<x>> = {1} /\ <<x>>[1] = x
    OBVIOUS
  <1>3. Ids(<<>>) = {} /\ Once(<<>>) /\ \A d : Sorted(<<>>, d)
    BY <1>1, Zenon DEF Ids, Once, Sorted
  <1>4. ASSUME NEW x
        PROVE  Ids(<<x>>) = {x.id} /\ Once(<<x>>) /\ \A d : Sorted(<<x>>, d)
    <2>1. PICK one : one = <<x>> /\ DOMAIN one = {1} /\ one[1] = x
      BY <1>2
    <2>2. Ids(one) = {x.id} /\ Once(one)
      BY ONLY <2>1, Zenon DEF Ids, Once
    <2>3. ~(1 < 1)
      OBVIOUS
    <2>4. \A d : Sorted(one, d)
      BY ONLY <2>1, <2>3, Zenon DEF Sorted
    <2> QED
      BY <2>1, <2>2, <2>4, Zenon
  <1> QED
    BY <1>3, <1>4

(* The history of what was written, with the numbers of more lines.        *)
IdSeq(lines) == [i \in DOMAIN lines |-> lines[i].id]

InOrder(w, d) ==
    \A i, j \in DOMAIN w : i < j /\ w[i] \notin d /\ w[j] \notin d => w[i] < w[j]

LEMMA IdSeqType ==
    ASSUME NEW lines \in Seq(Lines)
    PROVE  IdSeq(lines) \in Seq(Nat) /\ Range(IdSeq(lines)) = Ids(lines)
  <1>1. PICK n \in Nat : n = Len(lines) /\ DOMAIN lines = 1..n
    BY LenProperties
  <1>2. \A i \in 1..n : lines[i].id \in Nat
    BY <1>1, LineSizes
  <1>3. IdSeq(lines) = [i \in 1..n |-> lines[i].id]
    BY <1>1, Zenon DEF IdSeq
  <1>4. IdSeq(lines) \in [1..n -> Nat]
    BY <1>2, <1>3, Zenon
  <1>5. IdSeq(lines) \in Seq(Nat)
    BY <1>4, SeqDef
  <1>6. Range(IdSeq(lines)) = {lines[i].id : i \in 1..n}
    BY <1>3 DEF Range
  <1> QED
    BY <1>1, <1>5, <1>6, Zenon DEF Ids

LEMMA WrittenMore ==
    ASSUME NEW w \in Seq(Nat), NEW lines \in Seq(Lines), NEW d,
           InOrder(w, d), Sorted(lines, d), Below(Range(w), Ids(lines), d)
    PROVE  /\ w \o IdSeq(lines) \in Seq(Nat)
           /\ Range(w \o IdSeq(lines)) = Range(w) \cup Ids(lines)
           /\ InOrder(w \o IdSeq(lines), d)
  <1>1. PICK g \in Seq(Nat) : g = IdSeq(lines)
    BY IdSeqType
  <1>2. PICK a \in Nat, b \in Nat, h \in Seq(Nat) : h = w \o g /\ Joins(h, w, g, a, b)
    BY Places, ConcatProperties
  <1>3. /\ DOMAIN w = 1..a /\ DOMAIN g = 1..b /\ DOMAIN h = 1..(a + b)
        /\ \A i \in 1..a : h[i] = w[i]
        /\ \A i \in 1..b : h[a + i] = g[i]
        /\ \A i \in 1..(a + b) : i \in 1..a \/ \E k \in 1..b : i = a + k
    BY <1>2, Zenon DEF Joins
  <1>4. DOMAIN lines = 1..b /\ \A i \in 1..b : g[i] = lines[i].id
    BY <1>1, <1>3, Zenon DEF IdSeq
  <1>5. Range(g) = Ids(lines)
    BY <1>1, IdSeqType
  <1>6. Range(h) = Range(w) \cup Range(g)
    BY <1>2, RangeConcatenation
  <1>7. ASSUME NEW i \in 1..(a + b), NEW j \in 1..(a + b), i < j, h[i] \notin d, h[j] \notin d
        PROVE  h[i] < h[j]
    <2>1. CASE i \in 1..a /\ j \in 1..a
      BY <1>3, <1>7, <2>1, Zenon DEF InOrder
    <2>2. CASE i \notin 1..a /\ j \notin 1..a
      <3>1. PICK k \in 1..b, l \in 1..b : i = a + k /\ j = a + l
        BY <1>3, <2>2, Zenon
      <3>2. h[i] = lines[k].id /\ h[j] = lines[l].id
        BY <1>3, <1>4, <3>1, Zenon
      <3>3. k < l
        BY <1>7, <3>1
      <3> QED
        BY <1>4, <1>7, <3>2, <3>3, Zenon DEF Sorted
    <2>3. CASE i \in 1..a /\ j \notin 1..a
      <3>1. PICK l \in 1..b : j = a + l
        BY <1>3, <2>3, Zenon
      <3>2. h[i] = w[i] /\ h[j] = g[l]
        BY <1>3, <2>3, <3>1, Zenon
      <3>3. w[i] \in Range(w) /\ g[l] \in Range(g)
        BY <1>3, <2>3, Zenon DEF Range
      <3> QED
        BY <1>5, <1>7, <3>2, <3>3, Zenon DEF Below
    <2>4. CASE i \notin 1..a /\ j \in 1..a
      <3>1. ~(i < j)
        BY <2>4
      <3> QED
        BY <1>7, <3>1
    <2> QED
      BY <2>1, <2>2, <2>3, <2>4
  <1>8. InOrder(h, d)
    BY <1>3, <1>7, Zenon DEF InOrder
  <1> QED
    BY <1>1, <1>2, <1>5, <1>6, <1>8, Zenon

-----------------------------------------------------------------------------
(* Where the lines are: in the queue q, in hand h, in the buffer b, in the *)
(* temporary file t, in the archives ar, gone g or overwritten o; w is the *)
(* history of what was written, d what Log wrote itself, n the next number.*)

Parted(q, h, b, t, a, g, o, all) ==
    /\ q \cup h \cup b \cup t \cup a \cup g \cup o = all
    /\ q \cap (h \cup b \cup t \cup a \cup g \cup o) = {}
    /\ h \cap (b \cup t \cup a \cup g \cup o) = {}
    /\ b \cap (t \cup a \cup g \cup o) = {}
    /\ t \cap (a \cup g \cup o) = {}
    /\ a \cap (g \cup o) = {}
    /\ g \cap o = {}

AllOf(ar) == UNION {Ids(ar[name]) : name \in DOMAIN ar}

Home(q, h, b, t, ar, g, o, n) ==
    /\ Parted(Ids(q), Ids(h), Ids(b), Ids(t), AllOf(ar), g, o, 1..(n - 1))
    /\ Once(q) /\ Once(h) /\ Once(b) /\ Once(t)

Shelves(ar) ==
    /\ \A m, n \in DOMAIN ar : m # n => Ids(ar[m]) \cap Ids(ar[n]) = {}
    /\ \A name \in DOMAIN ar : Once(ar[name])

(* Everything on its way is in order, behind what was written.             *)
Lined(q, h, b, w, d, n) ==
    /\ InOrder(w, d) /\ Sorted(b, d) /\ Sorted(h, d) /\ Sorted(q, d)
    /\ Below(Range(w), Ids(b), d)
    /\ Below(Range(w) \cup Ids(b), Ids(h), d)
    /\ Below(Range(w) \cup Ids(b) \cup Ids(h), Ids(q), d)
    /\ Range(w) \subseteq 1..(n - 1) /\ d \subseteq 1..(n - 1)

(* Log and the header: a new line at the end of the queue.                 *)
LEMMA EnqueueLine ==
    ASSUME NEW q \in Seq(Lines), NEW h \in Seq(Lines), NEW b \in Seq(Lines),
           NEW t \in Seq(Lines), NEW ar, NEW w, NEW d, NEW g, NEW o,
           NEW n \in Nat \ {0}, NEW size \in Sizes,
           Home(q, h, b, t, ar, g, o, n), Lined(q, h, b, w, d, n)
    PROVE  LET q1 == Append(q, [id |-> n, size |-> size]) IN
           /\ q1 \in Seq(Lines)
           /\ Home(q1, h, b, t, ar, g, o, n + 1) /\ Lined(q1, h, b, w, d, n + 1)
  <1>1. PICK x \in Lines : x = [id |-> n, size |-> size] /\ x.id = n
    <2>1. [id |-> n, size |-> size] \in Lines /\ [id |-> n, size |-> size].id = n
      BY DEF Lines
    <2> QED
      BY <2>1, Zenon
  <1>2. PICK q1 \in Seq(Lines) : q1 = Append(q, x) /\ q1 = q \o <<x>>
    BY AppendIsConcat, AppendProperties
  <1>3. <<x>> \in Seq(Lines) /\ Ids(<<x>>) = {n} /\ Once(<<x>>) /\ Sorted(<<x>>, d)
    BY <1>1, IdsOfFew
  <1>4. /\ Ids(q1) = Ids(q) \cup {n}
        /\ Once(q1) <=> Once(q) /\ Ids(q) \cap {n} = {}
        /\ Sorted(q1, d) <=> Sorted(q, d) /\ Below(Ids(q), {n}, d)
    <2>1. PICK one \in Seq(Lines) : one = <<x>>
      BY <1>3
    <2>2. /\ Ids(q1) = Ids(q) \cup Ids(one)
          /\ Once(q1) <=> Once(q) /\ Once(one) /\ Ids(q) \cap Ids(one) = {}
          /\ Sorted(q1, d) <=> Sorted(q, d) /\ Sorted(one, d) /\ Below(Ids(q), Ids(one), d)
      BY <1>2, <2>1, IdsOfConcat
    <2> QED
      BY <1>3, <2>1, <2>2, Zenon
  <1>5. 1..((n + 1) - 1) = 1..(n - 1) \cup {n} /\ n \notin 1..(n - 1)
        /\ \A x1 \in 1..(n - 1) : x1 < n
    OBVIOUS
  <1>6. PICK all : all = 1..(n - 1)
    OBVIOUS
  <1>7. Home(q1, h, b, t, ar, g, o, n + 1)
    <2>1. Parted(Ids(q), Ids(h), Ids(b), Ids(t), AllOf(ar), g, o, all)
      BY <1>6 DEF Home
    <2>2. n \notin all
      BY <1>5, <1>6
    <2>3. Parted(Ids(q) \cup {n}, Ids(h), Ids(b), Ids(t), AllOf(ar), g, o, all \cup {n})
          /\ Ids(q) \cap {n} = {}
      BY ONLY <2>1, <2>2 DEF Parted
    <2> QED
      BY <1>4, <1>5, <1>6, <2>3 DEF Home
  <1>8. Lined(q1, h, b, w, d, n + 1)
    <2>1. Ids(q) \cup Ids(h) \cup Ids(b) \subseteq all /\ Range(w) \subseteq all /\ d \subseteq all
      BY <1>6 DEF Home, Parted, Lined
    <2>2. \A x1 \in all : x1 < n
      BY <1>5, <1>6
    <2>3. Sorted(q1, d)
      BY <1>4, <2>1, <2>2 DEF Below, Lined
    <2>4. Below(Range(w) \cup Ids(b) \cup Ids(h), Ids(q1), d)
      BY <1>4, <2>1, <2>2 DEF Below, Lined
    <2>5. Range(w) \subseteq 1..((n + 1) - 1) /\ d \subseteq 1..((n + 1) - 1)
      BY <1>5, <1>6, <2>1
    <2> QED
      BY <2>3, <2>4, <2>5 DEF Lined
  <1> QED
    BY <1>1, <1>2, <1>7, <1>8

(* QueueWait: the first line of the queue comes in hand.                   *)
LEMMA TakeLine ==
    ASSUME NEW q \in Seq(Lines), q # <<>>, NEW b \in Seq(Lines),
           NEW t \in Seq(Lines), NEW ar, NEW w, NEW d, NEW g, NEW o, NEW n,
           Home(q, <<>>, b, t, ar, g, o, n), Lined(q, <<>>, b, w, d, n)
    PROVE  /\ Home(Tail(q), <<Head(q)>>, b, t, ar, g, o, n)
           /\ Lined(Tail(q), <<Head(q)>>, b, w, d, n)
  <1>1. PICK q1 \in Seq(Lines), h1 \in Seq(Lines) :
            q1 = Tail(q) /\ h1 = <<Head(q)>> /\ q = h1 \o q1
    BY HeadAndTail
  <1>2. /\ Ids(q) = Ids(h1) \cup Ids(q1)
        /\ Once(q) <=> Once(h1) /\ Once(q1) /\ Ids(h1) \cap Ids(q1) = {}
        /\ Sorted(q, d) <=> Sorted(h1, d) /\ Sorted(q1, d) /\ Below(Ids(h1), Ids(q1), d)
    BY <1>1, IdsOfConcat
  <1>3. Ids(<<>>) = {}
    BY IdsOfFew
  <1>4. Home(q1, h1, b, t, ar, g, o, n)
    <2>1. Parted(Ids(h1) \cup Ids(q1), {}, Ids(b), Ids(t), AllOf(ar), g, o, 1..(n - 1))
          /\ Ids(h1) \cap Ids(q1) = {}
      BY <1>2, <1>3 DEF Home
    <2>2. Parted(Ids(q1), Ids(h1), Ids(b), Ids(t), AllOf(ar), g, o, 1..(n - 1))
      BY ONLY <2>1 DEF Parted
    <2> QED
      BY <1>2, <2>2 DEF Home
  <1>5. Lined(q1, h1, b, w, d, n)
    <2>1. Below(Range(w) \cup Ids(b), Ids(h1) \cup Ids(q1), d)
      BY <1>2, <1>3 DEF Lined, Below
    <2>2. Sorted(h1, d) /\ Sorted(q1, d) /\ Below(Ids(h1), Ids(q1), d)
      BY <1>2 DEF Lined
    <2>3. /\ Below(Range(w) \cup Ids(b), Ids(h1), d)
          /\ Below(Range(w) \cup Ids(b) \cup Ids(h1), Ids(q1), d)
      BY ONLY <2>1, <2>2 DEF Below
    <2> QED
      BY <2>2, <2>3 DEF Lined
  <1> QED
    BY <1>1, <1>4, <1>5

(* WriteLogFileMsg copies the line in hand to the end of the buffer.       *)
LEMMA CopyLine ==
    ASSUME NEW q \in Seq(Lines), NEW h \in Seq(Lines), NEW b \in Seq(Lines),
           NEW t \in Seq(Lines), NEW ar, NEW w, NEW d, NEW g, NEW o, NEW n,
           Home(q, h, b, t, ar, g, o, n), Lined(q, h, b, w, d, n)
    PROVE  /\ Home(q, <<>>, b \o h, t, ar, g, o, n)
           /\ Lined(q, <<>>, b \o h, w, d, n)
  <1>1. PICK b1 : b1 = b \o h
    OBVIOUS
  <1>2. /\ Ids(b1) = Ids(b) \cup Ids(h)
        /\ Once(b1) <=> Once(b) /\ Once(h) /\ Ids(b) \cap Ids(h) = {}
        /\ Sorted(b1, d) <=> Sorted(b, d) /\ Sorted(h, d) /\ Below(Ids(b), Ids(h), d)
    BY <1>1, IdsOfConcat
  <1>3. Ids(<<>>) = {} /\ Once(<<>>) /\ Sorted(<<>>, d)
    BY IdsOfFew
  <1>4. Home(q, <<>>, b1, t, ar, g, o, n)
    <2>1. Parted(Ids(q), Ids(h), Ids(b), Ids(t), AllOf(ar), g, o, 1..(n - 1))
      BY DEF Home
    <2>2. Parted(Ids(q), {}, Ids(b) \cup Ids(h), Ids(t), AllOf(ar), g, o, 1..(n - 1))
          /\ Ids(b) \cap Ids(h) = {}
      BY ONLY <2>1 DEF Parted
    <2> QED
      BY <1>2, <1>3, <2>2 DEF Home
  <1>5. Lined(q, <<>>, b1, w, d, n)
    <2>1. /\ Below(Range(w), Ids(b), d) /\ Below(Range(w) \cup Ids(b), Ids(h), d)
          /\ Below(Range(w) \cup Ids(b) \cup Ids(h), Ids(q), d)
      BY DEF Lined
    <2>2. /\ Below(Range(w), Ids(b) \cup Ids(h), d) /\ Below(Ids(b), Ids(h), d)
          /\ Below(Range(w) \cup (Ids(b) \cup Ids(h)), {}, d)
          /\ Below(Range(w) \cup (Ids(b) \cup Ids(h)) \cup {}, Ids(q), d)
      BY ONLY <2>1 DEF Below
    <2> QED
      BY <1>2, <1>3, <2>2 DEF Lined
  <1> QED
    BY <1>1, <1>4, <1>5

(* Log's catch block puts a new line at the end of the buffer.             *)
LEMMA DirectLine ==
    ASSUME NEW q \in Seq(Lines), NEW h \in Seq(Lines), NEW b \in Seq(Lines),
           NEW t \in Seq(Lines), NEW ar, NEW w, NEW d, NEW g, NEW o,
           NEW n \in Nat \ {0}, NEW x \in Lines, x.id = n,
           Home(q, h, b, t, ar, g, o, n), Lined(q, h, b, w, d, n)
    PROVE  /\ Home(q, h, b \o <<x>>, t, ar, g, o, n + 1)
           /\ Lined(q, h, b \o <<x>>, w, d \cup {n}, n + 1)
  <1>1. PICK b1 : b1 = b \o <<x>>
    OBVIOUS
  <1>2. PICK d1 : d1 = d \cup {n}
    OBVIOUS
  <1>3. <<x>> \in Seq(Lines) /\ Ids(<<x>>) = {n} /\ Once(<<x>>) /\ Sorted(<<x>>, d1)
    BY IdsOfFew
  <1>4. /\ Ids(b1) = Ids(b) \cup {n}
        /\ Once(b1) <=> Once(b) /\ Ids(b) \cap {n} = {}
        /\ Sorted(b1, d1) <=> Sorted(b, d1) /\ Below(Ids(b), {n}, d1)
    <2>1. PICK one \in Seq(Lines) : one = <<x>>
      BY <1>3
    <2>2. /\ Ids(b1) = Ids(b) \cup Ids(one)
          /\ Once(b1) <=> Once(b) /\ Once(one) /\ Ids(b) \cap Ids(one) = {}
          /\ Sorted(b1, d1) <=>
                Sorted(b, d1) /\ Sorted(one, d1) /\ Below(Ids(b), Ids(one), d1)
      BY <1>1, <2>1, IdsOfConcat
    <2> QED
      BY <1>3, <2>1, <2>2, Zenon
  <1>5. 1..((n + 1) - 1) = 1..(n - 1) \cup {n} /\ n \notin 1..(n - 1)
    OBVIOUS
  <1>6. Home(q, h, b1, t, ar, g, o, n + 1)
    <2>1. Parted(Ids(q), Ids(h), Ids(b), Ids(t), AllOf(ar), g, o, 1..(n - 1))
      BY DEF Home
    <2>2. Parted(Ids(q), Ids(h), Ids(b) \cup {n}, Ids(t), AllOf(ar), g, o, 1..(n - 1) \cup {n})
          /\ Ids(b) \cap {n} = {}
      <3>1. PICK all : all = 1..(n - 1)
        OBVIOUS
      <3>2. Parted(Ids(q), Ids(h), Ids(b), Ids(t), AllOf(ar), g, o, all) /\ n \notin all
        BY <1>5, <2>1, <3>1
      <3>3. Parted(Ids(q), Ids(h), Ids(b) \cup {n}, Ids(t), AllOf(ar), g, o, all \cup {n})
            /\ Ids(b) \cap {n} = {}
        BY ONLY <3>2 DEF Parted
      <3> QED
        BY <3>1, <3>3
    <2> QED
      BY <1>4, <1>5, <2>2 DEF Home
  <1>7. Lined(q, h, b1, w, d1, n + 1)
    <2>1. InOrder(w, d1) /\ Sorted(b, d1) /\ Sorted(h, d1) /\ Sorted(q, d1)
      BY <1>2 DEF Lined, InOrder, Sorted
    <2>2. /\ Below(Range(w), Ids(b), d) /\ Below(Range(w) \cup Ids(b), Ids(h), d)
          /\ Below(Range(w) \cup Ids(b) \cup Ids(h), Ids(q), d)
      BY DEF Lined
    <2>3. /\ Below(Ids(b), {n}, d1) /\ Below(Range(w), Ids(b) \cup {n}, d1)
          /\ Below(Range(w) \cup (Ids(b) \cup {n}), Ids(h), d1)
          /\ Below(Range(w) \cup (Ids(b) \cup {n}) \cup Ids(h), Ids(q), d1)
      BY ONLY <1>2, <2>2 DEF Below
    <2>4. Range(w) \subseteq 1..((n + 1) - 1) /\ d1 \subseteq 1..((n + 1) - 1)
      BY <1>2, <1>5 DEF Lined
    <2> QED
      BY <1>4, <2>1, <2>3, <2>4 DEF Lined
  <1> QED
    BY <1>1, <1>2, <1>6, <1>7

(* The buffer is written, all of it or a part, and the rest is lost.       *)
LEMMA WriteLines ==
    ASSUME NEW q \in Seq(Lines), NEW h \in Seq(Lines), NEW b \in Seq(Lines),
           NEW t \in Seq(Lines), NEW ar, NEW w \in Seq(Nat), NEW d, NEW g, NEW o, NEW n,
           NEW done \in Seq(Lines), NEW lost \in Seq(Lines), b = done \o lost,
           Home(q, h, b, t, ar, g, o, n), Lined(q, h, b, w, d, n)
    PROVE  /\ Home(q, h, <<>>, t \o done, ar, g \cup Ids(lost), o, n)
           /\ Lined(q, h, <<>>, w \o IdSeq(done), d, n)
           /\ w \o IdSeq(done) \in Seq(Nat)
  <1>1. /\ Ids(b) = Ids(done) \cup Ids(lost)
        /\ Once(b) <=> Once(done) /\ Once(lost) /\ Ids(done) \cap Ids(lost) = {}
        /\ Sorted(b, d) <=> Sorted(done, d) /\ Sorted(lost, d) /\ Below(Ids(done), Ids(lost), d)
    BY IdsOfConcat
  <1>2. PICK t1 : t1 = t \o done
    OBVIOUS
  <1>3. /\ Ids(t1) = Ids(t) \cup Ids(done)
        /\ Once(t1) <=> Once(t) /\ Once(done) /\ Ids(t) \cap Ids(done) = {}
    BY <1>2, IdsOfConcat
  <1>4. Ids(<<>>) = {} /\ Once(<<>>) /\ Sorted(<<>>, d)
    BY IdsOfFew
  <1>5. Home(q, h, <<>>, t1, ar, g \cup Ids(lost), o, n)
    <2>1. Parted(Ids(q), Ids(h), Ids(done) \cup Ids(lost), Ids(t), AllOf(ar), g, o, 1..(n - 1))
          /\ Ids(done) \cap Ids(lost) = {} /\ Once(done) /\ Once(t) /\ Once(q) /\ Once(h)
      BY <1>1 DEF Home
    <2>2. Parted(Ids(q), Ids(h), {}, Ids(t) \cup Ids(done), AllOf(ar), g \cup Ids(lost), o,
                 1..(n - 1))
          /\ Ids(t) \cap Ids(done) = {}
      BY ONLY <2>1 DEF Parted
    <2> QED
      BY <1>3, <1>4, <2>1, <2>2 DEF Home
  <1>6. PICK w1 : w1 = w \o IdSeq(done)
    OBVIOUS
  <1>7. Below(Range(w), Ids(done), d) /\ Sorted(done, d) /\ InOrder(w, d)
    BY <1>1 DEF Lined, Below
  <1>8. w1 \in Seq(Nat) /\ Range(w1) = Range(w) \cup Ids(done) /\ InOrder(w1, d)
    BY <1>6, <1>7, WrittenMore
  <1>9. Lined(q, h, <<>>, w1, d, n)
    <2>1. /\ Below(Range(w) \cup (Ids(done) \cup Ids(lost)), Ids(h), d)
          /\ Below(Range(w) \cup (Ids(done) \cup Ids(lost)) \cup Ids(h), Ids(q), d)
      BY <1>1 DEF Lined
    <2>2. /\ Below(Range(w) \cup Ids(done), {}, d)
          /\ Below((Range(w) \cup Ids(done)) \cup {}, Ids(h), d)
          /\ Below((Range(w) \cup Ids(done)) \cup {} \cup Ids(h), Ids(q), d)
      BY ONLY <2>1 DEF Below
    <2>3. Ids(done) \subseteq 1..(n - 1)
      BY <1>1 DEF Home, Parted
    <2>4. Range(w1) \subseteq 1..(n - 1) /\ d \subseteq 1..(n - 1) /\ Sorted(h, d) /\ Sorted(q, d)
      BY <1>8, <2>3 DEF Lined
    <2> QED
      BY <1>4, <1>8, <2>2, <2>4 DEF Lined
  <1> QED
    BY <1>2, <1>5, <1>6, <1>8, <1>9

Filed(ar1, o1, ar, o, f, t) ==
    /\ ar1 = [name \in DOMAIN ar \cup {f} |-> IF name = f THEN t ELSE ar[name]]
    /\ o1 = o \cup (IF f \in DOMAIN ar THEN Ids(ar[f]) ELSE {})

(* MoveFileEx: the temporary file becomes the archive f and replaces what  *)
(* had that name.                                                          *)
LEMMA ShelveLines ==
    ASSUME NEW q \in Seq(Lines), NEW h \in Seq(Lines), NEW b \in Seq(Lines),
           NEW t \in Seq(Lines), NEW ar, NEW f, NEW g, NEW o, NEW n, NEW ar1, NEW o1,
           Filed(ar1, o1, ar, o, f, t),
           Home(q, h, b, t, ar, g, o, n), Shelves(ar)
    PROVE  Home(q, h, b, <<>>, ar1, g, o1, n) /\ Shelves(ar1)
  <1> USE DEF Filed
  <1>1. PICK old : old = IF f \in DOMAIN ar THEN Ids(ar[f]) ELSE {}
    OBVIOUS
  <1>2. PICK rest : rest = UNION {Ids(ar[name]) : name \in DOMAIN ar \ {f}}
    OBVIOUS
  <1>3. AllOf(ar) = old \cup rest
    <2>1. ASSUME NEW x \in AllOf(ar)
          PROVE  x \in old \cup rest
      <3>1. PICK name \in DOMAIN ar : x \in Ids(ar[name])
        BY DEF AllOf
      <3> QED
        BY <1>1, <1>2, <3>1
    <2>2. ASSUME NEW x \in old
          PROVE  x \in AllOf(ar)
      BY <1>1 DEF AllOf
    <2>3. ASSUME NEW x \in rest
          PROVE  x \in AllOf(ar)
      BY <1>2 DEF AllOf
    <2> QED
      BY <2>1, <2>2, <2>3
  <1>4. old \cap rest = {}
    BY <1>1, <1>2 DEF Shelves
  <1>5. /\ DOMAIN ar1 = DOMAIN ar \cup {f} /\ ar1[f] = t
        /\ \A name \in DOMAIN ar \ {f} : ar1[name] = ar[name]
    OBVIOUS
  <1>6. AllOf(ar1) = Ids(t) \cup rest
    <2>1. ASSUME NEW x \in AllOf(ar1)
          PROVE  x \in Ids(t) \cup rest
      <3>1. PICK name \in DOMAIN ar1 : x \in Ids(ar1[name])
        BY DEF AllOf
      <3> QED
        BY <1>2, <1>5, <3>1
    <2>2. ASSUME NEW x \in Ids(t)
          PROVE  x \in AllOf(ar1)
      BY <1>5 DEF AllOf
    <2>3. ASSUME NEW x \in rest
          PROVE  x \in AllOf(ar1)
      <3>1. PICK name \in DOMAIN ar \ {f} : x \in Ids(ar[name])
        BY <1>2
      <3> QED
        BY <1>5, <3>1 DEF AllOf
    <2> QED
      BY <2>1, <2>2, <2>3
  <1>7. Home(q, h, b, <<>>, ar1, g, o1, n)
    <2>1. Parted(Ids(q), Ids(h), Ids(b), Ids(t), old \cup rest, g, o, 1..(n - 1))
      BY <1>3 DEF Home
    <2>2. Parted(Ids(q), Ids(h), Ids(b), {}, Ids(t) \cup rest, g, o \cup old, 1..(n - 1))
      BY ONLY <1>4, <2>1 DEF Parted
    <2>3. Ids(<<>>) = {} /\ Once(<<>>)
      BY IdsOfFew
    <2> QED
      BY <1>1, <1>6, <2>2, <2>3 DEF Home
  <1>8. Shelves(ar1)
    <2>1. Ids(t) \cap AllOf(ar) = {} /\ Once(t)
      BY DEF Home, Parted
    <2>2. \A name \in DOMAIN ar : Ids(ar[name]) \subseteq AllOf(ar)
      BY DEF AllOf
    <2>3. \A name \in DOMAIN ar : Ids(t) \cap Ids(ar[name]) = {}
      BY <2>1, <2>2
    <2> QED
      BY <1>5, <2>1, <2>3 DEF Shelves
  <1> QED
    BY <1>7, <1>8

(* The process ends: what is in the queue and in hand is lost; when it     *)
(* starts again, what is in the buffer.                                    *)
LEMMA LoseLines ==
    ASSUME NEW q \in Seq(Lines), NEW h \in Seq(Lines), NEW b \in Seq(Lines),
           NEW t \in Seq(Lines), NEW ar, NEW w, NEW d, NEW g, NEW o, NEW n,
           Home(q, h, b, t, ar, g, o, n), Lined(q, h, b, w, d, n)
    PROVE  /\ Home(<<>>, <<>>, b, t, ar, g \cup (Ids(q) \cup Ids(h)), o, n)
           /\ Lined(<<>>, <<>>, b, w, d, n)
           /\ Home(q, h, <<>>, t, ar, g \cup Ids(b), o, n)
           /\ Lined(q, h, <<>>, w, d, n)
  <1>1. Ids(<<>>) = {} /\ Once(<<>>) /\ Sorted(<<>>, d)
    BY IdsOfFew
  <1>2. Parted(Ids(q), Ids(h), Ids(b), Ids(t), AllOf(ar), g, o, 1..(n - 1))
    BY DEF Home
  <1>3. /\ Parted({}, {}, Ids(b), Ids(t), AllOf(ar), g \cup (Ids(q) \cup Ids(h)), o, 1..(n - 1))
        /\ Parted(Ids(q), Ids(h), {}, Ids(t), AllOf(ar), g \cup Ids(b), o, 1..(n - 1))
    BY ONLY <1>2 DEF Parted
  <1>4. /\ Below(Range(w), Ids(b), d) /\ Below(Range(w) \cup Ids(b), Ids(h), d)
        /\ Below(Range(w) \cup Ids(b) \cup Ids(h), Ids(q), d)
    BY DEF Lined
  <1>5. /\ Below(Range(w) \cup Ids(b), {}, d) /\ Below(Range(w) \cup Ids(b) \cup {}, {}, d)
        /\ Below(Range(w), {}, d) /\ Below(Range(w) \cup {}, Ids(h), d)
        /\ Below(Range(w) \cup {} \cup Ids(h), Ids(q), d)
    BY ONLY <1>4 DEF Below
  <1>6. Home(<<>>, <<>>, b, t, ar, g \cup (Ids(q) \cup Ids(h)), o, n)
        /\ Home(q, h, <<>>, t, ar, g \cup Ids(b), o, n)
    BY <1>1, <1>3 DEF Home
  <1>7. Lined(<<>>, <<>>, b, w, d, n) /\ Lined(q, h, <<>>, w, d, n)
    BY <1>1, <1>4, <1>5 DEF Lined
  <1> QED
    BY <1>6, <1>7

-----------------------------------------------------------------------------
(* The inductive invariant.  First the types and where the threads can be. *)

MainAt  == {"header", "running", "final", "start", "move", "down"}
CheckAt == {"check", "day", "hour", "size", "reset", "start", "move", "header"}
QueueAt == CheckAt \cup {"none", "wait", "write"}
DateAt  == CheckAt \cup {"none", "sleep", "flush"}

Types ==
    /\ m_LogQueue \in Seq(Lines) /\ m_szOutBuffer \in Seq(Lines) /\ temp \in Seq(Lines)
    /\ str # <<>> => str = <<str[1]>> /\ str[1] \in Lines
    /\ m_dwTotalWriteBytes \in Nat /\ m_dwTotalBytesWritten \in Nat
    /\ m_dwFileCounter \in Nat /\ m_LastSystemTime \in Nat /\ m_szLogFile \in Nat \X Nat
    /\ now \in Nat /\ next \in Nat \ {0}
    /\ ioFails \in Nat /\ badOpens \in Nat /\ throws \in Nat /\ stops \in Nat
    /\ ini \in Inis
    /\ mutex \in Threads \cup {"free"} /\ queueLock \in Threads \cup {"free"}
    /\ nCount \in -1..(CheckEvery - 1)
    /\ left \in [Threads -> Nat] /\ nowTime \in [Threads -> Nat]
    /\ uncounted \in Nat /\ missed \in Nat
    /\ DOMAIN archive \subseteq Nat \X Nat
    /\ \A name \in DOMAIN archive : archive[name] \in Seq(Lines)
    /\ written \in Seq(Nat)
    /\ nul \in BOOLEAN /\ exists \in BOOLEAN /\ overlap \in BOOLEAN

(* QueueMonitorThread and DateMonitorThread run only between the           *)
(* constructor and the destructor, and the destructor's part of the code   *)
(* is reached only by stopping.                                            *)
Control ==
    /\ DOMAIN pc = Threads
    /\ pc[Main] \in MainAt /\ pc[Queue] \in QueueAt /\ pc[Date] \in DateAt
    /\ pc[Main] # "running" => pc[Queue] = "none" /\ pc[Date] = "none"
    /\ pc[Queue] \in {"none", "wait"} => str = <<>>
    /\ \A t \in Threads : pc[t] = "move" => mutex = t
    /\ pc[Main] \in {"final", "start", "move", "down"} => stops > 0

Basic == Types /\ Control

(* Where the lines are and in which order they get to the disk.            *)
LinesInv ==
    /\ Home(m_LogQueue, str, m_szOutBuffer, temp, archive, gone, overwritten, next)
    /\ Shelves(archive)
    /\ Lined(m_LogQueue, str, m_szOutBuffer, written, direct, next)

(* The names of the archives come before m_szLogFile in the order of hour  *)
(* and counter; how m_dwFileCounter and m_LastSystemTime differ from the   *)
(* name they were put in depends on how far a rotation has come.           *)
Before(m, n) == m[1] < n[1] \/ (m[1] = n[1] /\ m[2] < n[2])

Rotating(t) == pc[t] \in {"reset", "start", "move"}

Named ==
    /\ overwritten = {}
    /\ \A t \in Threads : nowTime[t] <= now
    /\ m_LastSystemTime <= now
    /\ \A name \in DOMAIN archive : Before(name, m_szLogFile)
    /\ \A t, u \in Threads : Rotating(t) /\ Rotating(u) => t = u
    /\ m_szLogFile[1] <= m_LastSystemTime
    /\ \A t \in Threads : pc[t] = "reset" => m_LastSystemTime < now
    /\ \/ m_szLogFile = <<m_LastSystemTime, m_dwFileCounter>>
       \/ \E t \in Threads :
            \/ pc[t] = "start" /\ m_szLogFile[1] = m_LastSystemTime /\ m_LastSystemTime < now
            \/ pc[t] = "move" /\ m_szLogFile[2] = m_dwFileCounter
            \/ pc[t] = "move" /\ m_szLogFile[1] < m_LastSystemTime

NamesInv == LimitFixed /\ stops = 0 /\ ~overlap => Named

(* m_szOutBuffer holds m_dwTotalWriteBytes bytes unless its first byte was *)
(* cleared by a CreateFile that failed; then it is written no more.        *)
Stuck == nul /\ m_dwTotalWriteBytes > 0

BufferInv ==
    /\ ~Stuck => /\ m_dwTotalWriteBytes = Bytes(m_szOutBuffer)
                 /\ m_dwTotalWriteBytes <= FlushAbove
                 /\ nul <=> m_szOutBuffer = <<>>
    /\ badOpens = 0 => ~Stuck

(* A move that was tried maxRetries - left[t] times failed as often; what  *)
(* the count leaves out was in the file when its size was not to be had.   *)
MoveInv ==
    /\ ~exists => temp = <<>>
    /\ \A t \in Threads : pc[t] = "move" /\ exists => left[t] + ioFails >= maxRetries
    /\ ioFails < maxRetries => m_dwTotalBytesWritten + uncounted = Bytes(temp)
    /\ uncounted <= missed

(* What the temporary file will hold once the buffer is written.           *)
Coming == Bytes(temp) + (IF Stuck THEN 0 ELSE Bytes(m_szOutBuffer))

(* QueueMonitorThread adds a line only where the check left room for it.   *)
SizeInv ==
    LimitFixed /\ ioFails < maxRetries =>
        /\ Coming < ini.max + missed + FlushAbove + (1 + throws) * Max(Sizes)
        /\ pc[Queue] \in {"write", "header"} =>
            Coming < ini.max + missed + FlushAbove + throws * Max(Sizes)

IInv == Basic /\ LinesInv /\ NamesInv /\ BufferInv /\ MoveInv /\ SizeInv

-----------------------------------------------------------------------------
(* What a step can be, and what WriteLogFileMsg does in it.                *)

(* DateCheck's four steps; a line of a catch block; what else a thread does*)
(* in a rotation.                                                          *)
DateCheck(t) == ReadClock(t) \/ CompareDay(t) \/ CompareHour(t) \/ CheckSize(t)

Caught == LogThrows \/ \E t \in Threads : HeaderThrows(t)

Turn(t) ==
    \/ DateCheck(t) \/ ResetCounter(t) \/ StartLogFile(t)
    \/ Move(t) \/ MoveFails(t) \/ MoveGivesUp(t) \/ Header(t) \/ HeaderDone(t)

LEMMA NextSteps ==
    ASSUME [Next]_vars
    PROVE  \/ UNCHANGED vars
           \/ Tick \/ Log \/ Caught \/ QueueWait \/ QueueWrite
           \/ LoadLogErrorLevels \/ DateFlush \/ FinalFlush
           \/ Terminate \/ Crash \/ Restart
           \/ \E t \in Threads : Turn(t)
  <1>1. \A t \in Threads : Rotate(t) => Caught \/ Turn(t)
    BY Zenon DEF Rotate, Caught, Turn, DateCheck
  <1>2. \/ UNCHANGED vars
        \/ Tick \/ Log \/ LogThrows \/ QueueWait \/ QueueWrite
        \/ LoadLogErrorLevels \/ DateFlush \/ FinalFlush
        \/ Terminate \/ Crash \/ Restart
        \/ \E t \in Threads : Rotate(t)
    BY Zenon DEF Next, QueueThread, DateThread, MainThread, Threads
  <1>3. LogThrows => Caught
    BY Zenon DEF Caught
  <1> QED
    BY <1>1, <1>2, <1>3, Zenon

LEMMA ThreadsApart ==
    Queue # Date /\ Queue # Main /\ Date # Main /\ "free" \notin {Queue, Date, Main}
  BY DEF Queue, Date, Main

(* The buffer with msg behind it is kept, or written up to some line and   *)
(* emptied.                                                                *)
Kept(buf) ==
    /\ m_szOutBuffer' = buf
    /\ UNCHANGED <<temp, exists, written, gone, m_dwTotalBytesWritten>>

Flushed(buf) ==
    \E done, lost \in Seq(Lines) :
        /\ buf = done \o lost
        /\ m_szOutBuffer' = <<>> /\ m_dwTotalWriteBytes' = 0 /\ nul' = TRUE
        /\ temp' = temp \o done /\ exists' = TRUE
        /\ written' = written \o IdSeq(done)
        /\ gone' = gone \cup Ids(lost)
        /\ m_dwTotalBytesWritten' = m_dwTotalBytesWritten + Bytes(done)

LEMMA FlushEffect ==
    ASSUME NEW buf \in Seq(Lines), WriteAll(buf) \/ WritePart(buf)
    PROVE  Flushed(buf) /\ archive' = archive /\ overwritten' = overwritten
           /\ badOpens' = badOpens /\ uncounted' = uncounted /\ missed' = missed
  <1>1. PICK done \in Seq(Lines), lost \in Seq(Lines) :
            /\ buf = done \o lost /\ AppendToFile(done) /\ gone' = gone \cup Ids(lost)
    <2>1. CASE WriteAll(buf)
      <3>1. <<>> \in Seq(Lines) /\ buf = buf \o <<>>
        BY EmptySeq, ConcatEmptySeq, Zenon
      <3>2. AppendToFile(buf) /\ gone' = gone \cup Ids(<<>>)
        <4>1. AppendToFile(buf) /\ gone' = gone
          BY <2>1, Zenon DEF WriteAll
        <4>2. Ids(<<>>) = {}
          BY IdsOfFew
        <4> QED
          BY <4>1, <4>2
      <3> QED
        BY <3>1, <3>2, Zenon
    <2>2. CASE WritePart(buf)
      <3>1. PICK n \in 0..(Len(buf) - 1) :
                /\ AppendToFile(SubSeq(buf, 1, n))
                /\ gone' = gone \cup Ids(SubSeq(buf, n + 1, Len(buf)))
        BY <2>2, Zenon DEF WritePart
      <3>2. n \in 0..Len(buf)
        BY <3>1, LenProperties
      <3>3. /\ SubSeq(buf, 1, n) \in Seq(Lines) /\ SubSeq(buf, n + 1, Len(buf)) \in Seq(Lines)
            /\ buf = SubSeq(buf, 1, n) \o SubSeq(buf, n + 1, Len(buf))
        BY <3>2, Split
      <3> QED
        BY <3>1, <3>3, Zenon
    <2> QED
      BY <2>1, <2>2
  <1>2. EmptyBuffer /\ badOpens' = badOpens
    BY Zenon DEF WriteAll, WritePart
  <1>3. written' = written \o IdSeq(done)
    BY <1>1, Zenon DEF AppendToFile, IdSeq
  <1>4. temp' = temp \o done /\ exists' = TRUE /\ archive' = archive
        /\ overwritten' = overwritten /\ uncounted' = uncounted /\ missed' = missed
        /\ m_dwTotalBytesWritten' = m_dwTotalBytesWritten + Bytes(done)
        /\ m_szOutBuffer' = <<>> /\ m_dwTotalWriteBytes' = 0 /\ nul' = TRUE
    BY <1>1, <1>2 DEF AppendToFile, EmptyBuffer
  <1> QED
    BY <1>1, <1>2, <1>3, <1>4, Zenon DEF Flushed

LEMMA WriteEffect ==
    ASSUME Types, NEW msg \in Seq(Lines), NEW bWriteNow, WriteLogFileMsg(msg, bWriteNow)
    PROVE  /\ mutex = "free"
           /\ archive' = archive /\ overwritten' = overwritten
           /\ uncounted' = uncounted /\ missed' = missed
           /\ ioFails' \in Nat /\ ioFails' >= ioFails /\ badOpens' \in Nat
           /\ Kept(m_szOutBuffer \o msg) \/ Flushed(m_szOutBuffer \o msg)
           /\ m_szOutBuffer' \in Seq(Lines) /\ temp' \in Seq(Lines) /\ written' \in Seq(Nat)
           /\ m_dwTotalWriteBytes' \in Nat /\ m_dwTotalBytesWritten' \in Nat
           /\ nul' \in BOOLEAN /\ exists' \in BOOLEAN
  <1>1. PICK buf \in Seq(Lines) : buf = m_szOutBuffer \o msg
    <2>1. m_szOutBuffer \in Seq(Lines)
      BY DEF Types
    <2> QED
      BY <2>1, ConcatProperties
  <1>2. PICK bytes \in Nat : bytes = m_dwTotalWriteBytes + Bytes(msg)
    <2>1. m_dwTotalWriteBytes \in Nat /\ Bytes(msg) \in Nat
      BY BytesType DEF Types
    <2> QED
      BY <2>1
  <1>3. PICK isNul \in BOOLEAN : isNul = (nul /\ (msg = <<>> \/ m_dwTotalWriteBytes > 0))
    BY Zenon
  <1>4. /\ mutex = "free"
        /\ \/ WriteAll(buf) \/ WritePart(buf) \/ WriteNone(buf, bytes)
           \/ /\ m_szOutBuffer' = buf /\ m_dwTotalWriteBytes' = bytes /\ nul' = isNul
              /\ UNCHANGED <<m_dwTotalBytesWritten, fileVars, gone, ioFails, badOpens>>
    BY <1>1, <1>2, <1>3, Zenon DEF WriteLogFileMsg
  <1>5. CASE WriteNone(buf, bytes) \/
             /\ m_szOutBuffer' = buf /\ m_dwTotalWriteBytes' = bytes /\ nul' = isNul
             /\ UNCHANGED <<m_dwTotalBytesWritten, fileVars, gone, ioFails, badOpens>>
    <2>1. /\ m_szOutBuffer' = buf /\ m_dwTotalWriteBytes' = bytes /\ nul' \in BOOLEAN
          /\ UNCHANGED <<m_dwTotalBytesWritten, fileVars, gone>>
      BY <1>3, <1>5, Zenon DEF WriteNone
    <2>2. ioFails' \in Nat /\ ioFails' >= ioFails /\ badOpens' \in Nat
      <3>1. /\ ioFails' = ioFails \/ ioFails' = ioFails + 1
            /\ badOpens' = badOpens \/ badOpens' = badOpens + 1
        BY <1>5, Zenon DEF WriteNone, Fail
      <3>2. ioFails \in Nat /\ badOpens \in Nat
        BY DEF Types
      <3> QED
        BY <3>1, <3>2
    <2>3. temp' = temp /\ exists' = exists /\ archive' = archive /\ written' = written
          /\ overwritten' = overwritten /\ gone' = gone
          /\ uncounted' = uncounted /\ missed' = missed
          /\ m_dwTotalBytesWritten' = m_dwTotalBytesWritten
      BY <2>1 DEF fileVars
    <2> QED
      BY <1>1, <1>2, <1>4, <2>1, <2>2, <2>3, Zenon DEF Kept, Types
  <1>6. CASE WriteAll(buf) \/ WritePart(buf)
    <2>1. Flushed(buf) /\ archive' = archive /\ overwritten' = overwritten
          /\ uncounted' = uncounted /\ missed' = missed
      BY <1>6, FlushEffect
    <2>2. PICK done \in Seq(Lines) :
            /\ m_szOutBuffer' = <<>> /\ m_dwTotalWriteBytes' = 0 /\ nul' = TRUE
            /\ temp' = temp \o done /\ exists' = TRUE /\ written' = written \o IdSeq(done)
            /\ m_dwTotalBytesWritten' = m_dwTotalBytesWritten + Bytes(done)
      BY <2>1, Zenon DEF Flushed
    <2>3. ioFails' \in Nat /\ ioFails' >= ioFails /\ badOpens' \in Nat
      <3>1. /\ ioFails' = ioFails \/ ioFails' = ioFails + 1
            /\ badOpens' = badOpens \/ badOpens' = badOpens + 1
        BY <1>6, Zenon DEF WriteAll, WritePart, Fail
      <3>2. ioFails \in Nat /\ badOpens \in Nat
        BY DEF Types
      <3> QED
        BY <3>1, <3>2
    <2>4. temp' \in Seq(Lines) /\ written' \in Seq(Nat)
      <3>1. temp \in Seq(Lines) /\ written \in Seq(Nat) /\ IdSeq(done) \in Seq(Nat)
        BY IdSeqType DEF Types
      <3> QED
        BY <2>2, <3>1, ConcatProperties
    <2>5. m_dwTotalBytesWritten' \in Nat
      <3>1. m_dwTotalBytesWritten \in Nat /\ Bytes(done) \in Nat
        BY BytesType DEF Types
      <3> QED
        BY <2>2, <3>1
    <2>6. m_szOutBuffer' \in Seq(Lines) /\ m_dwTotalWriteBytes' \in Nat
      BY <2>2, EmptySeq
    <2> QED
      BY <1>1, <1>4, <2>1, <2>2, <2>3, <2>4, <2>5, <2>6, Zenon
  <1> QED
    BY <1>4, <1>5, <1>6

LEMMA StrType ==
    ASSUME Types
    PROVE  str \in Seq(Lines)
  <1>1. <<>> \in Seq(Lines) /\ \A line \in Lines : <<line>> \in Seq(Lines)
    BY EmptySeq, IdsOfFew
  <1> QED
    BY <1>1, Zenon DEF Types

LEMMA EnqueueType ==
    ASSUME Types, NEW t, Enqueue(t)
    PROVE  m_LogQueue' \in Seq(Lines) /\ next' \in Nat \ {0} /\ queueLock' = queueLock
  <1>1. PICK size \in Sizes : m_LogQueue' = Append(m_LogQueue, [id |-> next, size |-> size])
    BY Zenon DEF Enqueue
  <1>2. [id |-> next, size |-> size] \in Lines
    BY DEF Lines, Types
  <1>3. m_LogQueue' \in Seq(Lines)
    BY <1>1, <1>2, AppendProperties DEF Types
  <1>4. next' = next + 1 /\ next \in Nat \ {0} /\ queueLock' = queueLock
    BY DEF Enqueue, Types
  <1> QED
    BY <1>3, <1>4

(* DateCheck changes no more than the thread's place, its nowTime and the  *)
(* history.                                                                *)
LEMMA DateCheckFrame ==
    ASSUME NEW t, DateCheck(t)
    PROVE  /\ UNCHANGED <<m_LogQueue, bufVars, m_dwTotalBytesWritten, rotVars, ini, mutex,
                          queueLock, str, nCount, left, fileVars, now, next, direct, gone,
                          bounds>>
           /\ overlap => overlap'
  <1>1. UNCHANGED <<m_LogQueue, bufVars, m_dwTotalBytesWritten, rotVars, ini, mutex,
                    queueLock, str, nCount, left, fileVars, now, next, direct, gone, bounds>>
    BY Zenon DEF DateCheck, ReadClock, CompareDay, CompareHour, NewDate, CheckSize
  <1>2. overlap => overlap'
    BY DEF DateCheck, ReadClock, CompareDay, CompareHour, NewDate, CheckSize, OtherRotating,
       Stale
  <1> QED
    BY <1>1, <1>2

(* DateCheck changes no more than the thread's place and its nowTime; it   *)
(* says that all is well only when it has seen the size.                   *)
LEMMA DateCheckEffect ==
    ASSUME Types, Control, NEW t \in Threads, DateCheck(t)
    PROVE  /\ UNCHANGED <<m_LogQueue, bufVars, m_dwTotalBytesWritten, rotVars, ini, mutex,
                          queueLock, str, nCount, left, fileVars, now, next, direct, gone,
                          bounds>>
           /\ nowTime' \in [Threads -> Nat] /\ overlap' \in BOOLEAN /\ (overlap => overlap')
           /\ DOMAIN pc' = Threads /\ \A u \in Threads \ {t} : pc'[u] = pc[u]
           /\ pc[t] \in {"check", "day", "hour", "size"}
           /\ pc'[t] \in {"day", "hour", "size", "reset", "start", AfterCheck(t)}
           /\ pc'[t] = AfterCheck(t) => ~TooBig
  <1>1. DOMAIN pc = Threads /\ nowTime \in [Threads -> Nat] /\ now \in Nat /\ overlap \in BOOLEAN
    BY DEF Types, Control
  <1>2. AfterCheck(t) \notin {"check", "day", "hour", "size", "reset", "start"}
    BY DEF AfterCheck
  <1>3. CASE ReadClock(t)
    BY <1>1, <1>2, <1>3 DEF ReadClock, Goto
  <1>4. ASSUME NEW differs, NEW else \in {"hour", "size"}, NewDate(t, differs, else),
               pc[t] \in {"day", "hour"}
        PROVE  /\ UNCHANGED <<m_LogQueue, bufVars, m_dwTotalBytesWritten, rotVars, ini, mutex,
                              queueLock, str, nCount, left, fileVars, now, next, direct, gone,
                              bounds>>
               /\ nowTime' \in [Threads -> Nat] /\ overlap' \in BOOLEAN
               /\ (overlap => overlap')
               /\ DOMAIN pc' = Threads /\ \A u \in Threads \ {t} : pc'[u] = pc[u]
               /\ pc'[t] \in {"reset", else}
    <2>1. overlap' \in BOOLEAN /\ (overlap => overlap')
      <3>1. overlap' = (overlap \/ OtherRotating(t) \/ Stale(t)) \/ overlap' = overlap
        BY <1>4, Zenon DEF NewDate
      <3> QED
        BY <1>1, <3>1 DEF OtherRotating, Stale
    <2>2. \/ pc' = [pc EXCEPT ![t] = "reset"]
          \/ pc' = [pc EXCEPT ![t] = else]
      BY <1>4, Zenon DEF NewDate
    <2>3. DOMAIN pc' = Threads /\ (\A u \in Threads \ {t} : pc'[u] = pc[u])
          /\ pc'[t] \in {"reset", else}
      BY <1>1, <2>2
    <2>4. nowTime' = nowTime \/ nowTime' = [nowTime EXCEPT ![t] = 0]
      BY <1>4, Zenon DEF NewDate, Forget
    <2>5. nowTime' \in [Threads -> Nat]
      BY <1>1, <2>4
    <2> QED
      BY <1>4, <2>1, <2>3, <2>5, Zenon DEF NewDate
  <1>5. CASE CompareDay(t)
    <2>1. PICK differs : NewDate(t, differs, "hour") /\ pc[t] = "day"
      BY <1>5, Zenon DEF CompareDay
    <2>2. "hour" \in {"hour", "size"} /\ pc[t] \in {"day", "hour"}
      BY <2>1
    <2> QED
      BY <1>2, <1>4, <2>1, <2>2
  <1>6. CASE CompareHour(t)
    <2>1. PICK differs : NewDate(t, differs, "size") /\ pc[t] = "hour"
      BY <1>6, Zenon DEF CompareHour
    <2>2. "size" \in {"hour", "size"} /\ pc[t] \in {"day", "hour"}
      BY <2>1
    <2> QED
      BY <1>2, <1>4, <2>1, <2>2
  <1>7. CASE CheckSize(t)
    BY <1>1, <1>2, <1>7 DEF CheckSize, Goto
  <1> QED
    BY <1>3, <1>5, <1>6, <1>7, Zenon DEF DateCheck

LEMMA CaughtEffect ==
    ASSUME Types, Caught
    PROVE  (\E t \in Threads : Throws(t)) /\ pc' = pc /\ left' \in [Threads -> Nat]
  <1>1. left \in [Threads -> Nat] /\ Main \in Threads
    BY DEF Types, Threads
  <1>2. CASE LogThrows
    BY <1>1, <1>2, Zenon DEF LogThrows, Throws
  <1>3. ASSUME NEW t \in Threads, HeaderThrows(t)
        PROVE  (\E u \in Threads : Throws(u)) /\ pc' = pc /\ left' \in [Threads -> Nat]
    <2>1. left' = [left EXCEPT ![t] = @ - 1] /\ left[t] > 0 /\ Throws(t)
      BY <1>3, Zenon DEF HeaderThrows
    <2>2. left' \in [Threads -> Nat]
      BY <1>1, <2>1
    <2> QED
      BY <2>1, <2>2, Zenon DEF Throws
  <1> QED
    BY <1>2, <1>3, Zenon DEF Caught

(* The catch block's call of WriteLogFileMsg.                              *)
LEMMA ThrowsWrites ==
    ASSUME Types, NEW t, Throws(t)
    PROVE  \E size \in Sizes, x \in Lines :
                /\ x.id = next /\ x.size = size /\ <<x>> \in Seq(Lines)
                /\ WriteLogFileMsg(<<x>>, FALSE)
  <1>1. PICK size \in Sizes : WriteLogFileMsg(<<[id |-> next, size |-> size]>>, FALSE)
    BY Zenon DEF Throws
  <1>2. PICK x \in Lines : x = [id |-> next, size |-> size] /\ x.id = next /\ x.size = size
    <2>1. next \in Nat
      BY DEF Types
    <2>2. [id |-> next, size |-> size] \in Lines
      BY <2>1 DEF Lines
    <2>3. [id |-> next, size |-> size].id = next /\ [id |-> next, size |-> size].size = size
      OBVIOUS
    <2> QED
      BY <2>2, <2>3, Zenon
  <1>3. <<x>> \in Seq(Lines)
    BY <1>2
  <1> QED
    BY <1>1, <1>2, <1>3, Zenon

-----------------------------------------------------------------------------
(* The types and the control flow are preserved.                           *)

LEMMA TypesStep ==
    ASSUME Types, Control, [Next]_vars
    PROVE  Types'
  <1>1. CASE UNCHANGED vars
    BY <1>1 DEF vars, Types, bufVars, rotVars, fileVars, bounds
  <1>2. CASE Tick
    <2>1. now' \in Nat
      <3>1. now' = now + 1 /\ now \in Nat
        BY <1>2, Zenon DEF Tick, Types
      <3> QED
        BY <3>1
    <2> QED
      BY <1>2, <2>1, Zenon DEF Tick, Types, bufVars, rotVars, fileVars, bounds
  <1>3. CASE Log
    BY <1>3, EnqueueType DEF Log, Types, bufVars, rotVars, fileVars, bounds
  <1>4. CASE Caught
    <2>1. PICK t \in Threads : Throws(t)
      BY <1>4, CaughtEffect
    <2>2. PICK msg \in Seq(Lines) : WriteLogFileMsg(msg, FALSE)
      BY <2>1, ThrowsWrites, Zenon
    <2>3. /\ ioFails' \in Nat /\ badOpens' \in Nat /\ archive' = archive
          /\ uncounted' = uncounted /\ missed' = missed
          /\ m_szOutBuffer' \in Seq(Lines) /\ temp' \in Seq(Lines) /\ written' \in Seq(Nat)
          /\ m_dwTotalWriteBytes' \in Nat /\ m_dwTotalBytesWritten' \in Nat
          /\ nul' \in BOOLEAN /\ exists' \in BOOLEAN
      BY <2>2, WriteEffect
    <2>4. throws' \in Nat /\ next' \in Nat \ {0}
      <3>1. throws' = throws + 1 /\ throws \in Nat /\ next' = next + 1 /\ next \in Nat \ {0}
        BY <2>1, Zenon DEF Throws, Types
      <3> QED
        BY <3>1
    <2>5. queueLock' \in Threads \cup {"free"} /\ left' \in [Threads -> Nat]
      <3>1. queueLock' = queueLock \/ queueLock' = t
        BY <2>1, Zenon DEF Throws
      <3>2. queueLock \in Threads \cup {"free"}
        BY DEF Types
      <3>3. left' \in [Threads -> Nat]
        BY <1>4, CaughtEffect
      <3> QED
        BY <3>1, <3>2, <3>3
    <2> QED
      BY <2>1, <2>3, <2>4, <2>5, Zenon DEF Throws, Types, rotVars
  <1>5. CASE QueueWait
    BY <1>5, HeadAndTail, EmptySeq DEF QueueWait, Types, bufVars, rotVars, fileVars, bounds
  <1>6. CASE QueueWrite
    <2>1. PICK msg \in Seq(Lines), bWriteNow \in BOOLEAN : WriteLogFileMsg(msg, bWriteNow)
      BY <1>6, StrType, EmptySeq, Zenon DEF QueueWrite
    <2>2. /\ ioFails' \in Nat /\ badOpens' \in Nat /\ archive' = archive
          /\ uncounted' = uncounted /\ missed' = missed
          /\ m_szOutBuffer' \in Seq(Lines) /\ temp' \in Seq(Lines) /\ written' \in Seq(Nat)
          /\ m_dwTotalWriteBytes' \in Nat /\ m_dwTotalBytesWritten' \in Nat
          /\ nul' \in BOOLEAN /\ exists' \in BOOLEAN
      BY <2>1, WriteEffect
    <2> QED
      BY <1>6, <2>2, LoggingAssumption DEF QueueWrite, Types, rotVars
  <1>7. CASE LoadLogErrorLevels
    BY <1>7 DEF LoadLogErrorLevels, Types, bufVars, rotVars, fileVars, bounds
  <1>8. CASE DateFlush
    <2>1. PICK msg \in Seq(Lines), bWriteNow \in BOOLEAN : WriteLogFileMsg(msg, bWriteNow)
      BY <1>8, StrType, EmptySeq, Zenon DEF DateFlush
    <2>2. /\ ioFails' \in Nat /\ badOpens' \in Nat /\ archive' = archive
          /\ uncounted' = uncounted /\ missed' = missed
          /\ m_szOutBuffer' \in Seq(Lines) /\ temp' \in Seq(Lines) /\ written' \in Seq(Nat)
          /\ m_dwTotalWriteBytes' \in Nat /\ m_dwTotalBytesWritten' \in Nat
          /\ nul' \in BOOLEAN /\ exists' \in BOOLEAN
      BY <2>1, WriteEffect
    <2>3. nCount' \in -1..(CheckEvery - 1)
      <3>1. /\ nCount' = (nCount + 1) % CheckEvery /\ nCount \in -1..(CheckEvery - 1)
            /\ CheckEvery \in Nat \ {0}
        BY <1>8, LoggingAssumption, Zenon DEF DateFlush, Types
      <3> QED
        BY <3>1
    <2> QED
      BY <1>8, <2>2, <2>3, Zenon DEF DateFlush, Types, rotVars
  <1>9. CASE FinalFlush
    <2>1. PICK msg \in Seq(Lines), bWriteNow \in BOOLEAN : WriteLogFileMsg(msg, bWriteNow)
      BY <1>9, StrType, EmptySeq, Zenon DEF FinalFlush
    <2>2. /\ ioFails' \in Nat /\ badOpens' \in Nat /\ archive' = archive
          /\ uncounted' = uncounted /\ missed' = missed
          /\ m_szOutBuffer' \in Seq(Lines) /\ temp' \in Seq(Lines) /\ written' \in Seq(Nat)
          /\ m_dwTotalWriteBytes' \in Nat /\ m_dwTotalBytesWritten' \in Nat
          /\ nul' \in BOOLEAN /\ exists' \in BOOLEAN
      BY <2>1, WriteEffect
    <2> QED
      BY <1>9, <2>2, LoggingAssumption DEF FinalFlush, Types, rotVars
  <1>10. CASE Terminate
    <2>1. stops' \in Nat
      <3>1. stops' = stops + 1 /\ stops \in Nat
        BY <1>10, Zenon DEF Terminate, Types
      <3> QED
        BY <3>1
    <2>2. nowTime' \in [Threads -> Nat]
      BY <1>10 DEF Terminate
    <2> QED
      BY <1>10, <2>1, <2>2, EmptySeq, Zenon DEF Terminate, Types, bufVars, rotVars, fileVars
  <1>11. CASE Crash
    <2>1. stops' \in Nat
      <3>1. stops' = stops + 1 /\ stops \in Nat
        BY <1>11, Zenon DEF Crash, Types
      <3> QED
        BY <3>1
    <2>2. nowTime' \in [Threads -> Nat]
      BY <1>11 DEF Crash
    <2> QED
      BY <1>11, <2>1, <2>2, EmptySeq, Zenon DEF Crash, Types, bufVars, rotVars, fileVars
  <1>12. CASE Restart
    <2>1. /\ m_dwTotalBytesWritten' \in Nat /\ uncounted' \in Nat /\ missed' \in Nat
          /\ ioFails' \in Nat /\ exists' \in BOOLEAN
      <3>1. PICK bytes \in Nat : bytes = Bytes(temp)
        BY BytesType DEF Types
      <3>2. GetCurrentLogFileSize
        BY <1>12, Zenon DEF Restart
      <3>3. ioFails' \in Nat
        <4>1. ioFails \in Nat
          BY DEF Types
        <4>2. ioFails' = ioFails \/ ioFails' = ioFails + 1
          BY <3>2, Zenon DEF GetCurrentLogFileSize, Fail
        <4> QED
          BY <4>1, <4>2
      <3>4. exists' \in BOOLEAN
        BY <3>2 DEF GetCurrentLogFileSize, Types
      <3>5. /\ m_dwTotalBytesWritten' = bytes \/ m_dwTotalBytesWritten' = 0
            /\ uncounted' = bytes \/ uncounted' = 0
            /\ missed' = bytes \/ missed' = missed
        BY <3>1, <3>2, Zenon DEF GetCurrentLogFileSize
      <3>6. missed \in Nat /\ 0 \in Nat
        BY DEF Types
      <3> QED
        BY <3>1, <3>3, <3>4, <3>5, <3>6
    <2>2. /\ m_dwFileCounter' \in Nat /\ m_LastSystemTime' \in Nat
          /\ m_szLogFile' \in Nat \X Nat
      <3>1. BuildLogFileName(now, 0, ini'.max) /\ now \in Nat
        BY <1>12, Zenon DEF Restart, Types
      <3> QED
        BY <3>1 DEF BuildLogFileName
    <2>3. nCount' \in -1..(CheckEvery - 1) /\ left' \in [Threads -> Nat] /\ 0 \in Nat
      BY <1>12, LoggingAssumption DEF Restart
    <2> QED
      BY <1>12, <2>1, <2>2, <2>3, EmptySeq, Zenon DEF Restart, EmptyBuffer, Types
  <1>13. ASSUME NEW t \in Threads, DateCheck(t)
        PROVE  Types'
    BY <1>13, DateCheckEffect, Zenon DEF Types, bufVars, rotVars, fileVars, bounds
  <1>14. ASSUME NEW t \in Threads, ResetCounter(t)
        PROVE  Types'
    BY <1>14, LoggingAssumption DEF ResetCounter, Types, bufVars, rotVars, fileVars, bounds, Goto
  <1>15. ASSUME NEW t \in Threads, StartLogFile(t)
        PROVE  Types'
    BY <1>15, LoggingAssumption DEF StartLogFile, Types, bufVars, rotVars, fileVars, bounds, Goto
  <1>16. ASSUME NEW t \in Threads, Move(t)
        PROVE  Types'
    <2>1. /\ m_dwFileCounter' \in Nat /\ m_LastSystemTime' \in Nat
          /\ m_szLogFile' \in Nat \X Nat
      <3>1. /\ BuildLogFileName(m_LastSystemTime, m_dwFileCounter, ini.max)
            /\ m_LastSystemTime \in Nat /\ m_dwFileCounter \in Nat
        BY <1>16, Zenon DEF Move, NewLogFile, Types
      <3> QED
        BY <3>1 DEF BuildLogFileName
    <2>2. left' \in [Threads -> Nat] /\ 0 \in Nat
      BY <1>16, LoggingAssumption DEF Move, NewLogFile, Types
    <2>3. /\ DOMAIN archive' \subseteq Nat \X Nat
          /\ \A name \in DOMAIN archive' : archive'[name] \in Seq(Lines)
      BY <1>16, Zenon DEF Move, Types
    <2> QED
      BY <1>16, <2>1, <2>2, <2>3, EmptySeq, Zenon DEF Move, NewLogFile, Types, bufVars, bounds
  <1>17. ASSUME NEW t \in Threads, MoveFails(t)
        PROVE  Types'
    <2>1. left' \in [Threads -> Nat]
      <3>1. left' = [left EXCEPT ![t] = @ - 1] /\ left[t] > 0 /\ left \in [Threads -> Nat]
        BY <1>17, Zenon DEF MoveFails, Types
      <3> QED
        BY <3>1
    <2>2. ioFails' \in Nat
      <3>1. (ioFails' = ioFails + 1 \/ ioFails' = ioFails) /\ ioFails \in Nat
        BY <1>17, Zenon DEF MoveFails, Fail, Types
      <3> QED
        BY <3>1
    <2> QED
      BY <1>17, <2>1, <2>2, Zenon DEF MoveFails, Types, bufVars, rotVars, fileVars
  <1>18. ASSUME NEW t \in Threads, MoveGivesUp(t)
        PROVE  Types'
    <2>1. /\ m_dwFileCounter' \in Nat /\ m_LastSystemTime' \in Nat
          /\ m_szLogFile' \in Nat \X Nat
      <3>1. /\ BuildLogFileName(m_LastSystemTime, m_dwFileCounter, ini.max)
            /\ m_LastSystemTime \in Nat /\ m_dwFileCounter \in Nat
        BY <1>18, Zenon DEF MoveGivesUp, NewLogFile, Types
      <3> QED
        BY <3>1 DEF BuildLogFileName
    <2>2. left' \in [Threads -> Nat] /\ 0 \in Nat
      BY <1>18, LoggingAssumption DEF MoveGivesUp, NewLogFile, Types
    <2> QED
      BY <1>18, <2>1, <2>2, Zenon DEF MoveGivesUp, NewLogFile, Types, bufVars, fileVars, bounds
  <1>19. ASSUME NEW t \in Threads, Header(t)
        PROVE  Types'
    <2>1. left' \in [Threads -> Nat]
      <3>1. left' = [left EXCEPT ![t] = @ - 1] /\ left[t] > 0 /\ left \in [Threads -> Nat]
        BY <1>19, Zenon DEF Header, Types
      <3> QED
        BY <3>1
    <2>2. m_LogQueue' \in Seq(Lines) /\ next' \in Nat \ {0} /\ queueLock' = queueLock
      BY <1>19, EnqueueType, Zenon DEF Header
    <2> QED
      BY <1>19, <2>1, <2>2, Zenon DEF Header, Types, bufVars, rotVars, fileVars, bounds
  <1>20. ASSUME NEW t \in Threads, HeaderDone(t)
        PROVE  Types'
    BY <1>20, LoggingAssumption DEF HeaderDone, Types, bufVars, rotVars, fileVars, bounds
  <1> QED
    BY <1>1, <1>2, <1>3, <1>4, <1>5, <1>6, <1>7, <1>8, <1>9, <1>10, <1>11, <1>12, <1>13, <1>14, <1>15, <1>16, <1>17, <1>18, <1>19, <1>20, NextSteps, Zenon DEF Turn

LEMMA ControlStep ==
    ASSUME Types, Control, [Next]_vars
    PROVE  Control'
  <1> USE ThreadsApart
  <1>1. CASE UNCHANGED vars
    BY <1>1 DEF vars, Control, bounds
  <1>2. CASE Tick
    BY <1>2 DEF Tick, Control, bounds, MainAt, CheckAt, QueueAt, DateAt, Threads
  <1>3. CASE Log
    BY <1>3 DEF Log, Control, bounds, MainAt, CheckAt, QueueAt, DateAt, Threads
  <1>4. CASE Caught
    <2>1. PICK t \in Threads : Throws(t) /\ pc' = pc
      BY <1>4, CaughtEffect
    <2>2. mutex' = mutex /\ str' = str /\ stops' = stops
      BY <2>1, Zenon DEF Throws
    <2> QED
      BY <2>1, <2>2, Zenon DEF Control
  <1>5. CASE QueueWait
    BY <1>5 DEF QueueWait, Control, bounds, MainAt, CheckAt, QueueAt, DateAt, Threads, Goto
  <1>6. CASE QueueWrite
    BY <1>6 DEF QueueWrite, Control, bounds, MainAt, CheckAt, QueueAt, DateAt, Threads, Goto
  <1>7. CASE LoadLogErrorLevels
    BY <1>7 DEF LoadLogErrorLevels, Control, bounds, MainAt, CheckAt, QueueAt, DateAt, Threads, Goto
  <1>8. CASE DateFlush
    BY <1>8 DEF DateFlush, Control, bounds, MainAt, CheckAt, QueueAt, DateAt, Threads, Goto
  <1>9. CASE FinalFlush
    BY <1>9 DEF FinalFlush, Control, bounds, MainAt, CheckAt, QueueAt, DateAt, Threads, Goto
  <1>10. CASE Terminate
    <2>1. stops' > 0
      <3>1. stops' = stops + 1 /\ stops \in Nat
        BY <1>10, Zenon DEF Terminate, Types
      <3> QED
        BY <3>1
    <2> QED
      BY <1>10, <2>1 DEF Terminate, Control, MainAt, CheckAt, QueueAt, DateAt, Threads
  <1>11. CASE Crash
    <2>1. stops' > 0
      <3>1. stops' = stops + 1 /\ stops \in Nat
        BY <1>11, Zenon DEF Crash, Types
      <3> QED
        BY <3>1
    <2> QED
      BY <1>11, <2>1 DEF Crash, Control, MainAt, CheckAt, QueueAt, DateAt, Threads
  <1>12. CASE Restart
    BY <1>12 DEF Restart, Control, bounds, MainAt, CheckAt, QueueAt, DateAt, Threads
  <1>13. ASSUME NEW t \in Threads, DateCheck(t)
        PROVE  Control'
    <2>1. /\ DOMAIN pc' = Threads /\ \A u \in Threads \ {t} : pc'[u] = pc[u]
          /\ pc[t] \in {"check", "day", "hour", "size"}
          /\ pc'[t] \in {"day", "hour", "size", "reset", "start", AfterCheck(t)}
      BY <1>13, DateCheckEffect
    <2>2. mutex' = mutex /\ str' = str /\ stops' = stops
      BY <1>13, DateCheckFrame, Zenon DEF bounds
    <2> QED
      BY <2>1, <2>2 DEF Control, MainAt, CheckAt, QueueAt, DateAt, Threads, AfterCheck
  <1>14. ASSUME NEW t \in Threads, ResetCounter(t)
        PROVE  Control'
    BY <1>14 DEF ResetCounter, Control, bounds, MainAt, CheckAt, QueueAt, DateAt, Threads, Goto
  <1>15. ASSUME NEW t \in Threads, StartLogFile(t)
        PROVE  Control'
    BY <1>15 DEF StartLogFile, Control, bounds, MainAt, CheckAt, QueueAt, DateAt, Threads, Goto
  <1>16. ASSUME NEW t \in Threads, Move(t)
        PROVE  Control'
    BY <1>16 DEF Move, Control, bounds, MainAt, CheckAt, QueueAt, DateAt, Threads, NewLogFile
  <1>17. ASSUME NEW t \in Threads, MoveFails(t)
        PROVE  Control'
    BY <1>17 DEF MoveFails, Control, bounds, MainAt, CheckAt, QueueAt, DateAt, Threads
  <1>18. ASSUME NEW t \in Threads, MoveGivesUp(t)
        PROVE  Control'
    BY <1>18 DEF MoveGivesUp, Control, bounds, MainAt, CheckAt, QueueAt, DateAt, Threads, NewLogFile
  <1>19. ASSUME NEW t \in Threads, Header(t)
        PROVE  Control'
    BY <1>19 DEF Header, Control, bounds, MainAt, CheckAt, QueueAt, DateAt, Threads
  <1>20. ASSUME NEW t \in Threads, HeaderDone(t)
        PROVE  Control'
    BY <1>20 DEF HeaderDone, Control, bounds, MainAt, CheckAt, QueueAt, DateAt, Threads, Goto, AfterCheck
  <1> QED
    BY <1>1, <1>2, <1>3, <1>4, <1>5, <1>6, <1>7, <1>8, <1>9, <1>10, <1>11, <1>12, <1>13, <1>14, <1>15, <1>16, <1>17, <1>18, <1>19, <1>20, NextSteps, Zenon DEF Turn

-----------------------------------------------------------------------------
(* No line is lost, doubled or overtaken.                                  *)

lineVars == <<m_LogQueue, str, m_szOutBuffer, temp, archive, gone, overwritten, next,
              written, direct>>

LEMMA LinesUnchanged ==
    ASSUME LinesInv, UNCHANGED lineVars
    PROVE  LinesInv'
  BY Zenon DEF LinesInv, lineVars

(* WriteLogFileMsg, once the line it copies is counted to the buffer.      *)
LEMMA LinesWrite ==
    ASSUME Types, NEW msg \in Seq(Lines), NEW bWriteNow, WriteLogFileMsg(msg, bWriteNow),
           NEW hand \in Seq(Lines), NEW d, NEW n, Shelves(archive),
           Home(m_LogQueue, hand, m_szOutBuffer \o msg, temp, archive, gone, overwritten, n),
           Lined(m_LogQueue, hand, m_szOutBuffer \o msg, written, d, n)
    PROVE  /\ Home(m_LogQueue, hand, m_szOutBuffer', temp', archive', gone', overwritten', n)
           /\ Shelves(archive')
           /\ Lined(m_LogQueue, hand, m_szOutBuffer', written', d, n)
  <1>1. m_LogQueue \in Seq(Lines) /\ temp \in Seq(Lines) /\ written \in Seq(Nat)
    BY DEF Types
  <1>2. PICK buf \in Seq(Lines) : buf = m_szOutBuffer \o msg
    <2>1. m_szOutBuffer \in Seq(Lines)
      BY DEF Types
    <2> QED
      BY <2>1, ConcatProperties
  <1>3. archive' = archive /\ overwritten' = overwritten /\ (Kept(buf) \/ Flushed(buf))
    BY <1>2, WriteEffect
  <1>4. /\ Home(m_LogQueue, hand, buf, temp, archive, gone, overwritten, n)
        /\ Lined(m_LogQueue, hand, buf, written, d, n)
    BY <1>2
  <1>5. CASE Kept(buf)
    BY <1>3, <1>4, <1>5, Zenon DEF Kept
  <1>6. CASE Flushed(buf)
    <2>1. PICK done \in Seq(Lines), lost \in Seq(Lines) :
            /\ buf = done \o lost /\ m_szOutBuffer' = <<>> /\ temp' = temp \o done
            /\ written' = written \o IdSeq(done) /\ gone' = gone \cup Ids(lost)
      BY <1>6, Zenon DEF Flushed
    <2>2. /\ Home(m_LogQueue, hand, <<>>, temp \o done, archive, gone \cup Ids(lost),
                  overwritten, n)
          /\ Lined(m_LogQueue, hand, <<>>, written \o IdSeq(done), d, n)
      BY <1>1, <1>4, <2>1, WriteLines
    <2> QED
      BY <1>3, <2>1, <2>2, Zenon
  <1> QED
    BY <1>3, <1>5, <1>6

LEMMA LinesEnqueue ==
    ASSUME Types, LinesInv, NEW t, Enqueue(t),
           UNCHANGED <<str, m_szOutBuffer, temp, archive, gone, overwritten, written, direct>>
    PROVE  LinesInv'
  <1>1. PICK size \in Sizes : m_LogQueue' = Append(m_LogQueue, [id |-> next, size |-> size])
    BY Zenon DEF Enqueue
  <1>2. m_LogQueue \in Seq(Lines) /\ m_szOutBuffer \in Seq(Lines) /\ temp \in Seq(Lines)
        /\ next \in Nat \ {0} /\ str \in Seq(Lines)
    BY StrType DEF Types
  <1>3. /\ Home(m_LogQueue, str, m_szOutBuffer, temp, archive, gone, overwritten, next)
        /\ Lined(m_LogQueue, str, m_szOutBuffer, written, direct, next)
    BY DEF LinesInv
  <1>4. /\ Home(m_LogQueue', str, m_szOutBuffer, temp, archive, gone, overwritten, next + 1)
        /\ Lined(m_LogQueue', str, m_szOutBuffer, written, direct, next + 1)
    BY <1>1, <1>2, <1>3, EnqueueLine, Zenon
  <1>5. next' = next + 1
    BY Zenon DEF Enqueue
  <1> QED
    BY <1>4, <1>5, Zenon DEF LinesInv

LEMMA LinesStep ==
    ASSUME Types, Control, LinesInv, [Next]_vars
    PROVE  LinesInv'
  <1>1. /\ m_LogQueue \in Seq(Lines) /\ m_szOutBuffer \in Seq(Lines) /\ temp \in Seq(Lines)
        /\ next \in Nat \ {0} /\ str \in Seq(Lines)
    BY StrType DEF Types
  <1>2. /\ Home(m_LogQueue, str, m_szOutBuffer, temp, archive, gone, overwritten, next)
        /\ Lined(m_LogQueue, str, m_szOutBuffer, written, direct, next)
        /\ Shelves(archive)
    BY DEF LinesInv
  <1>3. CASE UNCHANGED vars
    BY <1>3, LinesUnchanged, Zenon DEF vars, lineVars, bufVars, fileVars
  <1>4. CASE Tick
    BY <1>4, LinesUnchanged, Zenon DEF Tick, lineVars, bufVars, fileVars
  <1>5. CASE LoadLogErrorLevels
    BY <1>5, LinesUnchanged, Zenon DEF LoadLogErrorLevels, lineVars, bufVars, fileVars
  <1>6. CASE Log
    BY <1>6, LinesEnqueue, Zenon DEF Log, bufVars, fileVars
  <1>7. CASE Caught
    <2>1. PICK t \in Threads : Throws(t)
      BY <1>7, CaughtEffect
    <2>3. PICK x \in Lines : x.id = next /\ WriteLogFileMsg(<<x>>, FALSE)
      BY <2>1, ThrowsWrites, Zenon
    <2>4. <<x>> \in Seq(Lines)
      BY IdsOfFew
    <2>5. /\ Home(m_LogQueue, str, m_szOutBuffer \o <<x>>, temp, archive, gone, overwritten,
                  next + 1)
          /\ Lined(m_LogQueue, str, m_szOutBuffer \o <<x>>, written, direct \cup {next},
                   next + 1)
      BY <1>1, <1>2, <2>3, DirectLine, Zenon
    <2>6. /\ Home(m_LogQueue, str, m_szOutBuffer', temp', archive', gone', overwritten', next + 1)
          /\ Shelves(archive')
          /\ Lined(m_LogQueue, str, m_szOutBuffer', written', direct \cup {next}, next + 1)
      BY <1>1, <1>2, <2>3, <2>4, <2>5, LinesWrite, Zenon
    <2>7. /\ m_LogQueue' = m_LogQueue /\ str' = str /\ next' = next + 1
          /\ direct' = direct \cup {next}
      BY <2>1, Zenon DEF Throws
    <2> QED
      BY <2>6, <2>7, Zenon DEF LinesInv
  <1>8. CASE QueueWait
    <2>1. m_LogQueue # <<>> /\ str = <<>>
      BY <1>8, Zenon DEF QueueWait, Goto, Control
    <2>2. /\ Home(Tail(m_LogQueue), <<Head(m_LogQueue)>>, m_szOutBuffer, temp, archive, gone,
                  overwritten, next)
          /\ Lined(Tail(m_LogQueue), <<Head(m_LogQueue)>>, m_szOutBuffer, written, direct, next)
      BY <1>1, <1>2, <2>1, TakeLine, Zenon
    <2> QED
      BY <1>8, <1>2, <2>2, Zenon DEF QueueWait, LinesInv, bufVars, fileVars
  <1>9. CASE QueueWrite
    <2>1. /\ Home(m_LogQueue, <<>>, m_szOutBuffer \o str, temp, archive, gone, overwritten, next)
          /\ Lined(m_LogQueue, <<>>, m_szOutBuffer \o str, written, direct, next)
      BY <1>1, <1>2, CopyLine, Zenon
    <2>2. WriteLogFileMsg(str, FALSE) /\ str' = <<>> /\ m_LogQueue' = m_LogQueue
          /\ next' = next /\ direct' = direct
      BY <1>9, Zenon DEF QueueWrite
    <2>3. /\ Home(m_LogQueue, <<>>, m_szOutBuffer', temp', archive', gone', overwritten', next)
          /\ Shelves(archive')
          /\ Lined(m_LogQueue, <<>>, m_szOutBuffer', written', direct, next)
      BY <1>1, <1>2, <2>1, <2>2, EmptySeq, LinesWrite, Zenon
    <2> QED
      BY <2>2, <2>3, Zenon DEF LinesInv
  <1>10. CASE DateFlush
    <2>1. WriteLogFileMsg(<<>>, TRUE) /\ m_LogQueue' = m_LogQueue /\ str' = str
          /\ next' = next /\ direct' = direct
      BY <1>10, Zenon DEF DateFlush
    <2>2. m_szOutBuffer = m_szOutBuffer \o <<>> /\ <<>> \in Seq(Lines)
      BY <1>1, EmptySeq, ConcatEmptySeq, Zenon
    <2>3. /\ Home(m_LogQueue, str, m_szOutBuffer', temp', archive', gone', overwritten', next)
          /\ Shelves(archive')
          /\ Lined(m_LogQueue, str, m_szOutBuffer', written', direct, next)
      BY <1>1, <1>2, <2>1, <2>2, LinesWrite, Zenon
    <2> QED
      BY <2>1, <2>3, Zenon DEF LinesInv
  <1>11. CASE FinalFlush
    <2>1. WriteLogFileMsg(<<>>, TRUE) /\ m_LogQueue' = m_LogQueue /\ str' = str
          /\ next' = next /\ direct' = direct
      BY <1>11, Zenon DEF FinalFlush
    <2>2. m_szOutBuffer = m_szOutBuffer \o <<>> /\ <<>> \in Seq(Lines)
      BY <1>1, EmptySeq, ConcatEmptySeq, Zenon
    <2>3. /\ Home(m_LogQueue, str, m_szOutBuffer', temp', archive', gone', overwritten', next)
          /\ Shelves(archive')
          /\ Lined(m_LogQueue, str, m_szOutBuffer', written', direct, next)
      BY <1>1, <1>2, <2>1, <2>2, LinesWrite, Zenon
    <2> QED
      BY <2>1, <2>3, Zenon DEF LinesInv
  <1>12. CASE Terminate
    <2>1. /\ Home(<<>>, <<>>, m_szOutBuffer, temp, archive,
                  gone \cup (Ids(m_LogQueue) \cup Ids(str)), overwritten, next)
          /\ Lined(<<>>, <<>>, m_szOutBuffer, written, direct, next)
      BY <1>1, <1>2, LoseLines, Zenon
    <2> QED
      BY <1>12, <1>2, <2>1, Zenon DEF Terminate, Lost, LinesInv, bufVars, fileVars
  <1>13. CASE Crash
    <2>1. /\ Home(<<>>, <<>>, m_szOutBuffer, temp, archive,
                  gone \cup (Ids(m_LogQueue) \cup Ids(str)), overwritten, next)
          /\ Lined(<<>>, <<>>, m_szOutBuffer, written, direct, next)
      BY <1>1, <1>2, LoseLines, Zenon
    <2> QED
      BY <1>13, <1>2, <2>1, Zenon DEF Crash, Lost, LinesInv, bufVars, fileVars
  <1>14. CASE Restart
    <2>1. /\ Home(m_LogQueue, str, <<>>, temp, archive, gone \cup Ids(m_szOutBuffer),
                  overwritten, next)
          /\ Lined(m_LogQueue, str, <<>>, written, direct, next)
      BY <1>1, <1>2, LoseLines, Zenon
    <2> QED
      BY <1>14, <1>2, <2>1, Zenon DEF Restart, EmptyBuffer, LinesInv
  <1>15. ASSUME NEW t \in Threads, DateCheck(t)
        PROVE  LinesInv'
    BY <1>15, DateCheckFrame, LinesUnchanged, Zenon DEF lineVars, bufVars, fileVars
  <1>16. ASSUME NEW t \in Threads, ResetCounter(t)
        PROVE  LinesInv'
    BY <1>16, LinesUnchanged, Zenon DEF ResetCounter, lineVars, bufVars, fileVars
  <1>17. ASSUME NEW t \in Threads, StartLogFile(t)
        PROVE  LinesInv'
    BY <1>17, LinesUnchanged, Zenon DEF StartLogFile, lineVars, bufVars, fileVars
  <1>18. ASSUME NEW t \in Threads, MoveFails(t)
        PROVE  LinesInv'
    BY <1>18, LinesUnchanged, Zenon DEF MoveFails, lineVars, bufVars, fileVars
  <1>19. ASSUME NEW t \in Threads, MoveGivesUp(t)
        PROVE  LinesInv'
    BY <1>19, LinesUnchanged, Zenon DEF MoveGivesUp, lineVars, bufVars, fileVars
  <1>20. ASSUME NEW t \in Threads, HeaderDone(t)
        PROVE  LinesInv'
    BY <1>20, LinesUnchanged, Zenon DEF HeaderDone, lineVars, bufVars, fileVars
  <1>21. ASSUME NEW t \in Threads, Header(t)
        PROVE  LinesInv'
    BY <1>21, LinesEnqueue, Zenon DEF Header, bufVars, fileVars
  <1>22. ASSUME NEW t \in Threads, Move(t)
        PROVE  LinesInv'
    <2>1. Filed(archive', overwritten', archive, overwritten, m_szLogFile, temp)
          /\ temp' = <<>>
      BY <1>22, Zenon DEF Move, Filed
    <2>2. /\ Home(m_LogQueue, str, m_szOutBuffer, <<>>, archive', gone, overwritten', next)
          /\ Shelves(archive')
      BY <1>1, <1>2, <2>1, ShelveLines, Zenon
    <2> QED
      BY <1>22, <1>2, <2>1, <2>2, Zenon DEF Move, LinesInv, bufVars
  <1> QED
    BY <1>3, <1>4, <1>5, <1>6, <1>7, <1>8, <1>9, <1>10, <1>11, <1>12, <1>13, <1>14, <1>15, <1>16, <1>17, <1>18, <1>19, <1>20, <1>21, <1>22, NextSteps, Zenon DEF Turn

-----------------------------------------------------------------------------
(* An archive gets a name that none had before.                            *)

nameVars == <<overwritten, archive, m_LastSystemTime, m_szLogFile, m_dwFileCounter>>

(* Steps that neither begin nor end a part of a rotation.                  *)
LEMMA NamesUnchanged ==
    ASSUME Types, Named, UNCHANGED nameVars, now' \in Nat, now <= now',
           \A t \in Threads : pc'[t] = pc[t] \/ (~Rotating(t) /\ ~Rotating(t)'),
           \A t \in Threads : nowTime'[t] = nowTime[t] \/ nowTime'[t] <= now'
    PROVE  Named'
  <1>1. m_LastSystemTime \in Nat /\ now \in Nat
    BY DEF Types
  <1>2. \A t \in Threads : (Rotating(t)' <=> Rotating(t)) /\ (Rotating(t) => pc'[t] = pc[t])
    BY Zenon DEF Rotating
  <1>3. overwritten' = {} /\ \A name \in DOMAIN archive' : Before(name, m_szLogFile')
    BY Zenon DEF Named, nameVars
  <1>4. \A t, u \in Threads : Rotating(t)' /\ Rotating(u)' => t = u
    BY <1>2, Zenon DEF Named
  <1>5. m_LastSystemTime' <= now' /\ m_szLogFile'[1] <= m_LastSystemTime'
    <2>1. m_LastSystemTime <= now /\ m_szLogFile[1] <= m_LastSystemTime
      BY Zenon DEF Named
    <2>2. m_LastSystemTime' = m_LastSystemTime /\ m_szLogFile' = m_szLogFile
      BY Zenon DEF nameVars
    <2>3. m_LastSystemTime <= now'
      BY <1>1, <2>1
    <2> QED
      BY <2>1, <2>2, <2>3, Zenon
  <1>6. m_LastSystemTime < now => m_LastSystemTime < now'
    BY <1>1
  <1>7. \A t \in Threads : pc'[t] = "reset" => m_LastSystemTime' < now'
    BY <1>2, <1>6, Zenon DEF Named, nameVars, Rotating
  <1>8. \/ m_szLogFile' = <<m_LastSystemTime', m_dwFileCounter'>>
        \/ \E t \in Threads :
            \/ pc'[t] = "start" /\ m_szLogFile'[1] = m_LastSystemTime' /\ m_LastSystemTime' < now'
            \/ pc'[t] = "move" /\ m_szLogFile'[2] = m_dwFileCounter'
            \/ pc'[t] = "move" /\ m_szLogFile'[1] < m_LastSystemTime'
    BY <1>2, <1>6, Zenon DEF Named, nameVars, Rotating
  <1>9. \A t \in Threads : nowTime'[t] <= now'
    <2>1. \A t \in Threads : nowTime[t] \in Nat /\ nowTime[t] <= now
      BY DEF Named, Types
    <2>2. \A x \in Nat : x <= now => x <= now'
      BY <1>1
    <2> QED
      BY <2>1, <2>2, Zenon
  <1> QED
    BY <1>3, <1>4, <1>5, <1>7, <1>8, <1>9, Zenon DEF Named

(* No thread has a nowTime from the future.                                *)
LEMMA DateCheckTime ==
    ASSUME Types, NEW t \in Threads, DateCheck(t), \A u \in Threads : nowTime[u] <= now
    PROVE  \A u \in Threads : nowTime'[u] <= now
  <1>1. nowTime \in [Threads -> Nat] /\ now \in Nat
    BY DEF Types
  <1>2. \/ nowTime' = [nowTime EXCEPT ![t] = now] \/ nowTime' = [nowTime EXCEPT ![t] = 0]
        \/ nowTime' = nowTime
    BY Zenon DEF DateCheck, ReadClock, CompareDay, CompareHour, NewDate, Forget, CheckSize
  <1> QED
    BY <1>1, <1>2

(* A thread that decides to rotate without an overlap has seen a later     *)
(* hour, or the size.                                                      *)
LEMMA DateCheckRotates ==
    ASSUME Types, Control, NEW t \in Threads, DateCheck(t), ~overlap',
           pc'[t] \in {"reset", "start"}
    PROVE  /\ ~OtherRotating(t)
           /\ pc'[t] = "reset" => ~Stale(t) /\ m_LastSystemTime # nowTime[t]
  <1>1. DOMAIN pc = Threads /\ AfterCheck(t) \notin {"reset", "start"}
    BY DEF Control, AfterCheck
  <1>2. CASE ReadClock(t)
    BY <1>1, <1>2 DEF ReadClock, Goto
  <1>3. ASSUME NEW differs, NEW else \in {"hour", "size"}, NewDate(t, differs, else)
        PROVE  ~OtherRotating(t) /\ ~Stale(t) /\ differs
    <2>1. \/ differs /\ overlap' = (overlap \/ OtherRotating(t) \/ Stale(t))
          \/ pc' = [pc EXCEPT ![t] = else]
      BY <1>3, Zenon DEF NewDate
    <2>2. pc' # [pc EXCEPT ![t] = else]
      BY <1>1, <1>3
    <2> QED
      BY <2>1, <2>2, Zenon
  <1>4. CASE CompareDay(t)
    <2>1. NewDate(t, Day(m_LastSystemTime) # Day(nowTime[t]), "hour")
      BY <1>4, Zenon DEF CompareDay
    <2>2. "hour" \in {"hour", "size"}
      OBVIOUS
    <2>3. ~OtherRotating(t) /\ ~Stale(t) /\ Day(m_LastSystemTime) # Day(nowTime[t])
      BY <1>3, <2>1, <2>2, Zenon
    <2> QED
      BY <2>3, Zenon
  <1>5. CASE CompareHour(t)
    <2>1. NewDate(t, ini.break /\ Hour(m_LastSystemTime) # Hour(nowTime[t]), "size")
      BY <1>5, Zenon DEF CompareHour
    <2>2. "size" \in {"hour", "size"}
      OBVIOUS
    <2>3. ~OtherRotating(t) /\ ~Stale(t) /\ Hour(m_LastSystemTime) # Hour(nowTime[t])
      BY <1>3, <2>1, <2>2, Zenon
    <2> QED
      BY <2>3, Zenon
  <1>6. CASE CheckSize(t)
    <2>1. \/ Goto(t, "size", "start") /\ overlap' = (overlap \/ OtherRotating(t))
          \/ Goto(t, "size", AfterCheck(t))
      BY <1>6, Zenon DEF CheckSize
    <2>2. CASE Goto(t, "size", "start") /\ overlap' = (overlap \/ OtherRotating(t))
      <3>1. pc'[t] = "start"
        BY <1>1, <2>2 DEF Goto
      <3>2. ~OtherRotating(t)
        BY <2>2, Zenon
      <3> QED
        BY <3>1, <3>2
    <2>3. CASE Goto(t, "size", AfterCheck(t))
      BY <1>1, <2>3 DEF Goto
    <2> QED
      BY <2>1, <2>2, <2>3
  <1> QED
    BY <1>2, <1>4, <1>5, <1>6, Zenon DEF DateCheck

(* DateCheck and the lock of StartLogFile.                                 *)
LEMMA NamesRotate ==
    ASSUME Types, Control, Named, NEW t \in Threads,
           (DateCheck(t) /\ ~overlap') \/ ResetCounter(t) \/ StartLogFile(t)
    PROVE  Named'
  <1>1. m_LastSystemTime \in Nat /\ now \in Nat /\ m_dwFileCounter \in Nat
    BY DEF Types
  <1>2. PICK hour \in Nat, count \in Nat : m_szLogFile = <<hour, count>>
                                         /\ m_szLogFile[1] = hour /\ m_szLogFile[2] = count
    BY DEF Types
  <1>3. overwritten' = {} /\ \A name \in DOMAIN archive' : Before(name, m_szLogFile')
    BY DateCheckFrame, Zenon DEF Named, ResetCounter, StartLogFile, rotVars, fileVars
  <1>4. CASE DateCheck(t) /\ ~overlap'
    <2>1. /\ m_LastSystemTime' = m_LastSystemTime /\ m_dwFileCounter' = m_dwFileCounter
          /\ m_szLogFile' = m_szLogFile /\ now' = now
      BY <1>4, DateCheckFrame, Zenon DEF rotVars
    <2>2. /\ pc[t] \in {"check", "day", "hour", "size"}
          /\ \A u \in Threads \ {t} : pc'[u] = pc[u]
          /\ pc'[t] \in {"day", "hour", "size", "reset", "start", AfterCheck(t)}
      BY <1>4, DateCheckEffect
    <2>5. \A u \in Threads : nowTime'[u] <= now'
      BY <1>4, <2>1, DateCheckTime, Zenon DEF Named
    <2>3. CASE pc'[t] \notin {"reset", "start"}
      <3>1. ~Rotating(t) /\ ~Rotating(t)'
        BY <2>2, <2>3 DEF Rotating, AfterCheck
      <3>2. \A u \in Threads : pc'[u] = pc[u] \/ (~Rotating(u) /\ ~Rotating(u)')
        BY <2>2, <3>1, Zenon
      <3>3. now' \in Nat /\ now <= now'
        BY <1>1, <2>1
      <3>4. UNCHANGED nameVars
        BY <1>4, DateCheckFrame, Zenon DEF nameVars, rotVars, fileVars
      <3> QED
        BY <2>5, <3>2, <3>3, <3>4, NamesUnchanged, Zenon
    <2>4. CASE pc'[t] \in {"reset", "start"}
      <3>9. /\ ~OtherRotating(t)
            /\ pc'[t] = "reset" => ~Stale(t) /\ m_LastSystemTime # nowTime[t]
        BY <1>4, <2>4, DateCheckRotates, Zenon
      <3>1. \A u \in Threads \ {t} : ~Rotating(u)
        BY <3>9, Zenon DEF OtherRotating, Rotating
      <3>2. \A u \in Threads : ~Rotating(u)
        BY <2>2, <3>1 DEF Rotating
      <3>3. \A u \in Threads : Rotating(u)' => u = t
        BY <2>2, <3>2 DEF Rotating
      <3>4. m_szLogFile = <<m_LastSystemTime, m_dwFileCounter>>
        BY <3>2 DEF Named, Rotating
      <3>5. nowTime[t] \in Nat /\ nowTime[t] <= now
        BY DEF Named, Types
      <3>6. m_LastSystemTime <= now /\ m_szLogFile[1] <= m_LastSystemTime
        BY Zenon DEF Named
      <3>7. pc'[t] = "reset" => m_LastSystemTime < now
        BY <1>1, <3>5, <3>9 DEF Stale
      <3>8. \A u \in Threads : pc'[u] = "reset" => m_LastSystemTime' < now'
        BY <2>1, <3>3, <3>7 DEF Rotating
      <3> QED
        BY <1>3, <2>1, <2>5, <3>3, <3>4, <3>6, <3>8, Zenon DEF Named
    <2> QED
      BY <2>3, <2>4
  <1>5. CASE ResetCounter(t)
    <2>1. /\ m_LastSystemTime' = m_LastSystemTime /\ m_szLogFile' = m_szLogFile /\ now' = now
          /\ pc[t] = "reset" /\ nowTime' = nowTime
      BY <1>5, Zenon DEF ResetCounter, Goto
    <2>2. pc'[t] = "start" /\ \A u \in Threads \ {t} : pc'[u] = pc[u]
      BY <1>5, Zenon DEF ResetCounter, Goto, Control
    <2>3. \A u \in Threads \ {t} : ~Rotating(u)
      BY <2>1 DEF Named, Rotating
    <2>4. \A u \in Threads : Rotating(u)' => u = t
      BY <2>2, <2>3, Zenon DEF Rotating
    <2>5. m_szLogFile[1] = m_LastSystemTime /\ m_LastSystemTime < now
      BY <1>2, <2>1, <2>3 DEF Named, Rotating
    <2>6. m_LastSystemTime <= now /\ m_szLogFile[1] <= m_LastSystemTime
      BY Zenon DEF Named
    <2>7. \A u \in Threads : pc'[u] # "reset"
      BY <2>2, <2>3 DEF Rotating
    <2> QED
      BY <1>3, <2>1, <2>2, <2>4, <2>5, <2>6, <2>7, Zenon DEF Named
  <1>6. CASE StartLogFile(t)
    <2>1. /\ m_LastSystemTime' = now /\ m_szLogFile' = m_szLogFile /\ now' = now
          /\ m_dwFileCounter' = m_dwFileCounter /\ pc[t] = "start" /\ nowTime' = nowTime
      BY <1>6, Zenon DEF StartLogFile, Goto
    <2>2. pc'[t] = "move" /\ \A u \in Threads \ {t} : pc'[u] = pc[u]
      BY <1>6, Zenon DEF StartLogFile, Goto, Control
    <2>3. \A u \in Threads \ {t} : ~Rotating(u)
      BY <2>1 DEF Named, Rotating
    <2>4. \A u \in Threads : Rotating(u)' => u = t
      BY <2>2, <2>3, Zenon DEF Rotating
    <2>5. \/ m_szLogFile = <<m_LastSystemTime, m_dwFileCounter>>
          \/ m_szLogFile[1] = m_LastSystemTime /\ m_LastSystemTime < now
      BY <2>1, <2>3 DEF Named, Rotating
    <2>6. m_LastSystemTime <= now /\ m_szLogFile[1] <= m_LastSystemTime
      BY Zenon DEF Named
    <2>7. \A u \in Threads : pc'[u] # "reset"
      BY <2>2, <2>3 DEF Rotating
    <2>8. m_szLogFile[2] = m_dwFileCounter \/ m_szLogFile[1] < now
      BY <1>2, <2>5
    <2>9. now <= now /\ m_szLogFile[1] <= now
      BY <1>1, <1>2, <2>6
    <2> QED
      BY <1>3, <2>1, <2>2, <2>4, <2>7, <2>8, <2>9, Zenon DEF Named
  <1> QED
    BY <1>4, <1>5, <1>6

(* The rest of StartLogFile: the file is moved, or not, and named.         *)
LEMMA NamesMove ==
    ASSUME Types, Control, Named, ini.max > 0, NEW t \in Threads, t # Main,
           Move(t) \/ MoveGivesUp(t)
    PROVE  Named'
  <1>1. m_LastSystemTime \in Nat /\ now \in Nat /\ m_dwFileCounter \in Nat
        /\ DOMAIN archive \subseteq Nat \X Nat
    BY DEF Types
  <1>2. PICK hour \in Nat, count \in Nat : m_szLogFile = <<hour, count>>
                                         /\ m_szLogFile[1] = hour /\ m_szLogFile[2] = count
    BY DEF Types
  <1>3. /\ NewLogFile(t) /\ pc[t] = "move" /\ now' = now /\ nowTime' = nowTime
    BY Zenon DEF Move, MoveGivesUp
  <1>4. /\ m_LastSystemTime' = m_LastSystemTime /\ m_dwFileCounter' = m_dwFileCounter + 1
        /\ m_szLogFile' = <<m_LastSystemTime, m_dwFileCounter + 1>>
    BY <1>3, Zenon DEF NewLogFile, BuildLogFileName
  <1>5. m_szLogFile'[1] = m_LastSystemTime /\ m_szLogFile'[2] = m_dwFileCounter + 1
    BY <1>4
  <1>6. pc'[t] = "header" /\ \A u \in Threads \ {t} : pc'[u] = pc[u]
    BY <1>3, Zenon DEF NewLogFile, Control
  <1>7. \A u \in Threads \ {t} : ~Rotating(u)
    BY <1>3 DEF Named, Rotating
  <1>8. \A u \in Threads : ~Rotating(u)'
    BY <1>6, <1>7 DEF Rotating
  <1>9. hour <= m_LastSystemTime /\ m_LastSystemTime <= now
    BY <1>2, Zenon DEF Named
  <1>10. hour < m_LastSystemTime \/ count = m_dwFileCounter
    BY <1>2, <1>3, <1>7 DEF Named, Rotating
  <1>11. Before(m_szLogFile, m_szLogFile')
    BY <1>1, <1>2, <1>5, <1>9, <1>10 DEF Before
  <1>12. \A name \in DOMAIN archive : Before(name, m_szLogFile')
    <2>1. ASSUME NEW name \in DOMAIN archive
          PROVE  Before(name, m_szLogFile')
      <3>1. name[1] \in Nat /\ name[2] \in Nat
        BY <1>1
      <3>2. name[1] < hour \/ (name[1] = hour /\ name[2] < count)
        BY <1>2 DEF Named, Before
      <3> QED
        BY <1>1, <1>5, <1>9, <1>10, <3>1, <3>2 DEF Before
    <2> QED
      BY <2>1
  <1>13. m_szLogFile \notin DOMAIN archive
    <2>1. ~Before(m_szLogFile, m_szLogFile)
      BY <1>2 DEF Before
    <2> QED
      BY <2>1, Zenon DEF Named
  <1>14. DOMAIN archive' \subseteq DOMAIN archive \cup {m_szLogFile} /\ overwritten' = overwritten
    <2>1. CASE Move(t)
      <3>1. DOMAIN archive' = DOMAIN archive \cup {m_szLogFile}
        BY <2>1, Zenon DEF Move
      <3>2. overwritten' = overwritten \cup {}
        BY <1>13, <2>1, Zenon DEF Move
      <3> QED
        BY <3>1, <3>2
    <2>2. CASE MoveGivesUp(t)
      BY <2>2 DEF MoveGivesUp, fileVars
    <2> QED
      BY <2>1, <2>2
  <1>15. overwritten' = {} /\ \A name \in DOMAIN archive' : Before(name, m_szLogFile')
    BY <1>11, <1>12, <1>14 DEF Named
  <1>16. m_LastSystemTime' <= now' /\ m_szLogFile'[1] <= m_LastSystemTime'
    BY <1>1, <1>3, <1>4, <1>5, <1>9
  <1>17. m_szLogFile' = <<m_LastSystemTime', m_dwFileCounter'>>
    BY <1>4, Zenon
  <1>18. \A u \in Threads : nowTime'[u] <= now'
    BY <1>3, Zenon DEF Named
  <1> QED
    BY <1>8, <1>15, <1>16, <1>17, <1>18 DEF Named, Rotating

LEMMA NamesStep ==
    ASSUME Types, Control, NamesInv, [Next]_vars
    PROVE  NamesInv'
  <1>1. SUFFICES ASSUME LimitFixed, stops' = 0, ~overlap'
                 PROVE  Named'
    BY Zenon DEF NamesInv
  <1>2. stops \in Nat /\ now \in Nat /\ \A x \in Nat : x <= x /\ x + 1 # 0 /\ ~(0 > 0)
    <2>1. \A x \in Nat : x <= x /\ x + 1 # 0 /\ ~(0 > 0)
      OBVIOUS
    <2> QED
      BY <2>1, Zenon DEF Types
  <1>3. ~Terminate /\ ~Crash
    BY <1>1, <1>2, Zenon DEF Terminate, Crash
  <1>4. stops = 0 /\ ~overlap
    <2>1. ASSUME NEW t \in Threads, DateCheck(t)
          PROVE  stops' = stops /\ (overlap => overlap')
      BY <2>1, DateCheckFrame, Zenon DEF bounds
    <2>3. Caught => stops' = stops /\ overlap' = overlap
      BY CaughtEffect, Zenon DEF Throws
    <2>2. stops' = stops /\ (overlap' = overlap \/ \E t \in Threads : DateCheck(t))
      BY <1>3, <2>1, <2>3, NextSteps, Zenon DEF vars, bounds, Tick, Log, QueueWait,
         QueueWrite, LoadLogErrorLevels, DateFlush, FinalFlush, Restart, Turn, ResetCounter,
         StartLogFile, Move, MoveFails, MoveGivesUp, Header, HeaderDone
    <2> QED
      BY <1>1, <2>1, <2>2
  <1>5. Named
    BY <1>1, <1>4, Zenon DEF NamesInv
  <1>6. pc[Main] \notin {"final", "start", "move", "down"}
    BY <1>2, <1>4, Zenon DEF Control
  <1>7. ini.max > 0
    BY <1>1 DEF Types, LimitFixed
  <1>8. CASE UNCHANGED vars
    <2>1. UNCHANGED nameVars /\ now' = now /\ pc' = pc /\ nowTime' = nowTime
      BY <1>8, Zenon DEF vars, nameVars, rotVars, fileVars
    <2> QED
      BY <1>2, <1>5, <2>1, NamesUnchanged, Zenon
  <1>9. CASE Tick
    <2>1. UNCHANGED nameVars /\ now' = now + 1 /\ pc' = pc /\ nowTime' = nowTime
      BY <1>9, Zenon DEF Tick, nameVars, rotVars, fileVars
    <2>2. now' \in Nat /\ now <= now'
      BY <1>2, <2>1
    <2> QED
      BY <1>5, <2>1, <2>2, NamesUnchanged, Zenon
  <1>10. CASE Log
    <2>1. UNCHANGED nameVars /\ now' = now /\ pc' = pc /\ nowTime' = nowTime
      BY <1>10, Zenon DEF Log, nameVars, rotVars, fileVars
    <2> QED
      BY <1>2, <1>5, <2>1, NamesUnchanged, Zenon
  <1>11. CASE QueueWait
    <2>1. UNCHANGED nameVars /\ now' = now /\ nowTime' = nowTime
      BY <1>11, Zenon DEF QueueWait, nameVars, rotVars, fileVars
    <2>2. \A u \in Threads : pc'[u] = pc[u] \/ (~Rotating(u) /\ ~Rotating(u)')
      BY <1>11 DEF QueueWait, Goto, Control, Rotating, Threads
    <2> QED
      BY <1>2, <1>5, <2>1, <2>2, NamesUnchanged, Zenon
  <1>12. CASE LoadLogErrorLevels
    <2>1. UNCHANGED nameVars /\ now' = now /\ nowTime' = nowTime
      BY <1>12, Zenon DEF LoadLogErrorLevels, nameVars, rotVars, fileVars
    <2>2. \A u \in Threads : pc'[u] = pc[u] \/ (~Rotating(u) /\ ~Rotating(u)')
      BY <1>12 DEF LoadLogErrorLevels, Goto, Control, Rotating, Threads
    <2> QED
      BY <1>2, <1>5, <2>1, <2>2, NamesUnchanged, Zenon
  <1>13. CASE Caught
    <2>1. PICK u \in Threads : Throws(u) /\ pc' = pc
      BY <1>13, CaughtEffect
    <2>2. PICK msg \in Seq(Lines) : WriteLogFileMsg(msg, FALSE)
      BY <2>1, ThrowsWrites, Zenon
    <2>3. archive' = archive /\ overwritten' = overwritten
      BY <2>2, WriteEffect
    <2>4. UNCHANGED nameVars /\ now' = now /\ nowTime' = nowTime
      BY <2>1, <2>3, Zenon DEF Throws, nameVars, rotVars
    <2> QED
      BY <1>2, <1>5, <2>1, <2>4, NamesUnchanged, Zenon
  <1>14. CASE QueueWrite
    <2>1. PICK msg \in Seq(Lines), bWriteNow \in BOOLEAN : WriteLogFileMsg(msg, bWriteNow)
      BY <1>14, StrType, EmptySeq, Zenon DEF QueueWrite
    <2>2. archive' = archive /\ overwritten' = overwritten
      BY <2>1, WriteEffect
    <2>3. UNCHANGED nameVars /\ now' = now /\ nowTime' = nowTime
      BY <1>14, <2>2, Zenon DEF QueueWrite, nameVars, rotVars
    <2>4. \A u \in Threads : pc'[u] = pc[u] \/ (~Rotating(u) /\ ~Rotating(u)')
      BY <1>14 DEF QueueWrite, Goto, Control, Rotating, Threads
    <2> QED
      BY <1>2, <1>5, <2>3, <2>4, NamesUnchanged, Zenon
  <1>15. CASE DateFlush
    <2>1. PICK msg \in Seq(Lines), bWriteNow \in BOOLEAN : WriteLogFileMsg(msg, bWriteNow)
      BY <1>15, StrType, EmptySeq, Zenon DEF DateFlush
    <2>2. archive' = archive /\ overwritten' = overwritten
      BY <2>1, WriteEffect
    <2>3. UNCHANGED nameVars /\ now' = now /\ nowTime' = nowTime
      BY <1>15, <2>2, Zenon DEF DateFlush, nameVars, rotVars
    <2>4. \A u \in Threads : pc'[u] = pc[u] \/ (~Rotating(u) /\ ~Rotating(u)')
      BY <1>15 DEF DateFlush, Goto, Control, Rotating, Threads
    <2> QED
      BY <1>2, <1>5, <2>3, <2>4, NamesUnchanged, Zenon
  <1>16. CASE FinalFlush \/ Restart
    BY <1>16, <1>6, Zenon DEF FinalFlush, Restart, Goto
  <1>17. ASSUME NEW t \in Threads, DateCheck(t) \/ ResetCounter(t) \/ StartLogFile(t)
        PROVE  Named'
    BY <1>17, <1>1, <1>5, NamesRotate, Zenon
  <1>18. ASSUME NEW t \in Threads, Move(t) \/ MoveGivesUp(t)
        PROVE  Named'
    <2>1. t # Main
      BY <1>18, <1>6, Zenon DEF Move, MoveGivesUp
    <2> QED
      BY <1>18, <1>5, <1>7, <2>1, NamesMove, Zenon
  <1>19. ASSUME NEW t \in Threads, MoveFails(t)
        PROVE  Named'
    <2>1. UNCHANGED nameVars /\ now' = now /\ pc' = pc /\ nowTime' = nowTime
      BY <1>19, Zenon DEF MoveFails, nameVars, rotVars, fileVars
    <2> QED
      BY <1>2, <1>5, <2>1, NamesUnchanged, Zenon
  <1>20. ASSUME NEW t \in Threads, Header(t)
        PROVE  Named'
    <2>1. UNCHANGED nameVars /\ now' = now /\ pc' = pc /\ nowTime' = nowTime
      BY <1>20, Zenon DEF Header, nameVars, rotVars, fileVars
    <2> QED
      BY <1>2, <1>5, <2>1, NamesUnchanged, Zenon
  <1>21. ASSUME NEW t \in Threads, HeaderDone(t)
        PROVE  Named'
    <2>1. UNCHANGED nameVars /\ now' = now /\ nowTime' = nowTime
      BY <1>21, Zenon DEF HeaderDone, nameVars, rotVars, fileVars
    <2>2. \A u \in Threads : pc'[u] = pc[u] \/ (~Rotating(u) /\ ~Rotating(u)')
      BY <1>21, ThreadsApart DEF HeaderDone, Goto, AfterCheck, Control, Rotating, Threads
    <2> QED
      BY <1>2, <1>5, <2>1, <2>2, NamesUnchanged, Zenon
  <1> QED
    BY <1>3, <1>8, <1>9, <1>10, <1>11, <1>12, <1>13, <1>14, <1>15, <1>16, <1>17, <1>18, <1>19, <1>20, <1>21, NextSteps, Zenon DEF Turn

-----------------------------------------------------------------------------
(* The buffer.                                                             *)

LEMMA BufferUnchanged ==
    ASSUME UNCHANGED bufVars
    PROVE  Stuck' = Stuck /\ (BufferInv /\ badOpens' = badOpens => BufferInv')
  BY DEF bufVars, Stuck, BufferInv

(* WriteLogFileMsg leaves no more than FlushAbove bytes, unless it finds or*)
(* leaves the buffer stuck; what goes to the file was in the buffer or in  *)
(* msg.                                                                    *)
LEMMA BufferWrite ==
    ASSUME Types, BufferInv, NEW msg \in Seq(Lines), NEW bWriteNow,
           WriteLogFileMsg(msg, bWriteNow)
    PROVE  BufferInv' /\ Coming' <= Coming + Bytes(msg)
  <1>1. PICK old \in Seq(Lines), file \in Seq(Lines) : old = m_szOutBuffer /\ file = temp
    BY DEF Types
  <1>2. PICK buf \in Seq(Lines) : buf = old \o msg
    BY ConcatProperties
  <1>3. PICK k \in Nat, m \in Nat, f \in Nat, count \in Nat :
            /\ k = Bytes(old) /\ m = Bytes(msg) /\ f = Bytes(file) /\ count = m_dwTotalWriteBytes
    BY BytesType DEF Types
  <1> k \in Nat /\ m \in Nat /\ f \in Nat /\ count \in Nat
    BY <1>3, Zenon
  <1>4. Bytes(buf) = k + m
    BY <1>2, <1>3, BytesConcat
  <1>5. PICK isNul \in BOOLEAN : isNul <=> (nul /\ (msg = <<>> \/ count > 0))
    BY Zenon
  <1>6. /\ \/ ~isNul /\ WriteAll(buf)
           \/ ~isNul /\ WritePart(buf)
           \/ ~isNul /\ WriteNone(buf, count + m)
           \/ /\ isNul \/ ~(count + m > FlushAbove)
              /\ m_szOutBuffer' = buf /\ m_dwTotalWriteBytes' = count + m /\ nul' = isNul
              /\ UNCHANGED <<m_dwTotalBytesWritten, fileVars, gone, ioFails, badOpens>>
    <2>1. isNul = (nul /\ (msg = <<>> \/ count > 0))
      BY <1>5
    <2> QED
      BY <1>1, <1>2, <1>3, <2>1 DEF WriteLogFileMsg
  <1>7. Stuck <=> nul /\ count > 0
    BY <1>3 DEF Stuck
  <1>8. ~Stuck => count = k /\ count <= FlushAbove /\ (nul <=> old = <<>>)
    BY <1>1, <1>3, Zenon DEF BufferInv
  <1>9. badOpens \in Nat /\ (badOpens = 0 => ~Stuck)
    BY DEF BufferInv, Types
  <1>10. (~Stuck => Coming = f + k) /\ (Stuck => Coming = f + 0)
    BY <1>1, <1>3, Zenon DEF Coming
  <1>11. (old = <<>> <=> k = 0) /\ (msg = <<>> <=> m = 0)
    BY <1>3, BytesPositive, BytesEmpty
  <1>12. buf = <<>> <=> k + m = 0
    BY <1>4, BytesPositive, BytesEmpty
  <1>13. FlushAbove \in Nat
    BY LoggingAssumption
  <1>14. ~isNul => ~Stuck /\ k + m > 0
    <2>1. (count > 0 <=> count # 0) /\ (k + m > 0 <=> ~(k = 0 /\ m = 0))
      OBVIOUS
    <2> QED
      BY <1>5, <1>7, <1>8, <1>11, <2>1, Zenon
  <1>15. CASE ~isNul /\ (WriteAll(buf) \/ WritePart(buf))
    <2>1. Flushed(buf) /\ badOpens' = badOpens
      BY <1>15, FlushEffect
    <2>2. PICK done \in Seq(Lines), lost \in Seq(Lines) :
            /\ buf = done \o lost /\ temp' = temp \o done
            /\ m_szOutBuffer' = <<>> /\ m_dwTotalWriteBytes' = 0 /\ nul' = TRUE
      BY <2>1, Zenon DEF Flushed
    <2>3. PICK x \in Nat, y \in Nat : x = Bytes(done) /\ y = Bytes(lost)
      BY BytesType
    <2>4. Bytes(buf) = x + y
      BY <2>2, <2>3, BytesConcat
    <2>5. Bytes(temp') = f + x
      BY <1>1, <1>3, <2>2, <2>3, BytesConcat
    <2>6. ~Stuck' /\ Bytes(m_szOutBuffer') = 0
      BY <2>2, BytesEmpty DEF Stuck
    <2>7. Coming' = f + x + 0
      <3>1. Coming' = Bytes(temp') + 0
        BY <2>6, Zenon DEF Coming
      <3> QED
        BY <2>3, <2>5, <3>1
    <2>8. Coming' <= Coming + m
      <3>1. Coming = f + k
        BY <1>10, <1>14, <1>15, Zenon
      <3>2. x \in Nat /\ y \in Nat /\ k + m = x + y
        BY <1>4, <2>3, <2>4, Zenon
      <3>3. f + x + 0 <= f + k + m
        BY <3>2
      <3> QED
        BY <2>7, <3>1, <3>3, Zenon
    <2>9. BufferInv'
      <3>1. 0 <= FlushAbove
        BY <1>13
      <3> QED
        BY <2>2, <2>6, <3>1 DEF BufferInv
    <2> QED
      BY <1>3, <2>8, <2>9
  <1>16. CASE ~isNul /\ WriteNone(buf, count + m)
    <2>1. m_szOutBuffer' = buf /\ m_dwTotalWriteBytes' = count + m /\ nul' = TRUE
          /\ temp' = temp /\ badOpens' = badOpens + 1
      BY <1>16 DEF WriteNone, fileVars
    <2>2. Stuck'
      BY <1>3, <1>8, <1>14, <1>16, <2>1 DEF Stuck
    <2>3. Coming' = f + 0
      BY <1>1, <1>3, <2>1, <2>2, Zenon DEF Coming
    <2>4. Coming' <= Coming + m
      <3>1. Coming = f + k
        BY <1>10, <1>14, <1>16, Zenon
      <3>2. f + 0 <= f + k + m
        OBVIOUS
      <3> QED
        BY <2>3, <3>1, <3>2, Zenon
    <2>5. badOpens' # 0
      BY <1>9, <2>1
    <2>6. BufferInv'
      BY <2>2, <2>5 DEF BufferInv
    <2> QED
      BY <1>3, <2>4, <2>6
  <1>17. CASE /\ isNul \/ ~(count + m > FlushAbove)
              /\ m_szOutBuffer' = buf /\ m_dwTotalWriteBytes' = count + m /\ nul' = isNul
              /\ UNCHANGED <<m_dwTotalBytesWritten, fileVars, gone, ioFails, badOpens>>
    <2>1. m_szOutBuffer' = buf /\ m_dwTotalWriteBytes' = count + m /\ (nul' <=> isNul)
          /\ temp' = temp /\ badOpens' = badOpens
      BY <1>17 DEF fileVars
    <2>2. Stuck' <=> isNul /\ count + m > 0
      BY <2>1 DEF Stuck
    <2>3. Stuck' <=> Stuck
      <3>1. (count > 0 <=> count # 0) /\ (count + m > 0 <=> ~(count = 0 /\ m = 0))
        OBVIOUS
      <3> QED
        BY <1>5, <1>7, <1>8, <1>11, <2>2, <3>1, Zenon
    <2>4. Bytes(temp') = f /\ Bytes(m_szOutBuffer') = k + m
      BY <1>1, <1>3, <1>4, <2>1, Zenon
    <2>5. Coming' <= Coming + m
      <3>1. CASE Stuck
        <4>1. Coming' = f + 0
          BY <2>3, <2>4, <3>1, Zenon DEF Coming
        <4>2. f + 0 <= f + 0 + m
          OBVIOUS
        <4> QED
          BY <1>10, <3>1, <4>1, <4>2, Zenon
      <3>2. CASE ~Stuck
        <4>1. Coming' = f + (k + m)
          BY <2>3, <2>4, <3>2, Zenon DEF Coming
        <4>2. f + (k + m) <= f + k + m
          OBVIOUS
        <4> QED
          BY <1>10, <3>2, <4>1, <4>2, Zenon
      <3> QED
        BY <3>1, <3>2
    <2>6. ~Stuck => /\ count + m = k + m /\ count + m <= FlushAbove
                    /\ isNul <=> k + m = 0
      <3>1. /\ count > 0 <=> count # 0
            /\ k + m = 0 <=> (k = 0 /\ m = 0)
            /\ count = k => count + m = k + m
            /\ ~(count + m > FlushAbove) <=> count + m <= FlushAbove
            /\ m = 0 => count + m = count
        BY <1>13
      <3> QED
        BY <1>5, <1>7, <1>8, <1>11, <1>17, <3>1, Zenon
    <2>7. BufferInv'
      <3>1. Bytes(m_szOutBuffer') = k + m
        BY <1>4, <2>1, Zenon
      <3>2. ~Stuck' => /\ m_dwTotalWriteBytes' = Bytes(m_szOutBuffer')
                       /\ m_dwTotalWriteBytes' <= FlushAbove
                       /\ nul' <=> m_szOutBuffer' = <<>>
        BY <1>12, <2>1, <2>3, <2>6, <3>1
      <3>3. badOpens' = 0 => ~Stuck'
        BY <1>9, <2>1, <2>3
      <3> QED
        BY <3>2, <3>3, Zenon DEF BufferInv
    <2> QED
      BY <1>3, <2>5, <2>7
  <1> QED
    BY <1>6, <1>15, <1>16, <1>17

LEMMA WriteSteps ==
    ASSUME Types, Caught \/ QueueWrite \/ DateFlush \/ FinalFlush
    PROVE  \E msg \in Seq(Lines), bWriteNow \in BOOLEAN : WriteLogFileMsg(msg, bWriteNow)
  <1>1. CASE Caught
    <2>1. PICK t \in Threads : Throws(t)
      BY <1>1, CaughtEffect
    <2>2. FALSE \in BOOLEAN
      OBVIOUS
    <2> QED
      BY <2>1, <2>2, ThrowsWrites, Zenon
  <1>2. CASE QueueWrite
    BY <1>2, StrType, Zenon DEF QueueWrite
  <1>3. CASE DateFlush \/ FinalFlush
    BY <1>3, EmptySeq, Zenon DEF DateFlush, FinalFlush
  <1> QED
    BY <1>1, <1>2, <1>3

(* The other steps leave the buffer alone, the next start apart.           *)
LEMMA OtherSteps ==
    ASSUME [Next]_vars, ~(Caught \/ QueueWrite \/ DateFlush \/ FinalFlush), ~Restart
    PROVE  UNCHANGED bufVars /\ badOpens' = badOpens
  BY NextSteps, DateCheckFrame, Zenon DEF vars, bounds, Tick, Log, QueueWait,
     LoadLogErrorLevels, Terminate, Crash, Turn, ResetCounter, StartLogFile, Move, MoveFails,
     MoveGivesUp, Header, HeaderDone

LEMMA BufferStep ==
    ASSUME Types, BufferInv, [Next]_vars
    PROVE  BufferInv'
  <1>1. CASE Caught \/ QueueWrite \/ DateFlush \/ FinalFlush
    <2>1. PICK msg \in Seq(Lines), bWriteNow \in BOOLEAN : WriteLogFileMsg(msg, bWriteNow)
      BY <1>1, WriteSteps
    <2> QED
      BY <2>1, BufferWrite
  <1>2. CASE Restart
    <2>1. m_szOutBuffer' = <<>> /\ m_dwTotalWriteBytes' = 0 /\ nul' = TRUE
      BY <1>2, Zenon DEF Restart, EmptyBuffer
    <2>2. ~Stuck'
      BY <2>1 DEF Stuck
    <2>3. 0 <= FlushAbove
      BY LoggingAssumption
    <2> QED
      BY <2>1, <2>2, <2>3, BytesEmpty, Zenon DEF BufferInv
  <1>3. CASE ~(Caught \/ QueueWrite \/ DateFlush \/ FinalFlush) /\ ~Restart
    BY <1>3, OtherSteps, BufferUnchanged, Zenon
  <1> QED
    BY <1>1, <1>2, <1>3

-----------------------------------------------------------------------------
(* The count of the file's bytes.                                          *)

LEMMA MoveUnchanged ==
    ASSUME MoveInv, UNCHANGED <<temp, exists, m_dwTotalBytesWritten, uncounted, missed>>,
           ioFails \in Nat, ioFails' \in Nat, ioFails' >= ioFails, left \in [Threads -> Nat],
           \A t \in Threads : pc'[t] = "move" => pc[t] = "move" /\ left'[t] = left[t]
    PROVE  MoveInv'
  <1>1. maxRetries \in Nat
    BY LoggingAssumption
  <1>2. ~exists' => temp' = <<>>
    BY DEF MoveInv
  <1>3. ASSUME NEW t \in Threads, pc'[t] = "move" /\ exists'
        PROVE  left'[t] + ioFails' >= maxRetries
    <2>1. pc[t] = "move" /\ exists /\ left'[t] = left[t]
      BY <1>3
    <2>2. left[t] + ioFails >= maxRetries
      BY <2>1 DEF MoveInv
    <2>3. PICK k \in Nat : k = left[t] /\ k = left'[t]
      BY <2>1
    <2> QED
      BY <1>1, <2>2, <2>3
  <1>4. ioFails' < maxRetries => ioFails < maxRetries
    BY <1>1
  <1>5. ioFails' < maxRetries => m_dwTotalBytesWritten' + uncounted' = Bytes(temp')
    BY <1>4, Zenon DEF MoveInv
  <1>6. uncounted' <= missed'
    BY Zenon DEF MoveInv
  <1> QED
    BY <1>2, <1>3, <1>5, <1>6, Zenon DEF MoveInv

LEMMA MoveWrite ==
    ASSUME Types, Control, MoveInv, NEW msg \in Seq(Lines), NEW bWriteNow,
           WriteLogFileMsg(msg, bWriteNow),
           \A t \in Threads : pc'[t] = "move" => pc[t] = "move"
    PROVE  MoveInv'
  <1>1. maxRetries \in Nat /\ ioFails \in Nat /\ temp \in Seq(Lines)
    BY LoggingAssumption DEF Types
  <1>2. /\ mutex = "free" /\ ioFails' \in Nat /\ ioFails' >= ioFails
        /\ Kept(m_szOutBuffer \o msg) \/ Flushed(m_szOutBuffer \o msg)
        /\ uncounted' = uncounted /\ missed' = missed
    BY WriteEffect
  <1>3. \A t \in Threads : pc'[t] # "move"
    BY <1>2, ThreadsApart DEF Control, Threads
  <1>4. ~exists' => temp' = <<>>
    <2>1. (exists' = exists /\ temp' = temp) \/ exists'
      BY <1>2 DEF Kept, Flushed
    <2> QED
      BY <2>1 DEF MoveInv
  <1>5. ASSUME ioFails' < maxRetries
        PROVE  m_dwTotalBytesWritten' + uncounted' = Bytes(temp')
    <2>1. ioFails < maxRetries
      BY <1>1, <1>2, <1>5
    <2>2. m_dwTotalBytesWritten + uncounted = Bytes(temp)
      BY <2>1, Zenon DEF MoveInv
    <2>3. CASE Kept(m_szOutBuffer \o msg)
      BY <1>2, <2>2, <2>3, Zenon DEF Kept
    <2>4. CASE Flushed(m_szOutBuffer \o msg)
      <3>1. PICK done \in Seq(Lines) :
              /\ temp' = temp \o done
              /\ m_dwTotalBytesWritten' = m_dwTotalBytesWritten + Bytes(done)
        BY <2>4, Zenon DEF Flushed
      <3>2. Bytes(temp \o done) = Bytes(temp) + Bytes(done)
        BY <1>1, BytesConcat
      <3>3. PICK a \in Nat, b \in Nat, c \in Nat :
              a = m_dwTotalBytesWritten /\ b = uncounted /\ c = Bytes(done)
        BY BytesType DEF Types
      <3>4. a + c + b = a + b + c
        OBVIOUS
      <3> QED
        BY <1>2, <2>2, <3>1, <3>2, <3>3, <3>4, Zenon
    <2> QED
      BY <1>2, <2>3, <2>4
  <1>6. uncounted' <= missed'
    BY <1>2, Zenon DEF MoveInv
  <1> QED
    BY <1>3, <1>4, <1>5, <1>6, Zenon DEF MoveInv

LEMMA MoveStep ==
    ASSUME Types, Control, MoveInv, [Next]_vars
    PROVE  MoveInv'
  <1>1. /\ ioFails \in Nat /\ maxRetries \in Nat /\ temp \in Seq(Lines)
        /\ left \in [Threads -> Nat] /\ \A x \in Nat : x >= x
    <2>1. \A x \in Nat : x >= x
      OBVIOUS
    <2>2. maxRetries \in Nat
      BY LoggingAssumption
    <2> QED
      BY <2>1, <2>2, Zenon DEF Types
  <1>2. CASE UNCHANGED vars
    <2>1. UNCHANGED <<temp, exists, m_dwTotalBytesWritten, uncounted, missed>> /\ ioFails' = ioFails
          /\ pc' = pc /\ left' = left
      BY <1>2, Zenon DEF vars, fileVars, bounds
    <2> QED
      BY <1>1, <2>1, MoveUnchanged, Zenon
  <1>3. CASE Tick
    <2>1. UNCHANGED <<temp, exists, m_dwTotalBytesWritten, uncounted, missed>> /\ ioFails' = ioFails
          /\ pc' = pc /\ left' = left
      BY <1>3, Zenon DEF Tick, fileVars, bounds
    <2> QED
      BY <1>1, <2>1, MoveUnchanged, Zenon
  <1>4. CASE Log
    <2>1. UNCHANGED <<temp, exists, m_dwTotalBytesWritten, uncounted, missed>> /\ ioFails' = ioFails
          /\ pc' = pc /\ left' = left
      BY <1>4, Zenon DEF Log, fileVars, bounds
    <2> QED
      BY <1>1, <2>1, MoveUnchanged, Zenon
  <1>5. CASE QueueWait
    <2>1. UNCHANGED <<temp, exists, m_dwTotalBytesWritten, uncounted, missed>> /\ ioFails' = ioFails
          /\ left' = left
      BY <1>5, Zenon DEF QueueWait, fileVars, bounds
    <2>2. \A t \in Threads : pc'[t] = "move" => pc[t] = "move"
      BY <1>5 DEF QueueWait, Goto, Control
    <2> QED
      BY <1>1, <2>1, <2>2, MoveUnchanged, Zenon
  <1>6. CASE LoadLogErrorLevels
    <2>1. UNCHANGED <<temp, exists, m_dwTotalBytesWritten, uncounted, missed>> /\ ioFails' = ioFails
          /\ left' = left
      BY <1>6, Zenon DEF LoadLogErrorLevels, fileVars, bounds
    <2>2. \A t \in Threads : pc'[t] = "move" => pc[t] = "move"
      BY <1>6 DEF LoadLogErrorLevels, Goto, Control
    <2> QED
      BY <1>1, <2>1, <2>2, MoveUnchanged, Zenon
  <1>7. CASE Terminate
    <2>1. UNCHANGED <<temp, exists, m_dwTotalBytesWritten, uncounted, missed>> /\ ioFails' = ioFails
          /\ left' = left
      BY <1>7, Zenon DEF Terminate, fileVars, bounds
    <2>2. \A t \in Threads : pc'[t] = "move" => pc[t] = "move"
      BY <1>7 DEF Terminate, Goto, Control
    <2> QED
      BY <1>1, <2>1, <2>2, MoveUnchanged, Zenon
  <1>8. CASE Crash
    <2>1. UNCHANGED <<temp, exists, m_dwTotalBytesWritten, uncounted, missed>> /\ ioFails' = ioFails
          /\ left' = left
      BY <1>8, Zenon DEF Crash, fileVars, bounds
    <2>2. \A t \in Threads : pc'[t] = "move" => pc[t] = "move"
      BY <1>8 DEF Crash, Goto, Control
    <2> QED
      BY <1>1, <2>1, <2>2, MoveUnchanged, Zenon
  <1>9. CASE Caught \/ QueueWrite \/ DateFlush \/ FinalFlush
    <2>1. PICK msg \in Seq(Lines), bWriteNow \in BOOLEAN : WriteLogFileMsg(msg, bWriteNow)
      BY <1>9, WriteSteps
    <2>2. \A t \in Threads : pc'[t] = "move" => pc[t] = "move"
      BY <1>9, CaughtEffect DEF QueueWrite, DateFlush, FinalFlush, Goto, Control
    <2> QED
      BY <2>1, <2>2, MoveWrite, Zenon
  <1>10. CASE Restart
    <2>1. PICK bytes \in Nat : bytes = Bytes(temp)
      BY <1>1, BytesType
    <2>2. /\ temp' = temp /\ (exists' = TRUE \/ exists' = exists)
          /\ \/ m_dwTotalBytesWritten' = bytes /\ uncounted' = 0 /\ missed' = missed
             \/ m_dwTotalBytesWritten' = 0 /\ uncounted' = bytes /\ missed' = bytes
      <3>1. temp' = temp /\ GetCurrentLogFileSize
        BY <1>10, Zenon DEF Restart
      <3>2. exists' = TRUE \/ exists' = exists
        BY <3>1 DEF GetCurrentLogFileSize
      <3> QED
        BY <2>1, <3>1, <3>2, Zenon DEF GetCurrentLogFileSize
    <2>3. \A t \in Threads : pc'[t] # "move"
      BY <1>10 DEF Restart, Control, Threads
    <2>4. m_dwTotalBytesWritten' + uncounted' = bytes /\ uncounted' <= missed'
      <3>1. missed \in Nat
        BY DEF Types
      <3> QED
        BY <2>2, <3>1
    <2>5. ~exists' => temp' = <<>>
      BY <2>2 DEF MoveInv
    <2> QED
      BY <2>1, <2>2, <2>3, <2>4, <2>5, Zenon DEF MoveInv
  <1>11. ASSUME NEW t \in Threads, DateCheck(t)
        PROVE  MoveInv'
    <2>1. UNCHANGED <<temp, exists, m_dwTotalBytesWritten, uncounted, missed>> /\ ioFails' = ioFails
          /\ left' = left
      BY <1>11, DateCheckFrame, Zenon DEF fileVars, bounds
    <2>2. \A u \in Threads : pc'[u] = "move" => pc[u] = "move"
      <3>1. /\ \A u \in Threads \ {t} : pc'[u] = pc[u]
            /\ pc'[t] \in {"day", "hour", "size", "reset", "start", AfterCheck(t)}
        BY <1>11, DateCheckEffect
      <3>2. pc'[t] # "move"
        BY <3>1 DEF AfterCheck
      <3> QED
        BY <3>1, <3>2, Zenon
    <2> QED
      BY <1>1, <2>1, <2>2, MoveUnchanged, Zenon
  <1>12. ASSUME NEW t \in Threads, ResetCounter(t)
        PROVE  MoveInv'
    <2>1. UNCHANGED <<temp, exists, m_dwTotalBytesWritten, uncounted, missed>> /\ ioFails' = ioFails
          /\ left' = left
      BY <1>12, Zenon DEF ResetCounter, fileVars, bounds
    <2>2. \A u \in Threads : pc'[u] = "move" => pc[u] = "move"
      BY <1>12 DEF ResetCounter, Goto, AfterCheck, Control, Threads
    <2> QED
      BY <1>1, <2>1, <2>2, MoveUnchanged, Zenon
  <1>13. ASSUME NEW t \in Threads, HeaderDone(t)
        PROVE  MoveInv'
    <2>1. UNCHANGED <<temp, exists, m_dwTotalBytesWritten, uncounted, missed>> /\ ioFails' = ioFails
          /\ left' = left
      BY <1>13, Zenon DEF HeaderDone, fileVars, bounds
    <2>2. \A u \in Threads : pc'[u] = "move" => pc[u] = "move"
      BY <1>13 DEF HeaderDone, Goto, AfterCheck, Control, Threads
    <2> QED
      BY <1>1, <2>1, <2>2, MoveUnchanged, Zenon
  <1>14. ASSUME NEW t \in Threads, StartLogFile(t)
        PROVE  MoveInv'
    <2>1. UNCHANGED <<temp, exists, m_dwTotalBytesWritten, uncounted, missed, ioFails>>
          /\ left' = [left EXCEPT ![t] = maxRetries]
      BY <1>14, Zenon DEF StartLogFile, fileVars, bounds
    <2>2. \A u \in Threads : pc'[u] = "move" => u = t
      BY <1>14, ThreadsApart DEF StartLogFile, Goto, Control, Threads
    <2>3. left'[t] + ioFails' >= maxRetries
      <3>1. left'[t] = maxRetries /\ ioFails' = ioFails
        BY <1>1, <2>1
      <3> QED
        BY <1>1, <3>1
    <2> QED
      BY <2>1, <2>2, <2>3, Zenon DEF MoveInv
  <1>15. ASSUME NEW t \in Threads, MoveFails(t)
        PROVE  MoveInv'
    <2>1. /\ UNCHANGED <<temp, exists, m_dwTotalBytesWritten, uncounted, missed>>
          /\ pc' = pc /\ pc[t] = "move"
          /\ left' = [left EXCEPT ![t] = @ - 1] /\ left[t] > 0
          /\ ioFails' = ioFails \/ ioFails' = ioFails + 1
          /\ exists => ioFails' = ioFails + 1
      BY <1>15, Zenon DEF MoveFails, fileVars, Fail
    <2>2. \A u \in Threads : pc[u] = "move" => u = t
      BY <2>1, Zenon DEF Control
    <2>3. ASSUME exists
          PROVE  left'[t] + ioFails' >= maxRetries
      <3>1. left[t] + ioFails >= maxRetries
        BY <2>1, <2>3, Zenon DEF MoveInv
      <3>2. PICK k \in Nat : k = left[t]
        BY <1>1
      <3>3. left'[t] = k - 1 /\ ioFails' = ioFails + 1
        BY <1>1, <2>1, <2>3, <3>2
      <3> QED
        BY <1>1, <3>1, <3>2, <3>3
    <2>4. ioFails' < maxRetries => ioFails < maxRetries
      BY <1>1, <2>1
    <2> QED
      BY <2>1, <2>2, <2>3, <2>4, Zenon DEF MoveInv
  <1>16. ASSUME NEW t \in Threads, Header(t)
        PROVE  MoveInv'
    <2>1. UNCHANGED <<temp, exists, m_dwTotalBytesWritten, uncounted, missed>> /\ ioFails' = ioFails
          /\ pc' = pc /\ pc[t] = "header"
      BY <1>16, Zenon DEF Header, fileVars, bounds
    <2>2. \A u \in Threads : u # t => left'[u] = left[u]
      BY <1>1, <1>16 DEF Header
    <2>3. "header" # "move"
      OBVIOUS
    <2> QED
      BY <1>1, <2>1, <2>2, <2>3, MoveUnchanged, Zenon
  <1>17. ASSUME NEW t \in Threads, Move(t) \/ MoveGivesUp(t)
        PROVE  MoveInv'
    <2>1. m_dwTotalBytesWritten' = 0 /\ ioFails' = ioFails /\ pc[t] = "move" /\ NewLogFile(t)
      BY <1>17, Zenon DEF Move, MoveGivesUp, NewLogFile, bounds
    <2>2. \A u \in Threads : pc'[u] # "move"
      BY <2>1 DEF NewLogFile, Control
    <2>3. CASE Move(t)
      <3>1. temp' = <<>> /\ uncounted' = 0 /\ missed' = 0
        BY <2>3, Zenon DEF Move
      <3>2. 0 + 0 = 0 /\ 0 <= 0
        OBVIOUS
      <3> QED
        BY <2>1, <2>2, <3>1, <3>2, BytesEmpty, Zenon DEF MoveInv
    <2>4. CASE MoveGivesUp(t)
      <3>1. left[t] = 0 /\ exists' = exists /\ temp' = temp /\ uncounted' = uncounted
            /\ missed' = missed
        BY <2>4 DEF MoveGivesUp, fileVars
      <3>2. exists => ioFails >= maxRetries
        <4>1. exists => 0 + ioFails >= maxRetries
          BY <2>1, <3>1, Zenon DEF MoveInv
        <4> QED
          BY <1>1, <4>1
      <3>3. ioFails >= maxRetries <=> ~(ioFails < maxRetries)
        BY <1>1
      <3>4. ioFails < maxRetries => temp = <<>> /\ 0 + uncounted = 0
        <4>1. SUFFICES ASSUME ioFails < maxRetries
                       PROVE  temp = <<>> /\ 0 + uncounted = 0
          OBVIOUS
        <4>2. temp = <<>> /\ m_dwTotalBytesWritten + uncounted = 0
          BY <3>2, <3>3, <4>1, BytesEmpty, Zenon DEF MoveInv
        <4>3. m_dwTotalBytesWritten \in Nat /\ uncounted \in Nat
          BY DEF Types
        <4> QED
          BY <4>2, <4>3
      <3>5. uncounted' <= missed'
        BY <3>1, Zenon DEF MoveInv
      <3> QED
        BY <2>1, <2>2, <3>1, <3>2, <3>3, <3>4, <3>5, BytesEmpty, Zenon DEF MoveInv
    <2> QED
      BY <1>17, <2>3, <2>4
  <1> QED
    BY <1>2, <1>3, <1>4, <1>5, <1>6, <1>7, <1>8, <1>9, <1>10, <1>11, <1>12, <1>13, <1>14, <1>15, <1>16, <1>17, NextSteps, Zenon DEF Turn

-----------------------------------------------------------------------------
(* The size of the file.                                                   *)

LEMMA MaxSize ==
    Max(Sizes) \in Nat /\ \A size \in Sizes : size \in Nat /\ size <= Max(Sizes)
  <1>1. PICK max \in Sizes : \A size \in Sizes : size <= max
    BY LoggingAssumption
  <1>2. Sizes \subseteq Nat
    BY LoggingAssumption
  <1>3. \A size \in Sizes : max >= size
    BY <1>1, <1>2
  <1>4. Max(Sizes) \in Sizes /\ \A size \in Sizes : Max(Sizes) >= size
    BY <1>3, Zenon DEF Max
  <1> QED
    BY <1>2, <1>4

LEMMA OneMore ==
    \A a, b \in Nat : a * b \in Nat /\ (1 + a) * b = a * b + b /\ (a + 1) * b = a * b + b
  OBVIOUS

(* A limit of max with k lines more than the check saw; what SizeInv says  *)
(* of a file that will hold `coming' bytes.                                *)
Limit(max, k) == max + FlushAbove + k * Max(Sizes)

Sized(max, coming, k, at) ==
    /\ coming < Limit(max, 1 + k)
    /\ at \in {"write", "header"} => coming < Limit(max, k)

LEMMA LimitType ==
    ASSUME NEW l \in Nat \ {0}, NEW k \in Nat
    PROVE  /\ Limit(l, k) \in Nat /\ FlushAbove \in Nat /\ Limit(l, k) >= l + FlushAbove
           /\ Limit(l, 1 + k) = Limit(l, k) + Max(Sizes)
           /\ Limit(l, k + 1) = Limit(l, k) + Max(Sizes)
  <1>1. PICK m \in Nat, f \in Nat : m = Max(Sizes) /\ f = FlushAbove
    BY MaxSize, LoggingAssumption
  <1>2. PICK p \in Nat : p = k * m /\ (1 + k) * m = p + m /\ (k + 1) * m = p + m
    BY OneMore
  <1>3. /\ Limit(l, k) = l + f + p /\ Limit(l, 1 + k) = l + f + (p + m)
        /\ Limit(l, k + 1) = l + f + (p + m)
    BY <1>1, <1>2, Zenon DEF Limit
  <1>4. l + f + p \in Nat /\ l + f + p >= l + f /\ l + f + (p + m) = l + f + p + m
    OBVIOUS
  <1> QED
    BY <1>1, <1>3, <1>4, Zenon

(* A file that gets no larger, a line more, and a file below the limit.    *)
LEMMA SizedMoves ==
    ASSUME NEW l \in Nat \ {0}, NEW k \in Nat, NEW c \in Nat, NEW c1 \in Nat, NEW at, NEW at1
    PROVE  /\ /\ Sized(l, c, k, at) /\ c1 <= c
              /\ at1 \in {"write", "header"} => at \in {"write", "header"}
              => Sized(l, c1, k, at1)
           /\ Sized(l, c, k, at) /\ c1 <= c + Max(Sizes) => Sized(l, c1, k + 1, at)
           /\ Sized(l, c, k, "write") /\ c1 <= c + Max(Sizes) => Sized(l, c1, k, "wait")
           /\ c1 < l + FlushAbove => Sized(l, c1, k, at1)
  <1>1. PICK m \in Nat, f \in Nat, p \in Nat :
            /\ m = Max(Sizes) /\ f = FlushAbove /\ p = Limit(l, k)
            /\ Limit(l, 1 + k) = p + m /\ Limit(l, k + 1) = p + m /\ p >= l + f
    BY MaxSize, LimitType
  <1>2. Limit(l, 1 + (k + 1)) = (p + m) + m
    <2>1. k + 1 \in Nat
      OBVIOUS
    <2>2. Limit(l, 1 + (k + 1)) = Limit(l, k + 1) + Max(Sizes)
      BY <2>1, LimitType
    <2> QED
      BY <1>1, <2>2, Zenon
  <1>3. /\ \A x : Sized(l, c, k, x) <=>
                    c < p + m /\ (x \in {"write", "header"} => c < p)
        /\ \A x : Sized(l, c1, k, x) <=>
                    c1 < p + m /\ (x \in {"write", "header"} => c1 < p)
        /\ \A x : Sized(l, c1, k + 1, x) <=>
                    c1 < (p + m) + m /\ (x \in {"write", "header"} => c1 < p + m)
    BY <1>1, <1>2, Zenon DEF Sized
  <1>4. /\ c1 <= c => (c < p + m => c1 < p + m) /\ (c < p => c1 < p)
        /\ c1 <= c + m => (c < p + m => c1 < (p + m) + m) /\ (c < p => c1 < p + m)
        /\ p >= l + f /\ c1 < l + f => c1 < p /\ c1 < p + m
    OBVIOUS
  <1>5. "write" \in {"write", "header"} /\ "wait" \notin {"write", "header"}
    OBVIOUS
  <1> QED
    BY <1>1, <1>3, <1>4, <1>5, Zenon

LEMMA IoFailsGrow ==
    ASSUME Types, [Next]_vars
    PROVE  ioFails \in Nat /\ ioFails' >= ioFails
  <1>1. ioFails \in Nat
    BY DEF Types
  <1>2. CASE Caught \/ QueueWrite \/ DateFlush \/ FinalFlush
    <2>1. PICK msg \in Seq(Lines), bWriteNow \in BOOLEAN : WriteLogFileMsg(msg, bWriteNow)
      BY <1>2, WriteSteps
    <2> QED
      BY <1>1, <2>1, WriteEffect
  <1>3. CASE ~(Caught \/ QueueWrite \/ DateFlush \/ FinalFlush)
    <2>1. ioFails' = ioFails \/ ioFails' = ioFails + 1
      BY <1>3, NextSteps, DateCheckFrame, Zenon DEF vars, bounds, Tick, Log, QueueWait,
         LoadLogErrorLevels, Terminate, Crash, Restart, GetCurrentLogFileSize, Turn,
         ResetCounter, StartLogFile, Move, MoveFails, Fail, MoveGivesUp, Header, HeaderDone
    <2> QED
      BY <1>1, <2>1
  <1> QED
    BY <1>2, <1>3

LEMMA ComingType ==
    ASSUME Types, BufferInv
    PROVE  /\ Coming \in Nat /\ Bytes(temp) \in Nat /\ Bytes(temp) <= Coming
           /\ Coming <= Bytes(temp) + FlushAbove
  <1>1. PICK f \in Nat, k \in Nat, a \in Nat :
            f = Bytes(temp) /\ k = Bytes(m_szOutBuffer) /\ a = FlushAbove
    BY BytesType, LoggingAssumption DEF Types
  <1>2. CASE Stuck
    <2>1. Coming = f + 0
      BY <1>1, <1>2, Zenon DEF Coming
    <2>2. f + 0 \in Nat /\ f <= f + 0 /\ f + 0 <= f + a
      OBVIOUS
    <2> QED
      BY <1>1, <2>1, <2>2, Zenon
  <1>3. CASE ~Stuck
    <2>1. Coming = f + k /\ k <= a
      BY <1>1, <1>3, Zenon DEF Coming, BufferInv
    <2>2. f + k \in Nat /\ f <= f + k /\ (k <= a => f + k <= f + a)
      OBVIOUS
    <2> QED
      BY <1>1, <2>1, <2>2, Zenon
  <1> QED
    BY <1>2, <1>3

(* The same for the state after a step.                                    *)
LEMMA ComingTypeNext ==
    ASSUME Types', BufferInv'
    PROVE  Coming' \in Nat /\ Coming' <= Bytes(temp') + FlushAbove
  <1>1. PICK f \in Nat, k \in Nat, a \in Nat :
            f = Bytes(temp') /\ k = Bytes(m_szOutBuffer') /\ a = FlushAbove
    BY BytesType, LoggingAssumption DEF Types
  <1>2. f + 0 \in Nat /\ f + k \in Nat /\ f + 0 <= f + a /\ (k <= a => f + k <= f + a)
    OBVIOUS
  <1>3. CASE Stuck'
    <2>1. Coming' = f + 0
      BY <1>1, <1>3, Zenon DEF Coming
    <2> QED
      BY <1>1, <1>2, <2>1, Zenon
  <1>4. CASE ~Stuck'
    <2>1. Coming' = f + k /\ k <= a
      BY <1>1, <1>4, Zenon DEF Coming, BufferInv
    <2> QED
      BY <1>1, <1>2, <2>1, Zenon
  <1> QED
    BY <1>3, <1>4

LEMMA ComingUnchanged ==
    ASSUME UNCHANGED bufVars, temp' = temp
    PROVE  Coming' = Coming
  <1>1. m_szOutBuffer' = m_szOutBuffer /\ (Stuck' <=> Stuck)
    BY DEF bufVars, Stuck
  <1>2. CASE Stuck
    BY <1>1, <1>2, Zenon DEF Coming
  <1>3. CASE ~Stuck
    BY <1>1, <1>3, Zenon DEF Coming
  <1> QED
    BY <1>2, <1>3

(* No action makes the file larger than SizeInv allows.                    *)
LEMMA SizeStep ==
    ASSUME Types, Types', Control, BufferInv, BufferInv', MoveInv, SizeInv, [Next]_vars
    PROVE  SizeInv'
  <1>1. SUFFICES ASSUME LimitFixed, ioFails' < maxRetries
                 PROVE  SizeInv'
    BY Zenon DEF SizeInv
  <1>2. PICK max \in Nat \ {0}, l \in Nat \ {0}, l1 \in Nat \ {0} :
            /\ max = ini.max /\ max = ini'.max
            /\ l = ini.max + missed /\ l1 = ini'.max + missed'
    <2>1. ini \in Inis /\ ini' \in Inis /\ missed \in Nat /\ missed' \in Nat
      BY DEF Types
    <2>2. ini.max \in Nat /\ ini.max > 0 /\ ini.max = ini'.max
      BY <1>1, <2>1, LoggingAssumption DEF LimitFixed, IniType
    <2>3. /\ ini.max \in Nat \ {0} /\ ini.max + missed \in Nat \ {0}
          /\ ini'.max + missed' \in Nat \ {0}
      BY <2>1, <2>2
    <2> QED
      BY <2>2, <2>3, Zenon
  <1>3. ioFails < maxRetries
    <2>1. maxRetries \in Nat /\ ioFails' \in Nat
      BY LoggingAssumption DEF Types
    <2> QED
      BY <1>1, <2>1, IoFailsGrow
  <1>4. /\ Sized(l, Coming, throws, pc[Queue])
        /\ m_dwTotalBytesWritten + uncounted = Bytes(temp) /\ uncounted <= missed
    BY <1>1, <1>2, <1>3, Zenon DEF SizeInv, MoveInv, Sized, Limit
  <1>5. SUFFICES Sized(l1, Coming', throws', pc'[Queue])
    BY <1>1, <1>2, Zenon DEF SizeInv, Sized, Limit
  <1>6. /\ Coming \in Nat /\ Coming' \in Nat /\ Coming <= Bytes(temp) + FlushAbove
        /\ Bytes(temp) <= Coming /\ throws \in Nat /\ Bytes(temp) \in Nat
        /\ temp \in Seq(Lines) /\ FlushAbove \in Nat
    <2>1. Coming' \in Nat
      BY ComingTypeNext
    <2>2. throws \in Nat /\ temp \in Seq(Lines)
      BY DEF Types
    <2> QED
      BY <2>1, <2>2, ComingType, LoggingAssumption
  <1>7. ASSUME missed' = missed, throws' = throws, Coming' <= Coming,
               pc'[Queue] \in {"write", "header"} => pc[Queue] \in {"write", "header"}
        PROVE  Sized(l1, Coming', throws', pc'[Queue])
    <2>1. l1 = l
      BY <1>2, <1>7, Zenon
    <2> QED
      BY <1>4, <1>6, <1>7, <2>1, SizedMoves, Zenon
  <1>8. ASSUME missed' = missed, throws' = throws, Coming' = Coming,
               pc'[Queue] \in {"write", "header"} => pc[Queue] \in {"write", "header"}
        PROVE  Sized(l1, Coming', throws', pc'[Queue])
    <2>1. Coming' <= Coming
      BY <1>6, <1>8
    <2> QED
      BY <1>7, <1>8, <2>1, Zenon
  <1>9. \A x \in Nat : x <= Coming + 0 <=> x <= Coming
    BY <1>6
  <1>10. CASE UNCHANGED vars
    <2>1. UNCHANGED bufVars /\ temp' = temp /\ missed' = missed /\ throws' = throws
          /\ pc' = pc
      BY <1>10, Zenon DEF vars, fileVars, bounds
    <2> QED
      BY <1>8, <2>1, ComingUnchanged, Zenon
  <1>11. CASE Tick
    <2>1. UNCHANGED bufVars /\ temp' = temp /\ missed' = missed /\ throws' = throws
          /\ pc' = pc
      BY <1>11, Zenon DEF Tick, fileVars, bounds
    <2> QED
      BY <1>8, <2>1, ComingUnchanged, Zenon
  <1>12. CASE Log
    <2>1. UNCHANGED bufVars /\ temp' = temp /\ missed' = missed /\ throws' = throws
          /\ pc' = pc
      BY <1>12, Zenon DEF Log, fileVars, bounds
    <2> QED
      BY <1>8, <2>1, ComingUnchanged, Zenon
  <1>13. CASE QueueWait
    <2>1. UNCHANGED bufVars /\ temp' = temp /\ missed' = missed /\ throws' = throws
      BY <1>13, Zenon DEF QueueWait, fileVars, bounds
    <2>2. pc'[Queue] \in {"write", "header"} => pc[Queue] \in {"write", "header"}
      BY <1>13, ThreadsApart DEF QueueWait, Goto, Control, Threads
    <2> QED
      BY <1>8, <2>1, <2>2, ComingUnchanged, Zenon
  <1>14. CASE LoadLogErrorLevels
    <2>1. UNCHANGED bufVars /\ temp' = temp /\ missed' = missed /\ throws' = throws
      BY <1>14, Zenon DEF LoadLogErrorLevels, fileVars, bounds
    <2>2. pc'[Queue] \in {"write", "header"} => pc[Queue] \in {"write", "header"}
      BY <1>14, ThreadsApart DEF LoadLogErrorLevels, Goto, Control, Threads
    <2> QED
      BY <1>8, <2>1, <2>2, ComingUnchanged, Zenon
  <1>15. CASE Terminate
    <2>1. UNCHANGED bufVars /\ temp' = temp /\ missed' = missed /\ throws' = throws
      BY <1>15, Zenon DEF Terminate, fileVars, bounds
    <2>2. pc'[Queue] \in {"write", "header"} => pc[Queue] \in {"write", "header"}
      BY <1>15, ThreadsApart DEF Terminate, Goto, Control, Threads
    <2> QED
      BY <1>8, <2>1, <2>2, ComingUnchanged, Zenon
  <1>16. CASE Crash
    <2>1. UNCHANGED bufVars /\ temp' = temp /\ missed' = missed /\ throws' = throws
      BY <1>16, Zenon DEF Crash, fileVars, bounds
    <2>2. pc'[Queue] \in {"write", "header"} => pc[Queue] \in {"write", "header"}
      BY <1>16, ThreadsApart DEF Crash, Goto, Control, Threads
    <2> QED
      BY <1>8, <2>1, <2>2, ComingUnchanged, Zenon
  <1>17. CASE Caught
    <2>1. PICK t \in Threads : Throws(t) /\ pc' = pc
      BY <1>17, CaughtEffect
    <2>2. PICK size \in Sizes, x \in Lines : x.size = size /\ WriteLogFileMsg(<<x>>, FALSE)
      BY <2>1, ThrowsWrites, Zenon
    <2>3. <<x>> \in Seq(Lines) /\ Bytes(<<x>>) = size
      BY <2>2, IdsOfFew, BytesOne
    <2>4. Coming' <= Coming + size /\ missed' = missed
      BY <2>2, <2>3, BufferWrite, WriteEffect, Zenon
    <2>5. Coming' <= Coming + Max(Sizes)
      BY <1>6, <2>4, MaxSize
    <2>6. throws' = throws + 1
      BY <2>1, Zenon DEF Throws
    <2>7. l1 = l
      BY <1>2, <2>4, Zenon
    <2> QED
      BY <1>4, <1>6, <2>1, <2>5, <2>6, <2>7, SizedMoves, Zenon
  <1>18. CASE QueueWrite
    <2>1. WriteLogFileMsg(str, FALSE) /\ pc[Queue] = "write" /\ pc'[Queue] = "wait"
          /\ throws' = throws
      BY <1>18, Zenon DEF QueueWrite, Goto, Control, Threads
    <2>2. Coming' <= Coming + Bytes(str) /\ missed' = missed
      BY <2>1, StrType, BufferWrite, WriteEffect, Zenon
    <2>3. Bytes(str) \in Nat /\ Bytes(str) <= Max(Sizes)
      <3>1. CASE str = <<>>
        BY <3>1, BytesEmpty, MaxSize
      <3>2. CASE str # <<>>
        <4>1. PICK x \in Lines : str = <<x>>
          BY <3>2 DEF Types
        <4>2. Bytes(str) \in Sizes
          BY <4>1, BytesOne, Zenon
        <4> QED
          BY <4>2, MaxSize
      <3> QED
        BY <3>1, <3>2
    <2>4. Coming' <= Coming + Max(Sizes)
      BY <1>6, <2>2, <2>3, MaxSize
    <2>5. l1 = l
      BY <1>2, <2>2, Zenon
    <2>6. Sized(l, Coming', throws, "wait")
      BY <1>4, <1>6, <2>1, <2>4, SizedMoves, Zenon
    <2> QED
      BY <2>1, <2>5, <2>6, Zenon
  <1>19. CASE DateFlush
    <2>1. WriteLogFileMsg(<<>>, TRUE) /\ throws' = throws
      BY <1>19, Zenon DEF DateFlush
    <2>2. Coming' <= Coming + 0 /\ missed' = missed
      BY <2>1, EmptySeq, BytesEmpty, BufferWrite, WriteEffect, Zenon
    <2>3. pc'[Queue] \in {"write", "header"} => pc[Queue] \in {"write", "header"}
      BY <1>19, ThreadsApart DEF DateFlush, Goto, Control, Threads
    <2> QED
      BY <1>6, <1>7, <1>9, <2>1, <2>2, <2>3, Zenon
  <1>20. CASE FinalFlush
    <2>1. WriteLogFileMsg(<<>>, TRUE) /\ throws' = throws
      BY <1>20, Zenon DEF FinalFlush
    <2>2. Coming' <= Coming + 0 /\ missed' = missed
      BY <2>1, EmptySeq, BytesEmpty, BufferWrite, WriteEffect, Zenon
    <2>3. pc'[Queue] \in {"write", "header"} => pc[Queue] \in {"write", "header"}
      BY <1>20, ThreadsApart DEF FinalFlush, Goto, Control, Threads
    <2> QED
      BY <1>6, <1>7, <1>9, <2>1, <2>2, <2>3, Zenon
  <1>21. CASE Restart
    <2>1. temp' = temp /\ m_szOutBuffer' = <<>> /\ m_dwTotalWriteBytes' = 0 /\ throws' = throws
      BY <1>21, Zenon DEF Restart, EmptyBuffer
    <2>2. Coming' = Bytes(temp) + 0
      <3>1. ~Stuck'
        BY <2>1 DEF Stuck
      <3> QED
        BY <2>1, <3>1, BytesEmpty, Zenon DEF Coming
    <2>3. Coming' <= Coming /\ Coming' = Bytes(temp)
      BY <1>6, <2>2
    <2>4. pc'[Queue] = pc[Queue]
      BY <1>21, ThreadsApart DEF Restart, Control, Threads
    <2>5. missed' = missed \/ missed' = Bytes(temp)
      BY <1>21, Zenon DEF Restart, GetCurrentLogFileSize
    <2>6. CASE missed' = missed
      BY <1>7, <2>1, <2>3, <2>4, <2>6, Zenon
    <2>7. CASE missed' = Bytes(temp)
      <3>1. Coming' < l1 + FlushAbove
        <4>1. PICK b \in Nat, f \in Nat : b = Bytes(temp) /\ f = FlushAbove
          BY <1>6, Zenon
        <4>2. l1 = max + b /\ Coming' = b
          BY <1>2, <2>3, <2>7, <4>1, Zenon
        <4>3. b < (max + b) + f
          BY max \in Nat \ {0}
        <4> QED
          BY <4>1, <4>2, <4>3, Zenon
      <3> QED
        BY <1>6, <2>1, <3>1, SizedMoves, Zenon
    <2> QED
      BY <2>5, <2>6, <2>7
  <1>22. ASSUME NEW t \in Threads, DateCheck(t)
        PROVE  Sized(l1, Coming', throws', pc'[Queue])
    <2>1. UNCHANGED bufVars /\ temp' = temp /\ missed' = missed /\ throws' = throws
      BY <1>22, DateCheckFrame, Zenon DEF fileVars, bounds
    <2>2. CASE pc'[Queue] \in {"write", "header"} => pc[Queue] \in {"write", "header"}
      BY <1>8, <2>1, <2>2, ComingUnchanged, Zenon
    <2>3. CASE ~(pc'[Queue] \in {"write", "header"} => pc[Queue] \in {"write", "header"})
      <3>1. ~TooBig
        <4>1. /\ \A u \in Threads \ {t} : pc'[u] = pc[u]
              /\ pc'[t] \in {"day", "hour", "size", "reset", "start", AfterCheck(t)}
              /\ pc'[t] = AfterCheck(t) => ~TooBig
          BY <1>22, DateCheckEffect
        <4>2. t = Queue
          BY <2>3, <4>1 DEF Threads
        <4>3. pc'[t] = AfterCheck(t)
          BY <2>3, <4>1, <4>2
        <4> QED
          BY <4>1, <4>3, Zenon
      <3>2. Bytes(temp) < l
        <4>1. ~(max > 0 /\ m_dwTotalBytesWritten >= max)
          BY <1>2, <3>1, Zenon DEF TooBig
        <4>2. m_dwTotalBytesWritten \in Nat /\ uncounted \in Nat /\ missed \in Nat
          BY DEF Types
        <4> QED
          <5>1. l = max + missed
            BY <1>2, Zenon
          <5>2. Bytes(temp) \in Nat /\ m_dwTotalBytesWritten + uncounted = Bytes(temp)
                /\ uncounted <= missed
            BY <1>4, <1>6, Zenon
          <5> QED
            BY ONLY <4>1, <4>2, <5>1, <5>2, max \in Nat \ {0}
      <3>3. Coming' = Coming
        BY <2>1, ComingUnchanged, Zenon
      <3>4. Coming' < l + FlushAbove
        BY <1>6, <3>2, <3>3
      <3>5. l1 = l
        BY <1>2, <2>1, Zenon
      <3> QED
        BY <1>6, <2>1, <3>4, <3>5, SizedMoves, Zenon
    <2> QED
      BY <2>2, <2>3
  <1>23. ASSUME NEW t \in Threads, ResetCounter(t)
        PROVE  Sized(l1, Coming', throws', pc'[Queue])
    <2>1. UNCHANGED bufVars /\ temp' = temp /\ missed' = missed /\ throws' = throws
      BY <1>23, Zenon DEF ResetCounter, fileVars, bounds
    <2>2. pc'[Queue] \in {"write", "header"} => pc[Queue] \in {"write", "header"}
      BY <1>23, ThreadsApart DEF ResetCounter, Goto, AfterCheck, Control, Threads
    <2> QED
      BY <1>8, <2>1, <2>2, ComingUnchanged, Zenon
  <1>24. ASSUME NEW t \in Threads, StartLogFile(t)
        PROVE  Sized(l1, Coming', throws', pc'[Queue])
    <2>1. UNCHANGED bufVars /\ temp' = temp /\ missed' = missed /\ throws' = throws
      BY <1>24, Zenon DEF StartLogFile, fileVars, bounds
    <2>2. pc'[Queue] \in {"write", "header"} => pc[Queue] \in {"write", "header"}
      BY <1>24, ThreadsApart DEF StartLogFile, Goto, AfterCheck, Control, Threads
    <2> QED
      BY <1>8, <2>1, <2>2, ComingUnchanged, Zenon
  <1>25. ASSUME NEW t \in Threads, MoveFails(t)
        PROVE  Sized(l1, Coming', throws', pc'[Queue])
    <2>1. UNCHANGED bufVars /\ temp' = temp /\ missed' = missed /\ throws' = throws
      BY <1>25, Zenon DEF MoveFails, fileVars, bounds
    <2>2. pc'[Queue] \in {"write", "header"} => pc[Queue] \in {"write", "header"}
      BY <1>25, ThreadsApart DEF MoveFails, Goto, AfterCheck, Control, Threads
    <2> QED
      BY <1>8, <2>1, <2>2, ComingUnchanged, Zenon
  <1>26. ASSUME NEW t \in Threads, Header(t)
        PROVE  Sized(l1, Coming', throws', pc'[Queue])
    <2>1. UNCHANGED bufVars /\ temp' = temp /\ missed' = missed /\ throws' = throws
      BY <1>26, Zenon DEF Header, fileVars, bounds
    <2>2. pc'[Queue] \in {"write", "header"} => pc[Queue] \in {"write", "header"}
      BY <1>26, ThreadsApart DEF Header, Goto, AfterCheck, Control, Threads
    <2> QED
      BY <1>8, <2>1, <2>2, ComingUnchanged, Zenon
  <1>27. ASSUME NEW t \in Threads, HeaderDone(t)
        PROVE  Sized(l1, Coming', throws', pc'[Queue])
    <2>1. UNCHANGED bufVars /\ temp' = temp /\ missed' = missed /\ throws' = throws
      BY <1>27, Zenon DEF HeaderDone, fileVars, bounds
    <2>2. pc'[Queue] \in {"write", "header"} => pc[Queue] \in {"write", "header"}
      BY <1>27, ThreadsApart DEF HeaderDone, Goto, AfterCheck, Control, Threads
    <2> QED
      BY <1>8, <2>1, <2>2, ComingUnchanged, Zenon
  <1>28. ASSUME NEW t \in Threads, Move(t) \/ MoveGivesUp(t)
        PROVE  Sized(l1, Coming', throws', pc'[Queue])
    <2>1. throws' = throws /\ pc[t] = "move"
      BY <1>28, Zenon DEF Move, MoveGivesUp, bounds
    <2>2. temp' = <<>>
      <3>1. CASE Move(t)
        BY <3>1, Zenon DEF Move
      <3>2. CASE MoveGivesUp(t)
        <4>1. left[t] = 0 /\ temp' = temp
          BY <3>2 DEF MoveGivesUp, fileVars
        <4>2. ~exists
          <5>1. exists => 0 + ioFails >= maxRetries
            BY <2>1, <4>1, Zenon DEF MoveInv
          <5>2. ioFails \in Nat /\ maxRetries \in Nat
            BY LoggingAssumption DEF Types
          <5>3. ~(0 + ioFails >= maxRetries)
            BY <1>3, <5>2
          <5> QED
            BY <5>1, <5>3
        <4> QED
          BY <4>1, <4>2, Zenon DEF MoveInv
      <3> QED
        BY <1>28, <3>1, <3>2
    <2>3. Coming' <= 0 + FlushAbove
      <3>1. Coming' <= Bytes(temp') + FlushAbove
        BY ComingTypeNext
      <3> QED
        BY <2>2, <3>1, BytesEmpty, Zenon
    <2>4. Coming' < l1 + FlushAbove
      BY <1>6, <2>3
    <2> QED
      BY <1>6, <2>1, <2>4, SizedMoves, Zenon
  <1> QED
    BY <1>10, <1>11, <1>12, <1>13, <1>14, <1>15, <1>16, <1>17, <1>18, <1>19, <1>20, <1>21, <1>22, <1>23, <1>24, <1>25, <1>26, <1>27, <1>28, NextSteps, Zenon DEF Turn

-----------------------------------------------------------------------------
(* The theorems.                                                           *)

LEMMA InitIInv ==
    ASSUME Init
    PROVE  IInv
  <1>1. /\ m_LogQueue = <<>> /\ str = <<>> /\ m_szOutBuffer = <<>> /\ temp = <<>>
        /\ written = <<>> /\ DOMAIN archive = {} /\ next = 1
        /\ direct = {} /\ gone = {} /\ overwritten = {}
    BY DEF Init
  <1>2. <<>> \in Seq(Lines) /\ <<>> \in Seq(Nat)
    BY EmptySeq
  <1>3. Types
    <2>1. /\ m_dwFileCounter \in Nat /\ m_LastSystemTime \in Nat /\ m_szLogFile \in Nat \X Nat
          /\ nCount \in -1..(CheckEvery - 1) /\ left \in [Threads -> Nat]
          /\ nowTime \in [Threads -> Nat]
      <3>1. m_LastSystemTime = 0 /\ m_szLogFile = <<0, m_dwFileCounter>> /\ nCount = -1
            /\ (m_dwFileCounter = 0 \/ m_dwFileCounter = 1)
        BY Zenon DEF Init
      <3>2. HeaderLines \in Nat /\ CheckEvery \in Nat \ {0}
        BY LoggingAssumption
      <3>3. left \in [Threads -> Nat] /\ nowTime \in [Threads -> Nat]
        <4>1. 0 \in Nat
          OBVIOUS
        <4> QED
          BY <3>2, <4>1, Zenon DEF Init
      <3>4. m_dwFileCounter \in Nat
        BY <3>1
      <3> QED
        BY <3>1, <3>2, <3>3, <3>4
    <2>2. /\ m_dwTotalWriteBytes \in Nat /\ m_dwTotalBytesWritten \in Nat
          /\ now \in Nat /\ next \in Nat \ {0}
          /\ ioFails \in Nat /\ badOpens \in Nat /\ throws \in Nat /\ stops \in Nat
          /\ uncounted \in Nat /\ missed \in Nat
      BY DEF Init
    <2>3. ini \in Inis /\ mutex \in Threads \cup {"free"} /\ queueLock \in Threads \cup {"free"}
          /\ nul \in BOOLEAN /\ exists \in BOOLEAN /\ overlap \in BOOLEAN
      BY DEF Init
    <2> QED
      BY <1>1, <1>2, <2>1, <2>2, <2>3, Zenon DEF Types
  <1>4. Control
    BY <1>1, ThreadsApart DEF Init, Control, Threads, MainAt, CheckAt, QueueAt, DateAt
  <1>5. LinesInv
    <2>1. \A d : Ids(<<>>) = {} /\ Once(<<>>) /\ Sorted(<<>>, d)
      BY IdsOfFew
    <2>2. AllOf(archive) = {} /\ Range(<<>>) = {} /\ 1..(1 - 1) = {}
      <3>1. AllOf(archive) = {}
        BY <1>1 DEF AllOf
      <3>2. Range(<<>>) = {}
        BY DEF Range
      <3> QED
        BY <3>1, <3>2
    <2>3. Parted({}, {}, {}, {}, {}, {}, {}, {})
      BY DEF Parted
    <2>4. \A d : Below({}, {}, d) /\ Below({} \cup {}, {}, d) /\ Below({} \cup {} \cup {}, {}, d)
      BY DEF Below
    <2>5. \A d : InOrder(<<>>, d)
      BY DEF InOrder
    <2>6. Home(<<>>, <<>>, <<>>, <<>>, archive, {}, {}, 1)
      BY <2>1, <2>2, <2>3, Zenon DEF Home
    <2>7. Shelves(archive)
      BY <1>1, Zenon DEF Shelves
    <2>8. Lined(<<>>, <<>>, <<>>, <<>>, {}, 1)
      BY <2>1, <2>2, <2>4, <2>5, Zenon DEF Lined
    <2> QED
      BY <1>1, <2>6, <2>7, <2>8, Zenon DEF LinesInv
  <1>6. NamesInv
    <2>1. /\ m_LastSystemTime = 0 /\ now = 0 /\ m_szLogFile = <<0, m_dwFileCounter>>
      BY DEF Init
    <2>2. \A t \in Threads : ~Rotating(t) /\ nowTime[t] <= now
      BY DEF Init, Rotating
    <2> QED
      BY <1>1, <2>1, <2>2 DEF NamesInv, Named, Rotating
  <1>7. ~Stuck /\ nul = TRUE /\ m_dwTotalWriteBytes = 0
    BY DEF Init, Stuck
  <1>8. BufferInv
    <2>1. 0 <= FlushAbove
      BY LoggingAssumption
    <2> QED
      BY <1>1, <1>7, <2>1, BytesEmpty, Zenon DEF BufferInv
  <1>9. MoveInv
    <2>1. \A t \in Threads : pc[t] # "move"
      BY DEF Init
    <2>2. m_dwTotalBytesWritten + uncounted = 0 /\ uncounted <= missed
      BY DEF Init
    <2> QED
      BY <1>1, <2>1, <2>2, BytesEmpty, Zenon DEF MoveInv
  <1>10. SizeInv
    <2>1. SUFFICES ASSUME LimitFixed
                   PROVE  Sized(ini.max + missed, Coming, throws, pc[Queue])
      BY Zenon DEF SizeInv, Sized, Limit
    <2>2. ini.max + missed \in Nat \ {0}
      <3>1. ini \in Inis /\ missed = 0
        BY DEF Init
      <3> QED
        BY <2>1, <3>1, LoggingAssumption DEF LimitFixed, IniType
    <2>3. Coming = 0 + 0
      BY <1>1, <1>7, BytesEmpty, Zenon DEF Coming
    <2>4. Coming \in Nat /\ Coming < (ini.max + missed) + FlushAbove /\ throws \in Nat
      <3>1. FlushAbove \in Nat
        BY LoggingAssumption
      <3>2. throws = 0
        BY DEF Init
      <3> QED
        BY <2>2, <2>3, <3>1, <3>2
    <2> QED
      BY <2>2, <2>4, SizedMoves, Zenon
  <1> QED
    BY <1>3, <1>4, <1>5, <1>6, <1>8, <1>9, <1>10, Zenon DEF IInv, Basic

(* The invariant holds for any sizes of lines and INI files, any limits,   *)
(* and over any number of failures and restarts.                           *)
THEOREM Invariance == Spec => []IInv
  <1>1. Init => IInv
    BY InitIInv
  <1>2. IInv /\ [Next]_vars => IInv'
    <2>1. SUFFICES ASSUME Types, Control, LinesInv, NamesInv, BufferInv, MoveInv, SizeInv,
                          [Next]_vars
                   PROVE  IInv'
      BY DEF IInv, Basic
    <2>2. Types' /\ Control' /\ LinesInv' /\ NamesInv' /\ BufferInv' /\ MoveInv'
      BY <2>1, TypesStep, ControlStep, LinesStep, NamesStep, BufferStep, MoveStep, Zenon
    <2>3. SizeInv'
      BY <2>1, <2>2, SizeStep, Zenon
    <2> QED
      BY <2>2, <2>3, Zenon DEF IInv, Basic
  <1> QED
    BY <1>1, <1>2, PTL DEF Spec

(* Seven sets that part a set do so two by two.                            *)
ByTwos(p, all) ==
    /\ UNION {p[i] : i \in 1..7} = all
    /\ \A i, j \in 1..7 : i < j => p[i] \cap p[j] = {}

LEMMA PartedByTwos ==
    ASSUME NEW A1, NEW A2, NEW A3, NEW A4, NEW A5, NEW A6, NEW A7, NEW all,
           Parted(A1, A2, A3, A4, A5, A6, A7, all), NEW p,
           p = <<A1, A2, A3, A4, A5, A6, A7>>
    PROVE  ByTwos(p, all)
  <1>1. /\ p[1] = A1 /\ p[2] = A2 /\ p[3] = A3 /\ p[4] = A4 /\ p[5] = A5 /\ p[6] = A6
        /\ p[7] = A7
    OBVIOUS
  <1>2. 1..7 = {1, 2, 3, 4, 5, 6, 7}
    OBVIOUS
  <1>3. UNION {p[i] : i \in 1..7} = A1 \cup A2 \cup A3 \cup A4 \cup A5 \cup A6 \cup A7
    <2>1. {p[i] : i \in 1..7} = {A1, A2, A3, A4, A5, A6, A7}
      BY <1>1, <1>2
    <2> QED
      BY <2>1
  <1>4. ASSUME NEW i \in 1..7, NEW j \in 1..7, i < j
        PROVE  p[i] \cap p[j] = {}
    <2>1. /\ A1 \cap A2 = {} /\ A1 \cap A3 = {} /\ A1 \cap A4 = {} /\ A1 \cap A5 = {}
          /\ A1 \cap A6 = {} /\ A1 \cap A7 = {} /\ A2 \cap A3 = {} /\ A2 \cap A4 = {}
          /\ A2 \cap A5 = {} /\ A2 \cap A6 = {} /\ A2 \cap A7 = {} /\ A3 \cap A4 = {}
          /\ A3 \cap A5 = {} /\ A3 \cap A6 = {} /\ A3 \cap A7 = {} /\ A4 \cap A5 = {}
          /\ A4 \cap A6 = {} /\ A4 \cap A7 = {} /\ A5 \cap A6 = {} /\ A5 \cap A7 = {}
          /\ A6 \cap A7 = {}
      BY DEF Parted
    <2> QED
      BY <1>1, <1>2, <1>4, <2>1
  <1> QED
    BY <1>3, <1>4 DEF Parted, ByTwos

(* WriteLogFileMsg, StartLogFile and the two threads lose, double or       *)
(* reorder no line, whatever fails and whenever the process stops.         *)
THEOREM KeepsLines == Spec => []LinesKept
  <1>1. ASSUME IInv
        PROVE  LinesKept
    <2>1. /\ Home(m_LogQueue, str, m_szOutBuffer, temp, archive, gone, overwritten, next)
          /\ Shelves(archive)
          /\ Lined(m_LogQueue, str, m_szOutBuffer, written, direct, next)
      BY <1>1 DEF IInv, LinesInv
    <2>2. WrittenInOrder
      BY <2>1 DEF Lined, InOrder, WrittenInOrder
    <2>3. Parted(Ids(m_LogQueue), Ids(str), Ids(m_szOutBuffer), Ids(temp), Archived, gone,
                 overwritten, 1..(next - 1))
      BY <2>1, Zenon DEF Home, AllOf, Archived
    <2>4. PICK p : p = <<Ids(m_LogQueue), Ids(str), Ids(m_szOutBuffer), Ids(temp), Archived,
                         gone, overwritten>>
      OBVIOUS
    <2>5. ByTwos(p, 1..(next - 1))
      BY <2>3, <2>4, PartedByTwos, Zenon
    <2>6. InOnePlace
      BY <2>1, <2>4, <2>5, Zenon DEF InOnePlace, ByTwos, Home, Shelves
    <2> QED
      BY <2>2, <2>6 DEF LinesKept
  <1> QED
    BY <1>1, Invariance, PTL

(* The hour and m_dwFileCounter name no archive twice unless the threads   *)
(* overlap in LogFileDateCheck, one goes by a nowTime from before the      *)
(* other's rotation, or the process was restarted.                         *)
THEOREM NamesAreNew == Spec => []ReplacesOnlyOnOverlap
  <1>1. ASSUME IInv
        PROVE  ReplacesOnlyOnOverlap
    BY <1>1, Zenon DEF IInv, NamesInv, Named, ReplacesOnlyOnOverlap
  <1> QED
    BY <1>1, Invariance, PTL

(* m_szOutBuffer, m_dwTotalBytesWritten and the temporary file keep to     *)
(* their limits, but for bytes GetCurrentLogFileSize could not count.      *)
THEOREM StaysBounded == Spec => []Bounded
  <1>1. ASSUME IInv
        PROVE  Bounded
    <2>1. Types /\ Control /\ BufferInv /\ MoveInv /\ SizeInv
          /\ Home(m_LogQueue, str, m_szOutBuffer, temp, archive, gone, overwritten, next)
          /\ Lined(m_LogQueue, str, m_szOutBuffer, written, direct, next)
      BY <1>1 DEF IInv, Basic, LinesInv
    <2>2. TypeOK
      <3>1. str \in Seq(Lines) /\ Len(str) <= 1
        <4>1. CASE str = <<>>
          BY <4>1, EmptySeq
        <4>2. CASE str # <<>>
          <5>1. PICK x \in Lines : str = <<x>>
            BY <2>1, <4>2 DEF Types
          <5> QED
            BY <5>1
        <4> QED
          BY <4>1, <4>2
      <3>2. direct \cup gone \cup overwritten \subseteq 1..(next - 1)
        <4>1. gone \cup overwritten \subseteq 1..(next - 1)
          <5>1. Parted(Ids(m_LogQueue), Ids(str), Ids(m_szOutBuffer), Ids(temp), AllOf(archive),
                       gone, overwritten, 1..(next - 1))
            BY <2>1, Zenon DEF Home
          <5> QED
            BY ONLY <5>1 DEF Parted
        <4>2. direct \subseteq 1..(next - 1)
          BY <2>1, Zenon DEF Lined
        <4> QED
          BY <4>1, <4>2
      <3>3. {m_LogQueue, m_szOutBuffer, temp, str} \subseteq Seq(Lines)
        BY <2>1, <3>1, Zenon DEF Types
      <3>4. {m_dwTotalWriteBytes, m_dwTotalBytesWritten, m_dwFileCounter, now,
             m_LastSystemTime, next, uncounted, missed, ioFails, badOpens, throws,
             stops} \subseteq Nat
        <4>1. next \in Nat
          BY <2>1 DEF Types
        <4> QED
          BY <2>1, <4>1, Zenon DEF Types
      <3>5. {nul, exists, overlap} \subseteq BOOLEAN
        BY <2>1, Zenon DEF Types
      <3>6. {mutex, queueLock} \subseteq Threads \cup {"free"}
            /\ {left, nowTime} \subseteq [Threads -> Nat]
        BY <2>1, Zenon DEF Types
      <3> QED
        BY <2>1, <3>1, <3>2, <3>3, <3>4, <3>5, <3>6, Zenon DEF Types, Control, TypeOK
    <2>3. BufferBounded
      BY <2>1, Zenon DEF BufferInv, BufferBounded
    <2>4. SizeTracked
      BY <2>1, Zenon DEF MoveInv, SizeTracked
    <2>5. FileSizeBounded
      <3>1. SUFFICES ASSUME LimitFixed, ioFails < maxRetries
                     PROVE  Bytes(temp) <
                                ini.max + missed + FlushAbove + (1 + throws) * Max(Sizes)
        BY DEF FileSizeBounded
      <3>2. PICK c \in Nat, f \in Nat : c = Coming /\ f = Bytes(temp) /\ f <= c
        BY <2>1, ComingType
      <3>3. ini.max + missed \in Nat \ {0} /\ 1 + throws \in Nat
        <4>1. ini \in Inis /\ throws \in Nat /\ missed \in Nat
          BY <2>1 DEF Types
        <4> QED
          BY <3>1, <4>1, LoggingAssumption DEF LimitFixed, IniType
      <3>4. PICK m \in Nat : m = Limit(ini.max + missed, 1 + throws)
        BY <3>3, LimitType
      <3>5. c < m
        BY <2>1, <3>1, <3>2, <3>4, Zenon DEF SizeInv, Limit
      <3>6. f < m
        BY <3>2, <3>5
      <3> QED
        BY <3>2, <3>4, <3>6, Zenon DEF Limit
    <2> QED
      BY <2>2, <2>3, <2>4, <2>5 DEF Bounded
  <1> QED
    BY <1>1, Invariance, PTL

(* Both together, which is what the run with failing file operations,      *)
(* kills and restarts checks.                                              *)
THEOREM FaultsSurvived == Spec => []SurvivesFaults
  <1>1. LinesKept /\ Bounded => SurvivesFaults
    BY DEF SurvivesFaults
  <1> QED
    BY <1>1, KeepsLines, StaysBounded, PTL

=============================================================================
