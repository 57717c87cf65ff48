------------------------ MODULE ResourceNames_proofs ------------------------
(***************************************************************************)
(* What the naming functions of helpers.go return, for every name: the     *)
(* sanitized name is a DNS-1035 label, and a name that is one already is   *)
(* kept.  Induction over the length of a name is done by least             *)
(* counterexample: the set of lengths for which a claim fails has a least  *)
(* element (LeastNumber).                                                  *)
(***************************************************************************)
EXTENDS ResourceNames, SequenceTheorems, FiniteSetTheorems, WellFoundedInduction, TLAPS

Before == {pair \in Nat \X Nat : pair[1] < pair[2]}

LEMMA BeforeWellFounded == IsWellFoundedOn(Before, Nat)
<1>1. OpToRel(<, Nat) = Before
  BY DEF OpToRel, Before
<1> QED BY <1>1, NatLessThanWellFounded

\* Every set of numbers that is not empty has a least one.
LEMMA LeastNumber ==
  ASSUME NEW T, T \subseteq Nat, T # {}
  PROVE  \E x \in T : \A y \in T : x =< y
<1>1. \E x \in T : \A y \in T : ~(<<y, x>> \in Before)
  BY BeforeWellFounded, WFMin, Zenon
<1> PICK x \in T : \A y \in T : ~(<<y, x>> \in Before)
  BY <1>1
<1>2. \A y \in T : x =< y
  <2> TAKE y \in T
  <2>1. x \in Nat /\ y \in Nat /\ <<y, x>> \notin Before
    OBVIOUS
  <2>2. ~(y < x)
    BY <2>1 DEF Before
  <2> QED BY <2>1, <2>2
<1> QED BY <1>2

LEMMA MinIsLeast ==
  ASSUME NEW T, T \subseteq Nat, T # {}
  PROVE  Min(T) \in T /\ \A y \in T : Min(T) =< y
BY LeastNumber DEF Min

\* A set of numbers up to n that is not empty has a greatest one: the numbers that
\* are not below any of its elements have a least one.
LEMMA MaxIsGreatest ==
  ASSUME NEW n \in Nat, NEW T, T \subseteq 0 .. n, T # {}
  PROVE  Max(T) \in T /\ \A y \in T : Max(T) >= y
<1> DEFINE Bounds == {x \in Nat : \A y \in T : x >= y}
<1>1. n \in Bounds
  OBVIOUS
<1>2. PICK x \in Bounds : \A y \in Bounds : x =< y
  BY <1>1, LeastNumber
<1>3. x \in T
  <2> SUFFICES ASSUME x \notin T PROVE FALSE
    OBVIOUS
  <2>1. \A y \in T : x > y
    OBVIOUS
  <2>2. PICK z \in T : TRUE
    OBVIOUS
  <2>3. x - 1 \in Bounds
    BY <2>1, <2>2
  <2> QED BY <2>3, <1>2
<1> QED BY <1>2, <1>3 DEF Max

(***************************************************************************)
(* Positions.  Kept(s, P) has one symbol for each position of P, and its   *)
(* i-th symbol is the one at the position of P that has i positions of P   *)
(* up to it.                                                               *)
(***************************************************************************)
LEMMA PositionsFinite ==
  ASSUME NEW n \in Nat, NEW P, P \subseteq 1 .. n
  PROVE  IsFiniteSet(P) /\ Cardinality(P) \in Nat
<1>1. IsFiniteSet(1 .. n)
  BY FS_Interval
<1>2. IsFiniteSet(P)
  BY <1>1, FS_Subset
<1> QED BY <1>2, FS_CardinalityType

\* A later position has more positions up to it.
LEMMA UptoGrows ==
  ASSUME NEW n \in Nat, NEW P, P \subseteq 1 .. n, NEW p \in P, NEW q \in P, p < q
  PROVE  Upto(P, p) \in Nat /\ Upto(P, q) \in Nat /\ Upto(P, p) < Upto(P, q)
<1> DEFINE A == {r \in P : r =< p}
           B == {r \in P : r =< q}
<1>0. \A r \in P : r \in Nat
  OBVIOUS
<1>1. A \subseteq B /\ q \in B /\ q \notin A
  <2>1. \A r \in A : r \in B
    BY <1>0
  <2>2. q \in B
    BY <1>0
  <2>3. q \notin A
    BY <1>0
  <2> QED BY <2>1, <2>2, <2>3
<1>2. IsFiniteSet(A) /\ IsFiniteSet(B) /\ Cardinality(A) \in Nat /\ Cardinality(B) \in Nat
  BY PositionsFinite
<1>3. Cardinality(A) =< Cardinality(B) /\ Cardinality(A) # Cardinality(B)
  <2> HIDE DEF A, B
  <2> QED BY <1>1, <1>2, FS_Subset
<1> QED BY <1>2, <1>3 DEF Upto

LEMMA UptoRange ==
  ASSUME NEW n \in Nat, NEW P, P \subseteq 1 .. n, NEW p \in P
  PROVE  Upto(P, p) \in 1 .. Cardinality(P)
<1> DEFINE A == {r \in P : r =< p}
<1>1. A \subseteq P /\ p \in A
  OBVIOUS
<1>2. IsFiniteSet(A) /\ IsFiniteSet(P) /\ Cardinality(A) \in Nat /\ Cardinality(P) \in Nat
  BY PositionsFinite
<1>3. Cardinality(A) =< Cardinality(P) /\ Cardinality(A) # 0
  <2> HIDE DEF A
  <2> QED BY <1>1, <1>2, FS_Subset, FS_EmptySet
<1> QED BY <1>2, <1>3 DEF Upto

\* Every number up to the size of P is the number of positions up to one of them.
LEMMA UptoOnto ==
  ASSUME NEW n \in Nat, NEW P, P \subseteq 1 .. n, NEW i \in 1 .. Cardinality(P)
  PROVE  \E p \in P : Upto(P, p) = i
<1> DEFINE Fails(m) == \E Q \in SUBSET (1 .. m) :
                         \E j \in 1 .. Cardinality(Q) : \A p \in Q : Upto(Q, p) # j
           T == {m \in Nat : Fails(m)}
<1> SUFFICES ASSUME Fails(n) PROVE FALSE
  OBVIOUS
<1>1. PICK m \in T : \A k \in T : m =< k
  <2>1. T \subseteq Nat /\ n \in T
    OBVIOUS
  <2> HIDE DEF T
  <2> QED BY <2>1, LeastNumber
<1>2. PICK Q \in SUBSET (1 .. m) :
               \E j \in 1 .. Cardinality(Q) : \A p \in Q : Upto(Q, p) # j
  BY <1>1
<1> PICK j \in 1 .. Cardinality(Q) : \A p \in Q : Upto(Q, p) # j
  BY <1>2
<1>3. IsFiniteSet(Q) /\ Cardinality(Q) \in Nat
  BY <1>1, PositionsFinite
<1>4. m # 0
  <2> SUFFICES ASSUME m = 0 PROVE FALSE
    OBVIOUS
  <2>1. Q = {}
    OBVIOUS
  <2> QED BY <2>1, FS_EmptySet
<1>5. m - 1 \in Nat /\ ~Fails(m - 1)
  <2>1. m \in Nat /\ m - 1 \in Nat /\ m - 1 < m
    BY <1>1, <1>4
  <2> QED BY <2>1, <1>1
<1>6. CASE m \notin Q
  <2>1. Q \in SUBSET (1 .. (m - 1))
    BY <1>1, <1>4, <1>6
  <2> QED BY <2>1, <1>5
<1>7. CASE m \in Q
  <2> DEFINE R == Q \ {m}
  <2>1. R \in SUBSET (1 .. (m - 1))
    BY <1>1, <1>4
  <2>2. Cardinality(R) = Cardinality(Q) - 1
    BY <1>3, <1>7, FS_RemoveElement
  <2>3. \A p \in R : Upto(R, p) = Upto(Q, p)
    <3> TAKE p \in R
    <3>1. {r \in R : r =< p} = {r \in Q : r =< p}
      BY <1>1
    <3> QED BY <3>1 DEF Upto
  <2>4. Upto(Q, m) = Cardinality(Q)
    <3>1. \A r \in Q : r \in Nat /\ r =< m
      BY <1>1
    <3>2. {r \in Q : r =< m} = Q
      BY <3>1
    <3> QED BY <3>2 DEF Upto
  <2>5. j # Cardinality(Q)
    BY <2>4, <1>7
  <2>6. j \in 1 .. Cardinality(R)
    <3> HIDE DEF R
    <3> QED BY <2>2, <2>5, <1>3
  <2>7. PICK p \in R : Upto(R, p) = j
    BY <2>1, <2>6, <1>5
  <2> QED BY <2>7, <2>3
<1> QED BY <1>6, <1>7
\* So the positions of P can be counted: by exactly one number each.
LEMMA Counted ==
  ASSUME NEW n \in Nat, NEW P, P \subseteq 1 .. n, NEW i \in 1 .. Cardinality(P)
  PROVE  LET p == CHOOSE p \in P : Upto(P, p) = i
         IN  p \in P /\ Upto(P, p) = i /\ \A q \in P : Upto(P, q) = i => q = p
<1>1. PICK p \in P : Upto(P, p) = i
  BY UptoOnto
<1>2. \A q, r \in P : Upto(P, q) = Upto(P, r) => q = r
  <2> TAKE q, r \in P
  <2>1. q \in Nat /\ r \in Nat
    OBVIOUS
  <2>2. q < r => Upto(P, q) \in Nat /\ Upto(P, r) \in Nat /\ Upto(P, q) < Upto(P, r)
    BY UptoGrows
  <2>3. r < q => Upto(P, q) \in Nat /\ Upto(P, r) \in Nat /\ Upto(P, r) < Upto(P, q)
    BY UptoGrows
  <2> QED BY <2>1, <2>2, <2>3
<1> QED BY <1>1, <1>2

LEMMA KeptType ==
  ASSUME NEW S, NEW s \in Seq(S), NEW P, P \subseteq DOMAIN s
  PROVE  /\ Kept(s, P) \in Seq(S)
         /\ Len(Kept(s, P)) = Cardinality(P) /\ Cardinality(P) \in Nat
         /\ \A i \in 1 .. Cardinality(P) : \E p \in P : Upto(P, p) = i /\ Kept(s, P)[i] = s[p]
<1>1. Len(s) \in Nat /\ P \subseteq 1 .. Len(s) /\ \A p \in P : s[p] \in S
  BY LenProperties
<1>2. Cardinality(P) \in Nat
  BY <1>1, PositionsFinite
<1> DEFINE At(i) == CHOOSE p \in P : Upto(P, p) = i
<1>3. \A i \in 1 .. Cardinality(P) : At(i) \in P /\ Upto(P, At(i)) = i
  BY <1>1, Counted
<1>4. Kept(s, P) = [i \in 1 .. Cardinality(P) |-> s[At(i)]]
  BY DEF Kept
<1> HIDE DEF At
<1>5. Kept(s, P) \in [1 .. Cardinality(P) -> S]
  BY <1>1, <1>3, <1>4
<1>6. Kept(s, P) \in Seq(S) /\ Len(Kept(s, P)) = Cardinality(P)
  BY <1>2, <1>5
<1> QED BY <1>2, <1>3, <1>4, <1>6

\* If the first position is kept it stays the first one, and so for the last.
LEMMA KeptEnds ==
  ASSUME NEW S, NEW s \in Seq(S), s # << >>, NEW P, P \subseteq DOMAIN s
  PROVE  /\ 1 \in P => Kept(s, P) # << >> /\ Kept(s, P)[1] = s[1]
         /\ Len(s) \in P => Kept(s, P)[Len(Kept(s, P))] = s[Len(s)]
<1> DEFINE n == Len(s)
<1>1. n \in Nat /\ n > 0 /\ P \subseteq 1 .. n
  BY LenProperties
<1>2. IsFiniteSet(P) /\ Cardinality(P) \in Nat
  BY <1>1, PositionsFinite
<1>3. /\ Kept(s, P) \in Seq(S) /\ Len(Kept(s, P)) = Cardinality(P)
      /\ \A i \in 1 .. Cardinality(P) :
           \E p \in P : Upto(P, p) = i /\ Kept(s, P)[i] = s[p]
  BY KeptType
<1> HIDE DEF n
<1>4. ASSUME 1 \in P PROVE Kept(s, P) # << >> /\ Kept(s, P)[1] = s[1]
  <2>1. Upto(P, 1) \in 1 .. Cardinality(P)
    BY <1>1, <1>4, UptoRange
  <2>2. 1 \in 1 .. Cardinality(P)
    BY <2>1, <1>2
  <2>3. PICK p \in P : Upto(P, p) = 1 /\ Kept(s, P)[1] = s[p]
    BY <2>2, <1>3
  <2>4. p = 1
    <3> SUFFICES ASSUME p # 1 PROVE FALSE
      OBVIOUS
    <3>1. 1 < p
      BY <1>1
    <3>2. Upto(P, 1) \in Nat /\ Upto(P, 1) < Upto(P, p)
      BY <1>1, <1>4, <3>1, UptoGrows
    <3> QED BY <3>2, <2>1, <2>3, <1>2
  <2>5. Len(Kept(s, P)) # 0
    BY <2>2, <1>2, <1>3
  <2> QED BY <2>3, <2>4, <2>5, <1>3
<1>5. ASSUME n \in P PROVE Kept(s, P)[Cardinality(P)] = s[n]
  <2>1. Upto(P, n) = Cardinality(P)
    <3>1. \A r \in P : r =< n
      BY <1>1
    <3>2. {r \in P : r =< n} = P
      BY <3>1
    <3> QED BY <3>2 DEF Upto
  <2>2. Cardinality(P) \in 1 .. Cardinality(P)
    BY <2>1, <1>1, <1>5, UptoRange
  <2>3. PICK p \in P : Upto(P, p) = Cardinality(P) /\ Kept(s, P)[Cardinality(P)] = s[p]
    BY <2>2, <1>3
  <2>4. p = n
    <3> SUFFICES ASSUME p # n PROVE FALSE
      OBVIOUS
    <3>1. p < n
      BY <1>1
    <3>2. Upto(P, p) \in Nat /\ Upto(P, p) < Upto(P, n)
      BY <1>1, <1>5, <3>1, UptoGrows
    <3> QED BY <3>2, <2>1, <2>3, <1>2
  <2> QED BY <2>3, <2>4
<1> QED BY <1>3, <1>4, <1>5 DEF n

\* All of them kept, the sequence is the same.
LEMMA KeptAll ==
  ASSUME NEW S, NEW s \in Seq(S)
  PROVE  Kept(s, DOMAIN s) = s
<1> DEFINE n == Len(s)
<1>1. n \in Nat /\ DOMAIN s = 1 .. n
  BY LenProperties
<1>2. Cardinality(1 .. n) = n
  BY <1>1, FS_Interval
<1>3. \A p \in 1 .. n : Upto(1 .. n, p) = p
  <2> TAKE p \in 1 .. n
  <2>1. \A q \in Int : q \in 1 .. n /\ q =< p <=> q \in 1 .. p
    BY <1>1
  <2>2. {q \in 1 .. n : q =< p} = 1 .. p
    BY <2>1, <1>1
  <2>3. Cardinality(1 .. p) = p
    BY <1>1, FS_Interval
  <2> QED BY <2>2, <2>3 DEF Upto
<1>4. /\ Kept(s, 1 .. n) \in Seq(S) /\ Len(Kept(s, 1 .. n)) = n
      /\ \A i \in 1 .. n :
           \E p \in 1 .. n : Upto(1 .. n, p) = i /\ Kept(s, 1 .. n)[i] = s[p]
  BY <1>1, <1>2, KeptType
<1> HIDE DEF n
<1>5. \A i \in 1 .. n : Kept(s, 1 .. n)[i] = s[i]
  BY <1>3, <1>4
<1> QED BY <1>1, <1>4, <1>5, SeqEqual DEF n

(***************************************************************************)
(* SanitizeDNS1035Label, loop by loop.                                     *)
(***************************************************************************)
LabelSymbols == Lower \cup Digits \cup {"-"}

LEMMA MappedSymbol ==
  ASSUME NEW c \in Symbols
  PROVE  /\ c # "?" => Mapped(c) \in LabelSymbols
         /\ c \in LabelSymbols => Mapped(c) = c
<1>1. CASE c \in Upper
  BY <1>1 DEF Mapped, LabelSymbols, Lower, Upper, Digits
<1>2. CASE c \in {".", "_", "-"}
  BY <1>2 DEF Mapped, LabelSymbols, Lower, Upper, Digits
<1>3. CASE c \notin Upper \cup {".", "_", "-"}
  BY <1>3 DEF Mapped, LabelSymbols, Symbols
<1> QED BY <1>1, <1>2, <1>3

LEMMA MappedSequence ==
  ASSUME NEW s \in Seq(Symbols \ {"?"})
  PROVE  [i \in DOMAIN s |-> Mapped(s[i])] \in Seq(LabelSymbols)
<1>1. \A i \in 1 .. Len(s) : Mapped(s[i]) \in LabelSymbols
  BY LenProperties, MappedSymbol
<1>2. DOMAIN s = 1 .. Len(s) /\ Len(s) \in Nat
  BY LenProperties
<1>3. [i \in 1 .. Len(s) |-> Mapped(s[i])] \in [1 .. Len(s) -> LabelSymbols]
  BY <1>1
<1> QED BY <1>2, <1>3

\* The positions of a sequence at which there is something else than "-", the
\* first and the last one.
LEMMA SolidEnds ==
  ASSUME NEW S, NEW s \in Seq(S), {i \in DOMAIN s : s[i] # "-"} # {}
  PROVE  LET solid == {i \in DOMAIN s : s[i] # "-"}
         IN  /\ Min(solid) \in 1 .. Len(s) /\ Max(solid) \in 1 .. Len(s)
             /\ Min(solid) =< Max(solid)
             /\ s[Min(solid)] # "-" /\ s[Max(solid)] # "-"
             /\ \A i \in solid : Min(solid) =< i /\ i =< Max(solid)
<1> DEFINE solid == {i \in DOMAIN s : s[i] # "-"}
<1>1. Len(s) \in Nat /\ DOMAIN s = 1 .. Len(s)
  BY LenProperties
<1>2. \A i \in solid : i \in 1 .. Len(s) /\ s[i] # "-"
  BY <1>1
<1>3. solid # {} /\ solid \subseteq Nat /\ solid \subseteq 0 .. Len(s)
  BY <1>1, <1>2
<1> HIDE DEF solid
<1>4. Min(solid) \in solid /\ \A i \in solid : Min(solid) =< i
  BY <1>3, MinIsLeast
<1>5. Max(solid) \in solid /\ \A i \in solid : Max(solid) >= i
  BY <1>1, <1>3, MaxIsGreatest
<1>6. /\ Min(solid) \in 1 .. Len(s) /\ Max(solid) \in 1 .. Len(s)
      /\ Min(solid) =< Max(solid)
      /\ s[Min(solid)] # "-" /\ s[Max(solid)] # "-"
      /\ \A i \in solid : Min(solid) =< i /\ i =< Max(solid)
  BY <1>1, <1>2, <1>4, <1>5
<1> QED BY <1>6 DEF solid

LEMMA Trimmed ==
  ASSUME NEW S, NEW s \in Seq(S)
  PROVE  /\ Trim(s) \in Seq(S)
         /\ Trim(s) # << >> => Trim(s)[1] # "-" /\ Trim(s)[Len(Trim(s))] # "-"
<1> DEFINE solid == {i \in DOMAIN s : s[i] # "-"}
<1>1. CASE solid = {}
  BY <1>1 DEF Trim
<1>2. CASE solid # {}
  <2> DEFINE a == Min(solid)
             b == Max(solid)
  <2>1. a \in 1 .. Len(s) /\ b \in 1 .. Len(s) /\ a =< b /\ s[a] # "-" /\ s[b] # "-"
    BY <1>2, SolidEnds
  <2>2. Trim(s) = SubSeq(s, a, b)
    BY <1>2 DEF Trim
  <2> HIDE DEF a, b
  <2>3. a \in Int /\ b \in Int /\ \A i \in a .. b : s[i] \in S
    BY <2>1, LenProperties
  <2>4. /\ Trim(s) \in Seq(S) /\ Len(Trim(s)) = b - a + 1
        /\ \A i \in 1 .. b - a + 1 : Trim(s)[i] = s[a + i - 1]
    BY <2>1, <2>2, <2>3, SubSeqProperties
  <2>5. 1 \in 1 .. b - a + 1 /\ b - a + 1 \in 1 .. b - a + 1
    BY <2>1
  <2>6. Trim(s)[1] = s[a] /\ Trim(s)[b - a + 1] = s[b]
    <3>1. a + 1 - 1 = a /\ a + (b - a + 1) - 1 = b
      BY <2>3
    <3> QED BY <2>4, <2>5, <3>1
  <2> QED BY <2>1, <2>4, <2>6
<1> QED BY <1>1, <1>2

LEMMA Collapsed ==
  ASSUME NEW S, NEW s \in Seq(S)
  PROVE  /\ Collapse(s) \in Seq(S)
         /\ s # << >> /\ s[Len(s)] # "-" =>
              /\ Collapse(s) # << >> /\ Collapse(s)[1] = s[1]
              /\ Collapse(s)[Len(Collapse(s))] = s[Len(s)]
<1> DEFINE P == {i \in DOMAIN s : i = 1 \/ s[i] # "-" \/ s[i - 1] # "-"}
<1>1. P \subseteq DOMAIN s /\ Collapse(s) = Kept(s, P)
  BY DEF Collapse
<1>2. Len(s) \in Nat /\ DOMAIN s = 1 .. Len(s) /\ (s # << >> => Len(s) # 0)
  BY LenProperties
<1>3. s # << >> => 1 \in P
  BY <1>2
<1>4. s # << >> /\ s[Len(s)] # "-" => Len(s) \in P
  BY <1>2
<1> HIDE DEF P
<1>5. Collapse(s) \in Seq(S)
  BY <1>1, KeptType
<1> QED BY <1>1, <1>3, <1>4, <1>5, KeptEnds

\* Whatever the name, SanitizeDNS1035Label returns a DNS-1035 label: lower case, a
\* letter first and no hyphen last (helpers.go:148-149).
THEOREM SanitizedLabel ==
  ASSUME NEW s \in Seq(Symbols)
  PROVE  /\ SanitizeDNS1035Label(s) \in Seq(LabelSymbols)
         /\ IsLabel(SanitizeDNS1035Label(s))
<1> DEFINE P == {i \in DOMAIN s : s[i] # "?"}
           kept == Kept(s, P)
           mapped == [i \in DOMAIN kept |-> Mapped(kept[i])]
           short == Collapse(Trim(mapped))
<1>1. kept \in Seq(Symbols \ {"?"})
  <2>1. P \subseteq DOMAIN s
    OBVIOUS
  <2>2. \A p \in P : s[p] \in Symbols \ {"?"}
    BY LenProperties
  <2> HIDE DEF P
  <2>3. /\ kept \in Seq(Symbols)
        /\ \A i \in 1 .. Len(kept) : \E p \in P : kept[i] = s[p]
    BY <2>1, KeptType
  <2>4. \A i \in 1 .. Len(kept) : kept[i] \in Symbols \ {"?"}
    BY <2>2, <2>3
  <2>5. kept \in [1 .. Len(kept) -> Symbols] /\ Len(kept) \in Nat
    BY <2>3, LenProperties
  <2> HIDE DEF kept
  <2>6. kept \in [1 .. Len(kept) -> Symbols \ {"?"}]
    BY <2>4, <2>5
  <2> QED BY <2>5, <2>6
<1> HIDE DEF kept
<1>2. mapped \in Seq(LabelSymbols)
  BY <1>1, MappedSequence
<1> HIDE DEF mapped
<1>3. /\ short \in Seq(LabelSymbols)
      /\ short # << >> => short[1] # "-" /\ short[Len(short)] # "-"
  <2>1. /\ Trim(mapped) \in Seq(LabelSymbols)
        /\ Trim(mapped) # << >> =>
             Trim(mapped)[1] # "-" /\ Trim(mapped)[Len(Trim(mapped))] # "-"
    BY <1>2, Trimmed
  <2>2. Trim(mapped) = << >> => short = << >>
    <3>1. Collapse(<< >>) = Kept(<< >>, {})
      BY DEF Collapse
    <3>2. Kept(<< >>, {}) = << >>
      BY FS_EmptySet DEF Kept
    <3> QED BY <3>1, <3>2
  <2> QED BY <2>1, <2>2, Collapsed
<1> HIDE DEF short
<1>4. SanitizeDNS1035Label(s) = Prefixed(short)
  BY DEF SanitizeDNS1035Label, short, mapped, kept
<1>5. \A i \in 1 .. Len(short) : short[i] \in LabelSymbols
  BY <1>3, LenProperties
<1>6. CASE short = << >>
  <2>1. Prefixed(short) = << "modelservice" >>
    BY <1>6 DEF Prefixed
  <2>2. << "modelservice" >> \in Seq(LabelSymbols)
    BY DEF LabelSymbols, Lower
  <2>3. IsLabel(<< "modelservice" >>)
    BY DEF IsLabel, Last, Lower
  <2> QED BY <1>4, <2>1, <2>2, <2>3
<1>7. CASE short # << >> /\ Head(short) \in Digits
  <2> DEFINE front == << "m", "-" >>
             long == front \o short
  <2>1. Prefixed(short) = long
    BY <1>7 DEF Prefixed
  <2>2. front \in Seq(LabelSymbols) /\ Len(front) = 2 /\ front[1] = "m"
    BY DEF LabelSymbols, Lower
  <2> HIDE DEF front
  <2>3. /\ long \in Seq(LabelSymbols) /\ Len(long) = Len(short) + 2
        /\ long[1] = "m" /\ long[Len(long)] = short[Len(short)]
    <3>1. Len(short) \in Nat /\ Len(short) # 0
      BY <1>3, <1>7
    <3>2. /\ long \in Seq(LabelSymbols) /\ Len(long) = Len(front) + Len(short)
          /\ \A i \in 1 .. Len(front) + Len(short) :
               long[i] = IF i <= Len(front) THEN front[i] ELSE short[i - Len(front)]
      <4>1. front \in Seq(LabelSymbols) /\ short \in Seq(LabelSymbols)
        BY <1>3, <2>2
      <4> QED BY <4>1, ConcatProperties
    <3> QED BY <2>2, <3>1, <3>2
  <2> HIDE DEF long
  <2>4. /\ long # << >> /\ Head(long) \in Lower /\ Last(long) # "-"
        /\ \A i \in DOMAIN long : long[i] \in LabelSymbols
    BY <2>3, <1>3, <1>7, LenProperties DEF Last, Lower
  <2> QED BY <1>4, <2>1, <2>3, <2>4 DEF IsLabel, LabelSymbols
<1>8. CASE short # << >> /\ Head(short) \notin Digits
  <2>1. Prefixed(short) = short
    BY <1>8 DEF Prefixed
  <2>2. Len(short) \in Nat /\ Len(short) # 0 /\ DOMAIN short = 1 .. Len(short)
    BY <1>3, <1>8, LenProperties
  <2>3. Head(short) = short[1] /\ Last(short) = short[Len(short)]
    BY <1>3, <1>8 DEF Last
  <2>4. Head(short) \in Lower
    BY <1>3, <1>5, <1>8, <2>2, <2>3 DEF LabelSymbols
  <2> QED BY <1>3, <1>4, <1>5, <1>8, <2>1, <2>2, <2>3, <2>4 DEF IsLabel, LabelSymbols
<1> QED BY <1>6, <1>7, <1>8

NoDoubleHyphen(s) == \A i \in 2 .. Len(s) : {s[i - 1], s[i]} # {"-"}

\* A name that is a label already, without two hyphens in a row, is kept
\* (helpers.go:137-139).
THEOREM LabelKept ==
  ASSUME NEW s \in Seq(Symbols), IsLabel(s), NoDoubleHyphen(s)
  PROVE  SanitizeDNS1035Label(s) = s
<1> DEFINE kept == Kept(s, {i \in DOMAIN s : s[i] # "?"})
           mapped == [i \in DOMAIN kept |-> Mapped(kept[i])]
<1>1. /\ s # << >> /\ Len(s) \in Nat /\ Len(s) # 0 /\ DOMAIN s = 1 .. Len(s)
      /\ \A i \in 1 .. Len(s) : s[i] \in LabelSymbols
      /\ s[1] \in Lower /\ s[Len(s)] # "-" /\ Head(s) = s[1]
  <2>1. s # << >> /\ Len(s) \in Nat /\ Len(s) # 0 /\ DOMAIN s = 1 .. Len(s)
    BY LenProperties DEF IsLabel
  <2>2. Head(s) = s[1]
    BY <2>1
  <2> QED BY <2>1, <2>2 DEF IsLabel, Last, LabelSymbols
<1>2. kept = s
  <2>1. "?" \notin LabelSymbols
    BY DEF LabelSymbols, Lower, Digits
  <2>2. {i \in DOMAIN s : s[i] # "?"} = DOMAIN s
    BY <1>1, <2>1
  <2> QED BY <2>2, KeptAll
<1>3. mapped = s
  <2>1. \A i \in 1 .. Len(s) : Mapped(s[i]) = s[i]
    BY <1>1, MappedSymbol, LenProperties
  <2>2. s = [i \in 1 .. Len(s) |-> s[i]]
    BY LenProperties
  <2> HIDE DEF kept
  <2> QED BY <1>1, <1>2, <2>1, <2>2
<1>4. Trim(s) = s
  <2> DEFINE solid == {i \in DOMAIN s : s[i] # "-"}
  <2>1. 1 \in solid /\ Len(s) \in solid
    BY <1>1 DEF Lower
  <2>2. /\ Min(solid) \in 1 .. Len(s) /\ Max(solid) \in 1 .. Len(s)
        /\ \A i \in solid : Min(solid) =< i /\ i =< Max(solid)
    BY <2>1, SolidEnds
  <2>3. solid # {} /\ Trim(s) = SubSeq(s, Min(solid), Max(solid))
    BY <2>1 DEF Trim
  <2> HIDE DEF solid
  <2>4. Min(solid) = 1 /\ Max(solid) = Len(s)
    BY <1>1, <2>1, <2>2
  <2>5. Trim(s) = SubSeq(s, 1, Len(s))
    BY <2>3, <2>4
  <2> QED BY <2>5, SubSeqFull
<1>5. Collapse(s) = s
  <2>1. \A i \in DOMAIN s : i = 1 \/ s[i] # "-" \/ s[i - 1] # "-"
    <3> TAKE i \in DOMAIN s
    <3>1. CASE i \in 2 .. Len(s)
      BY <3>1 DEF NoDoubleHyphen
    <3>2. CASE i \notin 2 .. Len(s)
      BY <3>2, <1>1
    <3> QED BY <3>1, <3>2
  <2>2. {i \in DOMAIN s : i = 1 \/ s[i] # "-" \/ s[i - 1] # "-"} = DOMAIN s
    BY <2>1
  <2> QED BY <2>2, KeptAll DEF Collapse
<1>6. Prefixed(s) = s
  <2>1. Head(s) \notin Digits
    BY <1>1 DEF Lower, Digits
  <2> QED BY <1>1, <2>1 DEF Prefixed
<1>7. SanitizeDNS1035Label(s) = Prefixed(Collapse(Trim(mapped)))
  BY DEF SanitizeDNS1035Label
<1> HIDE DEF mapped
<1> QED BY <1>3, <1>4, <1>5, <1>6, <1>7

(***************************************************************************)
(* Suffixes                                                                *)
(***************************************************************************)
\* The names of children are names with a suffix.
Suffixed(s, x) == s \o << "-", x >>

LEMMA SuffixedIs ==
  ASSUME NEW s \in Seq(Symbols), NEW x \in Symbols
  PROVE  /\ Suffixed(s, x) \in Seq(Symbols)
         /\ Len(s) \in Nat /\ Len(Suffixed(s, x)) = Len(s) + 2
         /\ \A i \in 1 .. Len(s) : Suffixed(s, x)[i] = s[i]
         /\ Suffixed(s, x)[Len(s) + 1] = "-" /\ Suffixed(s, x)[Len(s) + 2] = x
<1>0. "-" \in Symbols
  BY DEF Symbols
<1>1. << "-", x >> \in Seq(Symbols) /\ Len(<< "-", x >>) = 2
  BY <1>0
<1>2. Len(s) \in Nat
  BY LenProperties
<1>3. /\ Suffixed(s, x) \in Seq(Symbols) /\ Len(Suffixed(s, x)) = Len(s) + 2
      /\ \A i \in 1 .. Len(s) + 2 :
           Suffixed(s, x)[i] = IF i <= Len(s) THEN s[i] ELSE << "-", x >>[i - Len(s)]
  BY <1>1, <1>2, ConcatProperties DEF Suffixed
<1> QED BY <1>2, <1>3

\* They are the same only if the names and the suffixes are.
LEMMA SuffixedApart ==
  ASSUME NEW s \in Seq(Symbols), NEW t \in Seq(Symbols), NEW x \in Symbols, NEW y \in Symbols,
         Suffixed(s, x) = Suffixed(t, y)
  PROVE  s = t /\ x = y
<1> HIDE DEF Suffixed
<1>1. /\ Len(s) \in Nat /\ Len(Suffixed(s, x)) = Len(s) + 2
      /\ \A i \in 1 .. Len(s) : Suffixed(s, x)[i] = s[i]
      /\ Suffixed(s, x)[Len(s) + 2] = x
  BY SuffixedIs
<1>2. /\ Len(t) \in Nat /\ Len(Suffixed(t, y)) = Len(t) + 2
      /\ \A i \in 1 .. Len(t) : Suffixed(t, y)[i] = t[i]
      /\ Suffixed(t, y)[Len(t) + 2] = y
  BY SuffixedIs
<1>3. Len(s) = Len(t)
  BY <1>1, <1>2
<1> QED BY <1>1, <1>2, <1>3, SeqEqual

LEMMA EPPNameIs ==
  ASSUME NEW n \in Seq(Symbols)
  PROVE  EPPName(n) = Suffixed(SanitizeDNS1035Label(n), "epp")
         /\ SanitizeDNS1035Label(n) \in Seq(Symbols)
<1>1. LabelSymbols \subseteq Symbols
  BY DEF LabelSymbols, Symbols
<1> QED BY <1>1, SanitizedLabel DEF EPPName, Suffixed

\* No two services whose names are labels, without two hyphens in a row, share the
\* name of an EPP.
THEOREM EPPNamesDiffer ==
  ASSUME NEW n \in Seq(Symbols), IsLabel(n), NoDoubleHyphen(n),
         NEW m \in Seq(Symbols), IsLabel(m), NoDoubleHyphen(m),
         EPPName(n) = EPPName(m)
  PROVE  n = m
<1>1. Suffixed(n, "epp") = Suffixed(m, "epp")
  BY LabelKept, EPPNameIs
<1>2. "epp" \in Symbols
  BY DEF Symbols, Lower
<1> QED BY <1>1, <1>2, SuffixedApart
(***************************************************************************)
(* Names the API server accepts.                                           *)
(***************************************************************************)
LEMMA EndsAre ==
  ASSUME NEW s \in Seq(Symbols), s # << >>
  PROVE  /\ Len(s) \in Nat /\ Len(s) # 0 /\ DOMAIN s = 1 .. Len(s)
         /\ Head(s) = s[1] /\ Last(s) = s[Len(s)]
BY LenProperties DEF Last

LEMMA LowerIsNotSeparator == "-" \notin Lower \cup Digits /\ "." \notin Lower \cup Digits
BY DEF Lower, Digits

\* A label is a legal name of every object, and a suffix makes neither illegal.
LEMMA LabelIsObjectName ==
  ASSUME NEW s \in Seq(Symbols), IsLabel(s)
  PROVE  IsObjectName(s)
<1>1. /\ s # << >> /\ Len(s) \in Nat /\ Len(s) # 0 /\ DOMAIN s = 1 .. Len(s)
      /\ \A i \in 1 .. Len(s) : s[i] \in Lower \cup Digits \cup {"-"}
      /\ Head(s) \in Lower /\ Last(s) # "-" /\ Head(s) = s[1] /\ Last(s) = s[Len(s)]
  BY EndsAre DEF IsLabel
<1>2. \A i \in 1 .. Len(s) : s[i] # "."
  BY <1>1, LowerIsNotSeparator
<1>3. Head(s) \notin {"-", "."} /\ Last(s) \notin {"-", "."}
  BY <1>1, <1>2, LowerIsNotSeparator
<1> QED BY <1>1, <1>2, <1>3 DEF IsObjectName

LEMMA SuffixedElements ==
  ASSUME NEW s \in Seq(Symbols), s # << >>, NEW x \in Lower
  PROVE  LET t == Suffixed(s, x)
             n == Len(s)
         IN  /\ t \in Seq(Symbols) /\ t # << >> /\ n \in Nat /\ n # 0 /\ Len(t) = n + 2
             /\ DOMAIN t = 1 .. n + 2 /\ Head(t) = s[1] /\ Last(t) = x
             /\ \A i \in 1 .. n : t[i] = s[i]
             /\ t[n + 1] = "-" /\ t[n + 2] = x
<1> DEFINE t == Suffixed(s, x)
<1>1. x \in Symbols
  BY DEF Symbols
<1>2. /\ t \in Seq(Symbols) /\ Len(s) \in Nat /\ Len(t) = Len(s) + 2
      /\ \A i \in 1 .. Len(s) : t[i] = s[i]
      /\ t[Len(s) + 1] = "-" /\ t[Len(s) + 2] = x
  BY <1>1, SuffixedIs
<1>3. Len(s) # 0
  BY EndsAre
<1> HIDE DEF t
<1>4. t # << >>
  BY <1>2, <1>3
<1>5. DOMAIN t = 1 .. Len(s) + 2 /\ Head(t) = t[1] /\ Last(t) = t[Len(s) + 2]
  BY <1>2, <1>4, EndsAre
<1> QED BY <1>2, <1>3, <1>4, <1>5 DEF t

LEMMA SuffixedLabel ==
  ASSUME NEW s \in Seq(Symbols), IsLabel(s), NEW x \in Lower
  PROVE  IsLabel(Suffixed(s, x))
<1> DEFINE t == Suffixed(s, x)
           n == Len(s)
<1>1. /\ s # << >> /\ DOMAIN s = 1 .. n /\ s[1] \in Lower
      /\ \A i \in 1 .. n : s[i] \in Lower \cup Digits \cup {"-"}
  BY EndsAre DEF IsLabel
<1>2. /\ t # << >> /\ n \in Nat /\ DOMAIN t = 1 .. n + 2 /\ Head(t) = s[1] /\ Last(t) = x
      /\ \A i \in 1 .. n : t[i] = s[i]
      /\ t[n + 1] = "-" /\ t[n + 2] = x
  BY <1>1, SuffixedElements
<1> HIDE DEF t, n
<1>3. \A i \in 1 .. n + 2 : t[i] \in Lower \cup Digits \cup {"-"}
  <2> TAKE i \in 1 .. n + 2
  <2>1. i \in 1 .. n \/ i = n + 1 \/ i = n + 2
    BY <1>2
  <2> QED BY <2>1, <1>1, <1>2
<1>4. IsLabel(t)
  BY <1>1, <1>2, <1>3, LowerIsNotSeparator DEF IsLabel
<1> QED BY <1>4 DEF t

LEMMA SuffixedObjectName ==
  ASSUME NEW s \in Seq(Symbols), IsObjectName(s), NEW x \in Lower
  PROVE  IsObjectName(Suffixed(s, x))
<1> DEFINE t == Suffixed(s, x)
           n == Len(s)
<1>1. /\ s # << >> /\ DOMAIN s = 1 .. n
      /\ s[1] \notin {"-", "."} /\ s[n] \notin {"-", "."}
      /\ \A i \in 1 .. n : s[i] \in Lower \cup Digits \cup {"-", "."}
      /\ \A i \in 1 .. n - 1 : s[i] = "." => s[i + 1] \notin {"-", "."}
      /\ \A i \in 2 .. n : s[i] = "." => s[i - 1] \notin {"-", "."}
  BY EndsAre DEF IsObjectName
<1>2. /\ t # << >> /\ n \in Nat /\ n # 0 /\ Len(t) = n + 2 /\ DOMAIN t = 1 .. n + 2
      /\ Head(t) = s[1] /\ Last(t) = x
      /\ \A i \in 1 .. n : t[i] = s[i]
      /\ t[n + 1] = "-" /\ t[n + 2] = x
  BY <1>1, SuffixedElements
<1>3. x \notin {"-", "."}
  BY LowerIsNotSeparator
<1> HIDE DEF t, n
<1>4. \A i \in 1 .. n + 2 : t[i] \in Lower \cup Digits \cup {"-", "."}
  <2> TAKE i \in 1 .. n + 2
  <2>1. i \in 1 .. n \/ i = n + 1 \/ i = n + 2
    BY <1>2
  <2> QED BY <2>1, <1>1, <1>2
<1>5. \A i \in 1 .. n + 1 : t[i] = "." => t[i + 1] \notin {"-", "."}
  <2> SUFFICES ASSUME NEW i \in 1 .. n + 1, t[i] = "." PROVE t[i + 1] \notin {"-", "."}
    OBVIOUS
  <2>1. i \in 1 .. n - 1
    <3>1. i \in 1 .. n - 1 \/ i = n \/ i = n + 1
      BY <1>2
    <3>2. i # n
      BY <1>1, <1>2
    <3>3. i # n + 1
      BY <1>2
    <3> QED BY <3>1, <3>2, <3>3
  <2>2. i \in 1 .. n /\ i + 1 \in 1 .. n
    BY <2>1, <1>2
  <2> QED BY <2>1, <2>2, <1>1, <1>2
<1>6. \A i \in 2 .. n + 2 : t[i] = "." => t[i - 1] \notin {"-", "."}
  <2> SUFFICES ASSUME NEW i \in 2 .. n + 2, t[i] = "." PROVE t[i - 1] \notin {"-", "."}
    OBVIOUS
  <2>1. i \in 2 .. n
    <3>1. i \in 2 .. n \/ i = n + 1 \/ i = n + 2
      BY <1>2
    <3>2. i # n + 1
      BY <1>2
    <3>3. i # n + 2
      BY <1>2, <1>3
    <3> QED BY <3>1, <3>2, <3>3
  <2>2. i \in 1 .. n /\ i - 1 \in 1 .. n
    BY <2>1, <1>2
  <2> QED BY <2>1, <2>2, <1>1, <1>2
<1>7. n + 2 - 1 = n + 1
  BY <1>2
<1>8. IsObjectName(t)
  BY <1>1, <1>2, <1>3, <1>4, <1>5, <1>6, <1>7 DEF IsObjectName
<1> QED BY <1>8 DEF t

\* The name of an EPP is a DNS-1035 label: its Service needs one (helpers.go:137-138).
LEMMA EPPNameIsLabel ==
  ASSUME NEW n \in Seq(Symbols)
  PROVE  EPPName(n) \in Seq(Symbols) /\ IsLabel(EPPName(n)) /\ IsObjectName(EPPName(n))
<1>1. SanitizeDNS1035Label(n) \in Seq(Symbols) /\ IsLabel(SanitizeDNS1035Label(n))
      /\ EPPName(n) = Suffixed(SanitizeDNS1035Label(n), "epp")
  BY SanitizedLabel, EPPNameIs
<1>2. "epp" \in Lower /\ "epp" \in Symbols
  BY DEF Lower, Symbols
<1>3. EPPName(n) \in Seq(Symbols) /\ IsLabel(EPPName(n))
  BY <1>1, <1>2, SuffixedLabel, SuffixedIs
<1> QED BY <1>3, LabelIsObjectName
=============================================================================
