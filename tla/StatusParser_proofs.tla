-------------------------- MODULE StatusParser_proofs --------------------------
(***************************************************************************)
(* What the parsers' operators return, for texts of any lines.             *)
(***************************************************************************)
EXTENDS StatusParser, SequenceTheorems, WellFoundedInduction, TLAPS

-----------------------------------------------------------------------------
(* The least number of a set of numbers is one of them, and so is the      *)
(* greatest of a bounded one.                                              *)
LEMMA LeastOfSet ==
    ASSUME NEW T, T \subseteq Nat, T # {}
    PROVE  Min(T) \in T /\ \A y \in T : Min(T) <= y
<1>1. \E x \in T : \A y \in T : ~(<<y, x>> \in OpToRel(<, Nat))
  BY NatLessThanWellFounded, WFMin
<1>2. PICK x \in T : \A y \in T : ~(<<y, x>> \in OpToRel(<, Nat))
  BY <1>1
<1>3. \A y \in T : x <= y
  <2>1. ASSUME NEW y \in T, y < x PROVE FALSE
    <3>1. <<y, x>> \in Nat \X Nat
      OBVIOUS
    <3>2. QED BY <3>1, <2>1, <1>2 DEF OpToRel
  <2>2. QED BY <2>1
<1>4. QED BY <1>3 DEF Min

(* The greatest of a bounded set of numbers is one of them.                *)
LEMMA GreatestOfSet ==
    ASSUME NEW n \in Nat, NEW T, T \subseteq 0 .. n, T # {}
    PROVE  Max(T) \in T /\ \A y \in T : y <= Max(T)
<1> DEFINE D == { n - x : x \in T }
<1>1. D \subseteq Nat /\ D # {}
  <2>1. PICK x : x \in T
    OBVIOUS
  <2>2. n - x \in D
    BY <2>1
  <2>3. \A y \in T : n - y \in Nat
    OBVIOUS
  <2>4. QED BY <2>2, <2>3
<1>2. Min(D) \in D /\ \A d \in D : Min(D) <= d
  BY <1>1, LeastOfSet
<1>3. PICK x \in T : Min(D) = n - x
  BY <1>2
<1>4. \A y \in T : n - x <= n - y
  BY <1>2, <1>3
<1>5. \A y \in T : y <= x
  BY <1>4
<1>6. QED BY <1>5 DEF Max

-----------------------------------------------------------------------------
(* What follows a line of a text.                                          *)
LEMMA SuffixLines ==
    ASSUME NEW S, NEW text \in Seq(S), NEW k \in 1 .. Len(text)
    PROVE  LET rest == SubSeq(text, k + 1, Len(text)) IN
           /\ rest \in Seq(S) /\ Len(rest) = Len(text) - k
           /\ \A i \in 1 .. Len(text) - k : rest[i] = text[k + i]
  BY SubSeqProperties

(* find_header and the title tests: the text after the first title.        *)
LEMMA AfterTitle ==
    ASSUME NEW S, NEW text \in Seq(S), NEW kind
    PROVE  \/ /\ \A k \in 1 .. Len(text) : Kind(text[k]) # kind
              /\ After(text, kind) = <<>>
           \/ \E k \in 1 .. Len(text) :
                 /\ Kind(text[k]) = kind
                 /\ \A j \in 1 .. k - 1 : Kind(text[j]) # kind
                 /\ After(text, kind) = SubSeq(text, k + 1, Len(text))
<1> DEFINE I == { i \in 1 .. Len(text) : Kind(text[i]) = kind }
<1>1. SelectInSeq(text, LAMBDA line : Kind(line) = kind) = IF I # {} THEN Min(I) ELSE 0
  BY DEF SelectInSeq
<1>2. CASE I = {}
  BY <1>1, <1>2 DEF After
<1>3. CASE I # {}
  <2>1. I \subseteq Nat
    OBVIOUS
  <2>2. Min(I) \in I /\ \A y \in I : Min(I) <= y
    BY <1>3, <2>1, LeastOfSet
  <2>3. PICK m \in 1 .. Len(text) : m = Min(I) /\ Kind(text[m]) = kind
    BY <2>2
  <2>4. SelectInSeq(text, LAMBDA line : Kind(line) = kind) = m /\ m # 0
    BY <1>1, <1>3, <2>3
  <2>5. After(text, kind) = SubSeq(text, m + 1, Len(text))
    BY <2>4, Zenon DEF After
  <2>6. \A j \in 1 .. m - 1 : Kind(text[j]) # kind
    BY <2>2, <2>3
  <2>7. QED BY <2>3, <2>5, <2>6
<1>4. QED BY <1>2, <1>3

(* Where the table's column titles never come before the section's own     *)
(* title, parse_status takes up the section there too.                     *)
LEMMA EitherTitle ==
    ASSUME NEW S, NEW text \in Seq(S),
           \A k \in 1 .. Len(text) : Kind(text[k]) = "columns" =>
               \E j \in 1 .. k - 1 : Kind(text[j]) = "matrix"
    PROVE  AfterAny(text, {"matrix", "columns"}) = After(text, "matrix")
<1> DEFINE I == { i \in 1 .. Len(text) : Kind(text[i]) = "matrix" }
           J == { i \in 1 .. Len(text) : Kind(text[i]) \in {"matrix", "columns"} }
<1>1. SelectInSeq(text, LAMBDA line : Kind(line) = "matrix") = IF I # {} THEN Min(I) ELSE 0
  BY DEF SelectInSeq
<1>2. SelectInSeq(text, LAMBDA line : Kind(line) \in {"matrix", "columns"}) =
         IF J # {} THEN Min(J) ELSE 0
  BY DEF SelectInSeq
<1>3. I \subseteq J /\ J \subseteq Nat
  OBVIOUS
<1>4. ASSUME NEW k \in J, k \notin I PROVE \E j \in I : j < k
  <2>1. k \in 1 .. Len(text) /\ Kind(text[k]) = "columns"
    BY <1>4
  <2>2. PICK j \in 1 .. k - 1 : Kind(text[j]) = "matrix"
    BY <2>1
  <2>3. j \in 1 .. Len(text) /\ j < k
    BY <2>1
  <2>4. QED BY <2>2, <2>3
<1>5. (IF J # {} THEN Min(J) ELSE 0) = (IF I # {} THEN Min(I) ELSE 0)
  <2> HIDE DEF I, J
  <2>1. CASE J = {}
    BY <1>3, <2>1
  <2>2. CASE J # {}
    <3>1. Min(J) \in J /\ \A y \in J : Min(J) <= y
      BY <1>3, <2>2, LeastOfSet
    <3>2. Min(J) \in I
      <4>1. SUFFICES ASSUME Min(J) \notin I PROVE FALSE
        OBVIOUS
      <4>2. PICK j \in I : j < Min(J)
        BY <1>4, <3>1, <4>1
      <4>3. Min(J) <= j /\ j \in Nat /\ Min(J) \in Nat
        BY <1>3, <3>1
      <4>4. QED BY <4>2, <4>3
    <3>3. Min(I) \in I /\ \A y \in I : Min(I) <= y
      BY <1>3, <3>2, LeastOfSet
    <3>4. Min(I) = Min(J)
      <4>1. Min(I) <= Min(J) /\ Min(J) <= Min(I) /\ Min(I) \in Nat /\ Min(J) \in Nat
        BY <1>3, <3>1, <3>2, <3>3
      <4>2. QED BY <4>1
    <3>5. QED BY <2>2, <3>2, <3>4
  <2>3. QED BY <2>1, <2>2
<1>6. QED BY <1>1, <1>2, <1>5, Zenon DEF After, AfterAny

(* It is a text again, of some of the same lines in the same order.        *)
LEMMA AfterLines ==
    ASSUME NEW S, NEW text \in Seq(S), NEW kind
    PROVE  /\ After(text, kind) \in Seq(S)
           /\ \A k \in 1 .. Len(text), j \in 1 .. Len(text) :
                 Kind(text[k]) = kind /\ k < j =>
                     \E i \in 1 .. Len(After(text, kind)) :
                         After(text, kind)[i] = text[j]
<1>1. CASE /\ \A k \in 1 .. Len(text) : Kind(text[k]) # kind
           /\ After(text, kind) = <<>>
  BY <1>1
<1>2. ASSUME NEW m \in 1 .. Len(text), \A j \in 1 .. m - 1 : Kind(text[j]) # kind,
             After(text, kind) = SubSeq(text, m + 1, Len(text))
      PROVE  /\ After(text, kind) \in Seq(S)
             /\ \A k \in 1 .. Len(text), j \in 1 .. Len(text) :
                   Kind(text[k]) = kind /\ k < j =>
                       \E i \in 1 .. Len(After(text, kind)) :
                           After(text, kind)[i] = text[j]
  <2>1. /\ After(text, kind) \in Seq(S)
        /\ Len(After(text, kind)) = Len(text) - m
        /\ \A i \in 1 .. Len(text) - m : After(text, kind)[i] = text[m + i]
    BY <1>2, SubSeqProperties
  <2>2. ASSUME NEW k \in 1 .. Len(text), NEW j \in 1 .. Len(text),
               Kind(text[k]) = kind, k < j
        PROVE  \E i \in 1 .. Len(After(text, kind)) : After(text, kind)[i] = text[j]
    <3>1. m <= k
      BY <1>2, <2>2
    <3>2. j - m \in 1 .. Len(text) - m
      BY <2>2, <3>1
    <3>3. QED BY <2>1, <3>2
  <2>3. QED BY <2>1, <2>2
<1>3. QED BY <1>1, <1>2, AfterTitle

-----------------------------------------------------------------------------
(* The rows the Lua parser reads, at the numbers of their lines.           *)
LEMMA LuaRows ==
    ASSUME NEW text
    PROVE  LET rest == After(text, "matrix") IN
           /\ DOMAIN LuaRouting(text) =
                  { k \in DOMAIN rest : Kind(rest[k]) \in {"route", "outset", "outeq"} }
           /\ \A k \in DOMAIN LuaRouting(text) : LuaRouting(text)[k] = LuaRoute(rest[k])
  BY DEF LuaRouting, Rows, OfKind

(* collapse_routing: the last row of an output decides.                    *)
LEMMA CollapseTakesTheLast ==
    ASSUME NEW n \in Nat, NEW rows, DOMAIN rows \subseteq 1 .. n,
           NEW outputs, NEW o \in outputs
    PROVE  \/ /\ \A k \in DOMAIN rows : ~(rows[k][1] = o /\ rows[k][2] = "L")
              /\ CollapseRouting(rows, outputs)[o] = 0
           \/ \E k \in DOMAIN rows :
                 /\ rows[k][1] = o /\ rows[k][2] = "L"
                 /\ CollapseRouting(rows, outputs)[o] = rows[k][3]
                 /\ \A j \in DOMAIN rows : rows[j][1] = o /\ rows[j][2] = "L" => j <= k
<1> DEFINE own == { k \in DOMAIN rows : rows[k][1] = o /\ rows[k][2] = "L" }
<1>1. CollapseRouting(rows, outputs)[o] = IF own = {} THEN 0 ELSE rows[Max(own)][3]
  BY DEF CollapseRouting
<1>2. CASE own = {}
  BY <1>1, <1>2
<1>3. CASE own # {}
  <2>1. own \subseteq 0 .. n
    OBVIOUS
  <2>2. Max(own) \in own /\ \A y \in own : y <= Max(own)
    BY <1>3, <2>1, GreatestOfSet
  <2>3. QED BY <1>1, <1>3, <2>2
<1>4. QED BY <1>2, <1>3
=============================================================================
