------------------------- MODULE PreconditionsProofs -------------------------
(* Lemmas about Preconditions: how much of a path is read, and when data say *)
(* of a rule what a part of them says.                                       *)
EXTENDS Preconditions, WellFoundedInduction, TLAPS

Less == {ss \in Nat \X Nat : ss[1] < ss[2]}

LEMMA LeastNatural ==
  ASSUME NEW S, S \subseteq Nat, S # {}
  PROVE  \E m \in S : \A n \in S : m <= n
  <1>1. IsWellFoundedOn(Less, Nat)
    BY ONLY NatLessThanWellFounded DEF Less, OpToRel
  <1>2. PICK m \in S : \A n \in S : ~ (<<n, m>> \in Less)
    BY <1>1, WFMin
  <1>3. ASSUME NEW n \in S PROVE m <= n
    <2>1. m \in Nat /\ n \in Nat
      OBVIOUS
    <2>2. n < m => <<n, m>> \in Less
      BY <2>1 DEF Less
    <2> QED
      BY <1>2, <2>1, <2>2
  <1> QED
    BY <1>3

Paths(Keys) == Seq(Keys) \ {<<>>}

\* A path is read up to its first segment with the text of its last one: to the
\* place first, which exists.
LEMMA ReachedEnds ==
  ASSUME NEW Keys, NEW path \in Paths(Keys)
  PROVE  \E first \in 1 .. Len(path) :
           /\ path[first] = path[Len(path)]
           /\ \A j \in 1 .. first - 1 : path[j] # path[Len(path)]
           /\ Reached(path) = SubSeq(path, 1, first)
  <1> DEFINE ends == {i \in DOMAIN path : path[i] = path[Len(path)]}
             End(i) == path[i] = path[Len(path)] /\ \A j \in 1 .. i - 1 : path[j] # path[Len(path)]
  <1>1. Len(path) \in Nat /\ DOMAIN path = 1 .. Len(path) /\ Len(path) >= 1
    BY DEF Paths
  <1>2. ends \subseteq Nat /\ ends # {}
    BY <1>1
  <1>3. PICK m \in ends : \A n \in ends : m <= n
    BY <1>2, LeastNatural
  <1>4. m \in DOMAIN path /\ End(m)
    BY <1>1, <1>3
  <1>5. (CHOOSE i \in DOMAIN path : End(i)) \in 1 .. Len(path) /\ End(CHOOSE i \in DOMAIN path : End(i))
    BY <1>1, <1>4
  <1>6. Reached(path) = SubSeq(path, 1, CHOOSE i \in DOMAIN path : End(i))
    BY DEF Reached
  <1> QED
    BY <1>5, <1>6

\* Something of every path is read, from its start on.
LEMMA ReachedPrefix ==
  ASSUME NEW Keys, NEW path \in Paths(Keys)
  PROVE  /\ Reached(path) \in Paths(Keys)
         /\ Reached(path)[1] = path[1]
         /\ IsPrefixOf(Reached(path), path)
  <1>1. PICK first \in 1 .. Len(path) : Reached(path) = SubSeq(path, 1, first)
    BY ReachedEnds
  <1> QED
    BY <1>1 DEF IsPrefixOf, Paths

\* extractFieldValue reads a path to its end exactly when the text of the last
\* segment does not occur before: of any other path it returns the value of a
\* shorter one, the case that its comparison of texts gets wrong.
THEOREM ReadToTheEnd ==
  ASSUME NEW Keys, NEW path \in Paths(Keys)
  PROVE  Reached(path) = path <=> \A j \in 1 .. Len(path) - 1 : path[j] # path[Len(path)]
  <1>1. PICK first \in 1 .. Len(path) :
           /\ path[first] = path[Len(path)]
           /\ \A j \in 1 .. first - 1 : path[j] # path[Len(path)]
           /\ Reached(path) = SubSeq(path, 1, first)
    BY ReachedEnds
  <1>2. Len(Reached(path)) = first /\ Len(path) \in Nat
    BY <1>1 DEF Paths
  <1>3. CASE first = Len(path)
    <2>1. SubSeq(path, 1, Len(path)) = path
      BY DEF Paths
    <2> QED
      BY <1>1, <1>3, <2>1
  <1>4. CASE first # Len(path)
    BY <1>1, <1>2, <1>4
  <1> QED
    BY <1>3, <1>4

-----------------------------------------------------------------------------
(* Data and a part of them.                                                  *)

\* more has the leaves of data, and no others under the key.
Extends(more, data, key, Keys) ==
  /\ DOMAIN data \subseteq DOMAIN more /\ DOMAIN more \subseteq Paths(Keys)
  /\ \A leaf \in DOMAIN data : more[leaf] = data[leaf]
  /\ \A leaf \in DOMAIN more \ DOMAIN data : leaf[1] # key

LEMMA LeafUnder ==
  ASSUME NEW Keys, NEW path \in Paths(Keys), NEW leaf \in Paths(Keys), IsPrefixOf(Reached(path), leaf)
  PROVE  leaf[1] = path[1]
  BY ReachedPrefix DEF IsPrefixOf, Paths

\* A rule on a key under which the data are the same is met by both or by none.
LEMMA SameUnderKey ==
  ASSUME NEW more, NEW data, NEW rule, NEW Keys, rule.field \in Paths(Keys),
         Extends(more, data, rule.field[1], Keys)
  PROVE  RuleMet(more, rule) <=> RuleMet(data, rule)
  <1> DEFINE path == rule.field
  <1>1. ASSUME NEW leaf \in DOMAIN more, IsPrefixOf(Reached(path), leaf)
        PROVE  leaf \in DOMAIN data
    BY <1>1, LeafUnder DEF Extends
  <1>2. Found(more, path) <=> Found(data, path)
    BY <1>1 DEF Found, Extends
  <1>3. FieldValue(more, path) = FieldValue(data, path)
    <2>1. Reached(path) \in Paths(Keys) /\ IsPrefixOf(Reached(path), Reached(path))
      BY ReachedPrefix DEF IsPrefixOf, Paths
    <2> QED
      BY <1>1, <2>1 DEF FieldValue, Extends
  <1> QED
    BY <1>2, <1>3 DEF RuleMet

\* A rule that asks for something to be there is not met where its path finds nothing.
LEMMA PositiveNeedsLeaf ==
  ASSUME NEW data, NEW rule, NEW Keys, rule.field \in Paths(Keys), DOMAIN data \subseteq Paths(Keys),
         rule.operator \in {"exists", "eq", "in"},
         \A leaf \in DOMAIN data : leaf[1] # rule.field[1]
  PROVE  ~RuleMet(data, rule)
  <1>1. ~Found(data, rule.field)
    BY LeafUnder DEF Found
  <1> QED
    BY <1>1 DEF RuleMet
=============================================================================
