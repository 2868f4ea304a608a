---------------------------- MODULE ScriptProofs ----------------------------
(***************************************************************************)
(* Proofs about the helper suite: for every template and every number of   *)
(* passes the engine renders what the template means.                      *)
(***************************************************************************)
EXTENDS ScriptBuild, FiniteSetTheorems, TLAPS

\* A set of naturals that is not empty has a least element: finite sets are
\* well-founded under inclusion, n standing for 1..n.
LEMMA LeastNatural ==
    ASSUME NEW T, T \subseteq Nat, T # {}
    PROVE  \E n \in T : \A m \in T : n <= m
<1> DEFINE U == {1 .. n : n \in T}
           R == StrictSubsetOrdering(Nat)
<1>1. U \subseteq FiniteSubsetsOf(Nat)
  <2> SUFFICES ASSUME NEW n \in T PROVE 1 .. n \in FiniteSubsetsOf(Nat)
    OBVIOUS
  <2>1. IsFiniteSet(1 .. n)
    BY FS_Interval
  <2> QED BY <2>1 DEF FiniteSubsetsOf
<1>2. IsWellFoundedOn(R, FiniteSubsetsOf(Nat))
  BY FS_StrictSubsetOrderingWellFounded
<1>3. U # {}
  OBVIOUS
<1>4. \E x \in U : \A y \in U : ~(<<y, x>> \in R)
  <2> HIDE DEF R, U
  <2> QED BY <1>1, <1>2, <1>3, WFMin
<1>5. PICK n \in T : \A m \in T : ~(<<1 .. m, 1 .. n>> \in R)
  BY <1>4
<1>6. ASSUME NEW m \in T, m < n PROVE FALSE
  <2>1. 1 .. m \subseteq 1 .. n /\ 1 .. m \subseteq Nat /\ 1 .. n \subseteq Nat
    BY <1>6
  <2>2. n \in 1 .. n /\ n \notin 1 .. m
    BY <1>6
  <2> QED BY <1>5, <2>1, <2>2 DEF StrictSubsetOrdering
<1> QED BY <1>6

\* A set that has 0, and n + 1 with each n, has every natural number.
LEMMA InductionOnNat ==
    ASSUME NEW T, 0 \in T, \A n \in Nat : n \in T => n + 1 \in T
    PROVE  Nat \subseteq T
<1> SUFFICES ASSUME Nat \ T # {} PROVE FALSE
  OBVIOUS
<1>1. PICK n \in Nat \ T : \A m \in Nat \ T : n <= m
  <2> DEFINE U == Nat \ T
  <2>1. U \subseteq Nat /\ U # {}
    OBVIOUS
  <2> HIDE DEF U
  <2>2. \E n \in U : \A m \in U : n <= m
    BY <2>1, LeastNatural
  <2> QED BY <2>2 DEF U
<1>2. n # 0 
  BY <1>1
<1>3. n - 1 \in Nat /\ (n-1) \in T
  BY <1>1, <1>2
<1> QED BY <1>1, <1>3

-----------------------------------------------------------------------------
(* Blocks and how deep they lie. *)

Blocks(t) == DOMAIN t.ends
Level(t, b) == Cardinality(Around(t, b))

\* Two blocks lie one in the other or one after the other; so what is around a
\* block's start is around its end, and two blocks share no marker.
LEMMA BlocksAre ==
    ASSUME NEW t, WellFormed(t)
    PROVE  /\ Blocks(t) = Places(t.text, "open")
           /\ \A b \in Blocks(t) :
                 /\ b \in DOMAIN t.text /\ t.ends[b] \in DOMAIN t.text
                 /\ b \in Nat /\ t.ends[b] \in Nat /\ b < t.ends[b]
                 /\ t.text[b].kind = "open" /\ t.text[t.ends[b]].kind = "close"
                 /\ t.text[t.ends[b]].name = t.text[b].name
           /\ \A b, c \in Blocks(t) :
                 \/ b = c \/ t.ends[b] < c \/ t.ends[c] < b
                 \/ b < c /\ t.ends[c] < t.ends[b] /\ t.text[b].name # t.text[c].name
                 \/ c < b /\ t.ends[b] < t.ends[c] /\ t.text[b].name # t.text[c].name
           /\ \A i \in DOMAIN t.text : i \in Nat \ {0}
           /\ \A b \in Blocks(t) : Around(t, t.ends[b]) = Around(t, b)
<1>1. \A i \in DOMAIN t.text : i \in Nat \ {0}
  BY DEF WellFormed
<1>2. /\ Blocks(t) = Places(t.text, "open")
      /\ \A b \in Blocks(t) :
           /\ b \in DOMAIN t.text /\ t.ends[b] \in DOMAIN t.text /\ b < t.ends[b]
           /\ t.text[b].kind = "open" /\ t.text[t.ends[b]].kind = "close"
           /\ t.text[t.ends[b]].name = t.text[b].name
  BY DEF WellFormed, Places, Blocks
<1>3. \A b, c \in Blocks(t) :
         \/ b = c \/ t.ends[b] < c \/ t.ends[c] < b
         \/ b < c /\ t.ends[c] < t.ends[b] /\ t.text[b].name # t.text[c].name
         \/ c < b /\ t.ends[b] < t.ends[c] /\ t.text[b].name # t.text[c].name
  BY DEF WellFormed, Blocks
<1>4. \A b \in Blocks(t) : Around(t, t.ends[b]) = Around(t, b)
  BY <1>1, <1>2, <1>3 DEF Around, Blocks
<1> QED BY <1>1, <1>2, <1>3, <1>4

\* There are finitely many.
LEMMA FiniteAround ==
    ASSUME NEW t, WellFormed(t), NEW i
    PROVE  IsFiniteSet(Around(t, i)) /\ Cardinality(Around(t, i)) \in Nat
<1>1. DOMAIN t.text = 1..Len(t.text) /\ Len(t.text) \in Int
  BY DEF WellFormed
<1>2. IsFiniteSet(DOMAIN t.text)
  BY <1>1, FS_Interval
<1>3. Around(t, i) \in SUBSET DOMAIN t.text
  BY BlocksAre DEF Around, Blocks
<1> QED BY <1>2, <1>3, FS_Subset, FS_CardinalityType

\* A block around a block lies less deep, in fewer blocks.
LEMMA OuterIsHigher ==
    ASSUME NEW t, WellFormed(t), NEW b \in Blocks(t), NEW c \in Around(t, b)
    PROVE  /\ c \in Blocks(t)
           /\ Around(t, c) \subseteq Around(t, b)
           /\ Level(t, c) < Level(t, b)
<1>1. c \in Blocks(t) /\ Around(t, c) \subseteq Around(t, b) /\ c \notin Around(t, c)
  BY BlocksAre DEF Around, Blocks
<1>2. Around(t, c) # Around(t, b)
  BY <1>1
<1>3. /\ IsFiniteSet(Around(t, b))
      /\ Cardinality(Around(t, b)) \in Nat /\ Cardinality(Around(t, c)) \in Nat
  BY FiniteAround
<1> QED BY <1>1, <1>2, <1>3, FS_Subset DEF Level

\* The innermost of the blocks around a block lies one less deep.
LEMMA Parent ==
    ASSUME NEW t, WellFormed(t), NEW b \in Blocks(t), Around(t, b) # {}
    PROVE  \E c \in Around(t, b) : Level(t, c) = Level(t, b) - 1
<1> DEFINE T == {b - c : c \in Around(t, b)}
<1>1. PICK c \in Around(t, b) : \A d \in Around(t, b) : d <= c
  <2>1. T \subseteq Nat /\ T # {}
    BY BlocksAre DEF Around, Blocks
  <2>2. \E n \in T : \A m \in T : n <= m
    <3> HIDE DEF T
    <3> QED BY <2>1, LeastNatural
  <2>3. PICK c \in Around(t, b) : \A d \in Around(t, b) : b - c <= b - d
    BY <2>2
  <2>4. b \in Nat /\ \A d \in Around(t, b) : d \in Nat
    BY BlocksAre DEF Around, Blocks
  <2> QED BY <2>3, <2>4
<1>2. Around(t, c) = Around(t, b) \ {c}
  BY <1>1, BlocksAre DEF Around, Blocks
<1>3. IsFiniteSet(Around(t, b))
  BY FiniteAround
<1> QED BY <1>1, <1>2, <1>3, FS_RemoveElement DEF Level

\* So around a block that lies deeper than k is one that lies k deep.
LEMMA OneAtEachLevel ==
    ASSUME NEW t, WellFormed(t), NEW b \in Blocks(t), NEW k \in Nat, k < Level(t, b)
    PROVE  \E c \in Around(t, b) : Level(t, c) = k
<1> DEFINE A == {c \in Around(t, b) \cup {b} : k <= Level(t, c)}
           T == {Level(t, c) : c \in A}
<1>1. \A c \in A : c \in Blocks(t) /\ Level(t, c) \in Nat
  BY OuterIsHigher, FiniteAround DEF Level, Around, Blocks
<1>2. PICK c \in A : \A d \in A : Level(t, c) <= Level(t, d)
  <2>1. Level(t, b) \in Nat
    BY FiniteAround DEF Level
  <2>2. b \in A
    BY <2>1
  <2>3. T \subseteq Nat /\ T # {}
    BY <1>1, <2>2
  <2>4. \E n \in T : \A m \in T : n <= m
    <3> HIDE DEF T
    <3> QED BY <2>3, LeastNatural
  <2> QED BY <2>4
<1>3. Level(t, c) = k
  <2> SUFFICES ASSUME Level(t, c) # k
               PROVE  FALSE
    OBVIOUS
  <2>1. Level(t, c) > k
    BY <1>1, <1>2
  <2>2. Around(t, c) # {}
    BY <2>1, FS_EmptySet DEF Level
  <2>3. PICK d \in Around(t, c) : Level(t, d) = Level(t, c) - 1
    BY <1>1, <2>2, Parent
  <2>4. d \in Around(t, b)
    BY <2>3, <1>1, OuterIsHigher
  <2>5. d \in A
    BY <2>3, <2>4, <2>1, <1>1
  <2> QED BY <2>5, <2>3, <1>1, <1>2
<1>4. c # b
  BY <1>3
<1> QED BY <1>3, <1>4

-----------------------------------------------------------------------------
(* The passes.  The k-th takes out the blocks that lie k deep, of those that *)
(* the ones before have left; what is left then is as follows.             *)

On(t, chosen, b) == t.text[b].name \in DOMAIN chosen /\ chosen[t.text[b].name]

Left(t, chosen, k) ==
    {i \in DOMAIN t.text :
        /\ \A b \in Around(t, i) : Level(t, b) < k => On(t, chosen, b)
        /\ \A b \in Blocks(t) : i \in {b, t.ends[b]} => Level(t, b) >= k}

TextAt(t, chosen, k) == Restrict(t.text, Left(t, chosen, k))
OutermostAt(t, chosen, k) == {b \in Blocks(t) \cap Left(t, chosen, k) : Level(t, b) = k}

LEMMA MinIs ==
    ASSUME NEW S, S \subseteq Int, NEW x \in S, \A y \in S : x <= y
    PROVE  Min(S) = x
<1>1. \A z \in S : (\A y \in S : z <= y) => z = x
  OBVIOUS
<1> QED BY <1>1 DEF Min

\* Of what a block opened, its start and its end are left or gone together.
LEMMA MarkersLeft ==
    ASSUME NEW t, WellFormed(t), NEW chosen, NEW k \in Nat, NEW b \in Blocks(t)
    PROVE  /\ b \in Left(t, chosen, k) <=>
                 /\ \A c \in Around(t, b) : Level(t, c) < k => On(t, chosen, c)
                 /\ Level(t, b) >= k
           /\ t.ends[b] \in Left(t, chosen, k) <=> b \in Left(t, chosen, k)
<1>1. \A c \in Blocks(t) : b \in {c, t.ends[c]} => c = b
  BY BlocksAre
<1>2. \A c \in Blocks(t) : t.ends[b] \in {c, t.ends[c]} => c = b
  BY BlocksAre
<1>3. b \in DOMAIN t.text /\ t.ends[b] \in DOMAIN t.text
  BY BlocksAre
<1>4. Around(t, t.ends[b]) = Around(t, b)
  BY BlocksAre
<1> QED BY <1>1, <1>2, <1>3, <1>4 DEF Left

\* The nearest end of a block that is left is its own.
LEMMA StartsAre ==
    ASSUME NEW t, WellFormed(t), NEW chosen, NEW k \in Nat
    PROVE  /\ Starts(TextAt(t, chosen, k)) = Blocks(t) \cap Left(t, chosen, k)
           /\ \A b \in Blocks(t) \cap Left(t, chosen, k) :
                 End(TextAt(t, chosen, k), b) = t.ends[b]
<1> DEFINE text == TextAt(t, chosen, k)
           L == Left(t, chosen, k)
<1>1. L \subseteq DOMAIN t.text /\ DOMAIN text = L /\ \A i \in L : text[i] = t.text[i]
  BY DEF TextAt, Restrict, Left
<1> HIDE DEF text, L
<1>2. Places(text, "open") = Blocks(t) \cap L
  BY <1>1, BlocksAre DEF Places
<1>3. ASSUME NEW b \in Blocks(t) \cap L
      PROVE  Ends(text, b) # {} /\ End(text, b) = t.ends[b]
  <2>1. t.ends[b] \in L
    BY MarkersLeft DEF L
  <2>2. t.ends[b] \in Ends(text, b)
    BY <1>1, <2>1, BlocksAre DEF Ends, Places
  <2>3. ASSUME NEW j \in Ends(text, b)
        PROVE  t.ends[b] <= j /\ j \in Int
    <3>1. /\ j \in L /\ t.text[j].kind = "close" /\ b < j
          /\ t.text[j].name = t.text[b].name
      BY <1>1 DEF Ends, Places
    <3>2. PICK c \in Blocks(t) : t.ends[c] = j
      BY <1>1, <3>1 DEF WellFormed, Places, Range, Blocks
    <3>3. t.text[c].name = t.text[b].name
      BY <3>1, <3>2, BlocksAre
    <3> QED BY <3>1, <3>2, <3>3, BlocksAre
  <2>4. Min(Ends(text, b)) = t.ends[b]
    <3>1. Ends(text, b) \subseteq Int /\ \A j \in Ends(text, b) : t.ends[b] <= j
      BY <2>3
    <3> QED BY <3>1, <2>2, MinIs
  <2> QED BY <2>2, <2>4 DEF End
<1>4. Starts(text) = Blocks(t) \cap L
  BY <1>2, <1>3 DEF Starts
<1> QED BY <1>3, <1>4 DEF text, L

\* There is only one way to find blocks from the left.
LEMMA FoundIs ==
    ASSUME NEW text, Starts(text) \subseteq Nat, NEW S \in SUBSET Starts(text),
           \A i \in Starts(text) : i \in S <=> \A k \in S : k < i => End(text, k) < i
    PROVE  Found(text) = S
<1> DEFINE FromLeft(F) == \A i \in Starts(text) : i \in F <=> \A k \in F : k < i => End(text, k) < i
<1>1. Found(text) \in SUBSET Starts(text) /\ FromLeft(Found(text))
  BY DEF Found
<1>2. ASSUME NEW F \in SUBSET Starts(text), FromLeft(F), F # S
      PROVE  FALSE
  <2> DEFINE D == (F \ S) \cup (S \ F)
  <2>1. D \subseteq Nat /\ D # {}
    BY <1>2
  <2>2. PICK i \in D : \A j \in D : i <= j
    <3> HIDE DEF D
    <3> QED BY <2>1, LeastNatural
  <2>3. \A k \in Starts(text) : k < i => (k \in F <=> k \in S)
    BY <2>1, <2>2
  <2>4. i \in F <=> i \in S
    BY <1>2, <2>2, <2>3
  <2> QED BY <2>2, <2>4
<1> QED BY <1>1, <1>2

\* A pass finds the blocks that lie outermost.
LEMMA FoundAre ==
    ASSUME NEW t, WellFormed(t), NEW chosen, NEW k \in Nat
    PROVE  Found(TextAt(t, chosen, k)) = OutermostAt(t, chosen, k)
<1> DEFINE text == TextAt(t, chosen, k)
           S == OutermostAt(t, chosen, k)
<1>1. /\ Starts(text) = Blocks(t) \cap Left(t, chosen, k)
      /\ \A b \in Starts(text) : End(text, b) = t.ends[b]
  BY StartsAre
<1>2. S \in SUBSET Starts(text) /\ Starts(text) \subseteq Nat
  BY <1>1, BlocksAre DEF OutermostAt
<1>3. ASSUME NEW i \in Starts(text), i \in S, NEW m \in S, m < i
      PROVE  End(text, m) < i
  <2>1. ~(m \in Around(t, i))
    BY <1>3, <1>1, OuterIsHigher, FiniteAround DEF OutermostAt, Level
  <2>2. i \in Blocks(t) /\ m \in Blocks(t) /\ End(text, m) = t.ends[m]
    BY <1>1, <1>2
  <2> QED BY <1>3, <2>1, <2>2, BlocksAre DEF Around, Blocks
<1>4. ASSUME NEW i \in Starts(text), i \notin S
      PROVE  \E m \in S : m < i /\ ~(End(text, m) < i)
  <2>1. i \in Blocks(t) /\ i \in Left(t, chosen, k) /\ Level(t, i) \in Nat
    BY <1>1, FiniteAround DEF Level
  <2>2. k < Level(t, i)
    BY <1>4, <2>1, MarkersLeft DEF OutermostAt
  <2>3. PICK c \in Around(t, i) : Level(t, c) = k
    BY <2>1, <2>2, OneAtEachLevel
  <2>4. c \in Blocks(t) /\ Around(t, c) \subseteq Around(t, i)
    BY <2>1, OuterIsHigher
  <2>5. c \in Left(t, chosen, k)
    BY <2>1, <2>3, <2>4, MarkersLeft
  <2>6. c \in S /\ End(text, c) = t.ends[c]
    BY <2>3, <2>4, <2>5, <1>1 DEF OutermostAt
  <2>7. c < i /\ i < t.ends[c] /\ i \in Nat /\ t.ends[c] \in Nat
    BY <2>1, <2>4, BlocksAre DEF Around
  <2> QED BY <2>6, <2>7
<1> HIDE DEF text, S
<1>5. \A i \in Starts(text) : i \in S <=> \A m \in S : m < i => End(text, m) < i
  BY <1>3, <1>4
<1>6. Found(text) = S
  BY <1>2, <1>5, FoundIs
<1> QED BY <1>6 DEF text, S

Unknown(t, chosen, k) ==
    \E b \in Blocks(t) : /\ Level(t, b) = k /\ t.text[b].name \notin DOMAIN chosen
                          /\ \A c \in Around(t, b) : On(t, chosen, c)

\* So it takes out these, or fails on a toggle nobody gave.
LEMMA PassIs ==
    ASSUME NEW t, WellFormed(t), NEW chosen, \A x \in DOMAIN chosen : chosen[x] \in BOOLEAN,
           NEW k \in Nat
    PROVE  Pass(TextAt(t, chosen, k), chosen)
             = IF Unknown(t, chosen, k) THEN Failed ELSE TextAt(t, chosen, k + 1)
<1> DEFINE text == TextAt(t, chosen, k)
           L == Left(t, chosen, k)
           S == OutermostAt(t, chosen, k)
           gone == UNION {Gone(text, i, chosen) : i \in Found(text)}
<1>1. Found(text) = S
  BY FoundAre
<1>2. L \subseteq DOMAIN t.text /\ DOMAIN text = L /\ \A i \in L : text[i] = t.text[i]
  BY DEF TextAt, Restrict, Left
<1>3. S \subseteq Blocks(t) \cap L /\ \A b \in S : End(text, b) = t.ends[b]
  BY StartsAre DEF OutermostAt
<1>4. \A b \in Blocks(t) : b \in S <=> /\ Level(t, b) = k
                                     /\ \A c \in Around(t, b) : On(t, chosen, c)
  <2> SUFFICES ASSUME NEW b \in Blocks(t), Level(t, b) = k
               PROVE  b \in L <=> \A c \in Around(t, b) : On(t, chosen, c)
    BY DEF OutermostAt
  <2>1. \A c \in Around(t, b) : Level(t, c) < k
    BY OuterIsHigher
  <2> QED BY <2>1, MarkersLeft
<1>5. NamesAt(text, Found(text)) \subseteq DOMAIN chosen <=> ~Unknown(t, chosen, k)
  BY <1>1, <1>2, <1>3, <1>4 DEF NamesAt, Unknown
<1>6. ASSUME NamesAt(text, Found(text)) \subseteq DOMAIN chosen
      PROVE  DOMAIN text \ gone = Left(t, chosen, k + 1)
  <2>1. \A b \in S : /\ t.text[b].name \in DOMAIN chosen
                     /\ Gone(text, b, chosen) = IF On(t, chosen, b) THEN {b, t.ends[b]}
                                                                   ELSE b..t.ends[b]
    <3> SUFFICES ASSUME NEW b \in S
                 PROVE  /\ t.text[b].name \in DOMAIN chosen
                        /\ Gone(text, b, chosen) = IF On(t, chosen, b) THEN {b, t.ends[b]}
                                                                      ELSE b..t.ends[b]
      OBVIOUS
    <3>1. text[b].name = t.text[b].name /\ End(text, b) = t.ends[b]
      BY <1>2, <1>3
    <3>2. t.text[b].name \in DOMAIN chosen
      BY <1>1, <1>6, <3>1 DEF NamesAt
    <3>3. On(t, chosen, b) <=> chosen[t.text[b].name] = TRUE
      BY <3>2 DEF On
    <3>4. chosen[t.text[b].name] \in BOOLEAN
      BY <3>2
    <3> HIDE DEF text
    <3> QED BY <3>1, <3>2, <3>3, <3>4 DEF Gone
  <2>2. gone = UNION {IF On(t, chosen, b) THEN {b, t.ends[b]} ELSE b..t.ends[b] : b \in S}
    BY <1>1, <2>1
  <2>3. ASSUME NEW i \in Left(t, chosen, k + 1)
        PROVE  i \in L /\ i \notin gone
    <3>1. i \in L
      BY FiniteAround DEF Left, Level
    <3>2. ASSUME NEW b \in S
          PROVE  i \notin IF On(t, chosen, b) THEN {b, t.ends[b]} ELSE b..t.ends[b]
      <4>1. b \in Blocks(t) /\ Level(t, b) = k
        BY <1>3, <1>4
      <4>2. i \notin {b, t.ends[b]}
        BY <4>1 DEF Left
      <4>3. b \in Around(t, i) => On(t, chosen, b)
        BY <4>1 DEF Left
      <4>4. i \in Nat /\ b \in Nat /\ t.ends[b] \in Nat
        BY <4>1, BlocksAre DEF Left
      <4> QED BY <4>1, <4>2, <4>3, <4>4 DEF Around, Blocks
    <3> QED BY <3>1, <3>2, <2>2
  <2>4. ASSUME NEW i \in L, i \notin Left(t, chosen, k + 1)
        PROVE  i \in gone
    <3>1. i \in DOMAIN t.text /\ i \in Nat
      BY <1>2, BlocksAre
    <3>2. \A b \in Blocks(t) : Level(t, b) \in Nat /\ b \in Nat /\ t.ends[b] \in Nat /\ b < t.ends[b]
      BY BlocksAre, FiniteAround DEF Level
    <3>3. CASE \E b \in Blocks(t) : i \in {b, t.ends[b]} /\ ~(Level(t, b) >= k + 1)
      <4>1. PICK b \in Blocks(t) : i \in {b, t.ends[b]} /\ ~(Level(t, b) >= k + 1)
        BY <3>3
      <4>2. Level(t, b) = k
        BY <3>2, <4>1 DEF Left
      <4>3. b \in L
        BY <4>1, MarkersLeft
      <4>4. b \in S
        BY <4>2, <4>3 DEF OutermostAt
      <4>5. i \in IF On(t, chosen, b) THEN {b, t.ends[b]} ELSE b..t.ends[b]
        BY <3>1, <3>2, <4>1
      <4> QED BY <4>4, <4>5, <2>2
    <3>4. CASE \E b \in Around(t, i) : Level(t, b) < k + 1 /\ ~On(t, chosen, b)
      <4>1. PICK b \in Around(t, i) : Level(t, b) < k + 1 /\ ~On(t, chosen, b)
        BY <3>4
      <4>2. b \in Blocks(t) /\ b < i /\ i < t.ends[b]
        BY DEF Around, Blocks
      <4>3. Level(t, b) = k
        BY <3>2, <4>1, <4>2 DEF Left
      <4>4. Around(t, b) \subseteq Around(t, i)
        BY <3>1, <4>2, BlocksAre DEF Around, Blocks
      <4>5. \A c \in Around(t, b) : On(t, chosen, c)
        BY <4>2, <4>3, <4>4, OuterIsHigher DEF Left
      <4>6. b \in S
        BY <1>4, <4>2, <4>3, <4>5
      <4>7. i \in IF On(t, chosen, b) THEN {b, t.ends[b]} ELSE b..t.ends[b]
        BY <3>1, <3>2, <4>1, <4>2
      <4> QED BY <4>6, <4>7, <2>2
    <3> QED BY <2>4, <3>1, <3>3, <3>4 DEF Left
  <2> QED BY <1>2, <2>3, <2>4
<1>7. ASSUME NamesAt(text, Found(text)) \subseteq DOMAIN chosen
      PROVE  Restrict(text, DOMAIN text \ gone) = TextAt(t, chosen, k + 1)
  <2>1. DOMAIN text \ gone = Left(t, chosen, k + 1)
    BY <1>6, <1>7
  <2>2. \A i \in Left(t, chosen, k + 1) : text[i] = t.text[i]
    <3> HIDE DEF text, gone, L
    <3> QED BY <2>1, <1>2
  <2> HIDE DEF text, gone
  <2> QED BY <2>1, <2>2 DEF TextAt, Restrict
<1>8. Pass(text, chosen) = IF NamesAt(text, Found(text)) \subseteq DOMAIN chosen
                           THEN Restrict(text, DOMAIN text \ gone) ELSE Failed
  BY DEF Pass
<1> HIDE DEF text, gone
<1>9. Pass(text, chosen) = IF Unknown(t, chosen, k) THEN Failed ELSE TextAt(t, chosen, k + 1)
  BY <1>5, <1>7, <1>8
<1> QED BY <1>9 DEF text

LEMMA PassOfFailed ==
    ASSUME NEW chosen
    PROVE  Starts(Failed) = {} /\ Pass(Failed, chosen) = Failed
<1>1. DOMAIN Failed = {0} /\ Failed[0].kind = "failure"
  BY DEF Failed
<1>2. Starts(Failed) = {}
  BY <1>1 DEF Starts, Places
<1>3. Found(Failed) = {}
  BY <1>2, FoundIs
<1>4. Restrict(Failed, {0}) = Failed
  BY DEF Restrict, Failed
<1> QED BY <1>1, <1>2, <1>3, <1>4 DEF Pass, NamesAt

\* All passes together, by induction: what counts, without the markers.
LEMMA ResolveIs ==
    ASSUME NEW t, WellFormed(t), NEW chosen, \A x \in DOMAIN chosen : chosen[x] \in BOOLEAN
    PROVE  Resolve(t.text, chosen)
             = IF \E k \in 0..(MaxPasses - 2) : Unknown(t, chosen, k) THEN Failed
               ELSE TextAt(t, chosen, MaxPasses - 1)
<1> DEFINE n == MaxPasses - 1
           At(k) == IF \E j \in 0..(k - 1) : Unknown(t, chosen, j) THEN Failed
                    ELSE TextAt(t, chosen, k)
           Passes(g) == g = [k \in 0..n |-> IF k = 0 THEN t.text ELSE Pass(g[k - 1], chosen)]
           after == CHOOSE g : Passes(g)
<1>1. Resolve(t.text, chosen) = IF Starts(after[n]) = {} THEN after[n] ELSE Failed
  BY DEF Resolve
<1>2. n \in Nat
  BY PassesAssumption
<1>3. At(0) = t.text
  <2>1. Left(t, chosen, 0) = DOMAIN t.text
    BY FiniteAround DEF Left, Level
  <2>2. t.text = [i \in DOMAIN t.text |-> t.text[i]]
    BY DEF WellFormed
  <2> QED BY <2>1, <2>2 DEF TextAt, Restrict
<1>4. \A k \in Nat : Pass(At(k), chosen) = At(k + 1)
  <2> SUFFICES ASSUME NEW k \in Nat
               PROVE  Pass(At(k), chosen) = At(k + 1)
    OBVIOUS
  <2>1. (\E j \in 0..k : Unknown(t, chosen, j))
          <=> (\E j \in 0..(k - 1) : Unknown(t, chosen, j)) \/ Unknown(t, chosen, k)
    OBVIOUS
  <2>2. Pass(TextAt(t, chosen, k), chosen)
          = IF Unknown(t, chosen, k) THEN Failed ELSE TextAt(t, chosen, k + 1)
    BY PassIs
  <2>3. (k + 1) - 1 = k
    OBVIOUS
  <2> QED BY <2>1, <2>2, <2>3, PassOfFailed
<1> HIDE DEF At, n
<1>5. Passes(after)
  <2>1. Passes([k \in 0..n |-> At(k)])
    <3> DEFINE g == [k \in 0..n |-> At(k)]
    <3>1. \A k \in 0..n : k # 0 => g[k] = Pass(g[k - 1], chosen)
      <4> SUFFICES ASSUME NEW k \in 0..n, k # 0
                   PROVE  g[k] = Pass(g[k - 1], chosen)
        OBVIOUS
      <4>1. k - 1 \in Nat /\ k - 1 \in 0..n /\ (k - 1) + 1 = k
        BY <1>2
      <4>2. Pass(At(k - 1), chosen) = At(k)
        BY <4>1, <1>4
      <4> QED BY <4>1, <4>2
    <3> QED BY <3>1, <1>3
  <2> HIDE DEF Passes
  <2> QED BY <2>1
<1> HIDE DEF after
<1>6. after[n] = At(n)
  <2> DEFINE T == {k \in Nat : k \in 0..n => after[k] = At(k)}
  <2>1. 0 \in T
    BY <1>5, <1>3, <1>2
  <2>2. ASSUME NEW k \in Nat, k \in T
        PROVE  k + 1 \in T
    <3> SUFFICES ASSUME k + 1 \in 0..n
                 PROVE  after[k + 1] = At(k + 1)
      OBVIOUS
    <3>1. k \in 0..n /\ k + 1 # 0 /\ (k + 1) - 1 = k
      BY <1>2
    <3>2. after[k + 1] = Pass(after[k], chosen)
      BY <1>5, <3>1
    <3> QED BY <2>2, <3>1, <3>2, <1>4
  <2>3. n \in T
    <3> HIDE DEF T
    <3> QED BY <2>1, <2>2, <1>2, InductionOnNat
  <2> QED BY <2>3, <1>2
<1>7. Starts(At(n)) = {}
  <2>1. Starts(TextAt(t, chosen, n)) = Blocks(t) \cap Left(t, chosen, n)
    BY <1>2, StartsAre
  <2>2. \A b \in Blocks(t) : Level(t, b) \in Nat /\ Level(t, b) < n
    BY FiniteAround DEF WellFormed, Level, Blocks, n
  <2>3. Blocks(t) \cap Left(t, chosen, n) = {}
    BY <2>2, <1>2, MarkersLeft
  <2> QED BY <2>1, <2>3, PassOfFailed DEF At
<1>8. n - 1 = MaxPasses - 2
  BY PassesAssumption DEF n
<1> QED BY <1>1, <1>6, <1>7, <1>8 DEF At, n

\* Passes of a regular expression over flat text render what the blocks of the
\* template mean, whatever the template, the values and the toggles.
LEMMA RenderIs ==
    ASSUME NEW t, WellFormed(t), NEW values,
           NEW chosen, \A x \in DOMAIN chosen : chosen[x] \in BOOLEAN
    PROVE  render(t.text, values, chosen) = Meaning(t, values, chosen)
<1> DEFINE n == MaxPasses - 1
           text == TextAt(t, chosen, n)
           reached == Restrict(t.text, Reached(t, chosen))
           kept == Restrict(reached, Places(reached, "text") \cup Places(reached, "var"))
<1>1. n \in Nat /\ \A b \in Blocks(t) : Level(t, b) \in Nat /\ Level(t, b) < n
  BY PassesAssumption, FiniteAround DEF WellFormed, Level, Blocks
<1>2. \A b \in Blocks(t) : On(t, chosen, b) <=>
         LET name == t.text[b].name IN name \in DOMAIN chosen /\ chosen[name]
  BY DEF On
<1>3. \A i \in DOMAIN t.text : i \in Reached(t, chosen) <=> \A b \in Around(t, i) : On(t, chosen, b)
  BY <1>2 DEF Reached, Around, Blocks
<1>4. \A i : i \in Left(t, chosen, n) <=>
         i \in Reached(t, chosen) /\ t.text[i].kind \in {"text", "var"}
  <2>1. \A i \in DOMAIN t.text : t.text[i].kind \in {"text", "var"}
                                 <=> ~ \E b \in Blocks(t) : i \in {b, t.ends[b]}
    <3>1. \A i \in DOMAIN t.text : t.text[i].kind \in {"text", "var", "open", "close"}
      BY DEF WellFormed
    <3>2. \A i \in Places(t.text, "close") : \E b \in Blocks(t) : i = t.ends[b]
      BY DEF WellFormed, Range, Blocks
    <3> QED BY <3>1, <3>2, BlocksAre DEF Places
  <2>2. Reached(t, chosen) \subseteq DOMAIN t.text /\ Left(t, chosen, n) \subseteq DOMAIN t.text
    BY DEF Reached, Left
  <2>3. \A i \in DOMAIN t.text : i \in Left(t, chosen, n) <=>
           /\ \A b \in Around(t, i) : On(t, chosen, b)
           /\ ~ \E b \in Blocks(t) : i \in {b, t.ends[b]}
    BY <1>1 DEF Left, Around, Blocks
  <2> QED BY <1>3, <2>1, <2>2, <2>3
<1>5. /\ DOMAIN reached = Reached(t, chosen)
      /\ \A i \in Reached(t, chosen) : reached[i] = t.text[i]
  BY DEF Restrict
<1>6. kept = text
  <2>1. Places(reached, "text") \cup Places(reached, "var") = Left(t, chosen, n)
    BY <1>4, <1>5 DEF Places
  <2>2. \A i \in Left(t, chosen, n) : reached[i] = t.text[i]
    BY <1>4, <1>5
  <2> HIDE DEF reached
  <2> QED BY <2>1, <2>2 DEF TextAt, Restrict
<1>7. NamesAt(reached, Places(reached, "open")) \subseteq DOMAIN chosen
        <=> ~ \E k \in 0..(MaxPasses - 2) : Unknown(t, chosen, k)
  <2>1. Places(reached, "open") = Blocks(t) \cap Reached(t, chosen)
    <3>1. Blocks(t) = Places(t.text, "open") /\ Reached(t, chosen) \subseteq DOMAIN t.text
      BY BlocksAre DEF Reached
    <3> HIDE DEF reached
    <3> QED BY <1>5, <3>1 DEF Places
  <2>2. \A b \in Blocks(t) : Level(t, b) \in 0..(MaxPasses - 2)
    BY <1>1, PassesAssumption
  <2>3. \A b \in Blocks(t) : b \in Reached(t, chosen) <=> \A c \in Around(t, b) : On(t, chosen, c)
    BY <1>3, BlocksAre
  <2> HIDE DEF reached
  <2> QED BY <2>1, <2>2, <2>3, <1>5 DEF NamesAt, Unknown
<1>8. text # Failed
  <2>1. 0 \notin DOMAIN text /\ DOMAIN Failed = {0}
    BY BlocksAre DEF TextAt, Restrict, Left, Failed
  <2> QED BY <2>1
<1>9. Resolve(t.text, chosen) = IF \E k \in 0..(MaxPasses - 2) : Unknown(t, chosen, k)
                                THEN Failed ELSE text
  BY ResolveIs
<1>10. Meaning(t, values, chosen)
         = IF /\ NamesAt(reached, Places(reached, "open")) \subseteq DOMAIN chosen
              /\ NamesAt(kept, Places(kept, "var")) \subseteq DOMAIN values
              /\ ~HoldsMarker(Substituted(kept, values))
           THEN Substituted(kept, values)
           ELSE Failed
  BY DEF Meaning
<1> HIDE DEF text, reached, kept
<1> QED BY <1>6, <1>7, <1>8, <1>9, <1>10 DEF render

-----------------------------------------------------------------------------
(* The operators the answers are kept with. *)

LEMMA UpdatedIs ==
    ASSUME NEW d, NEW e
    PROVE  /\ DOMAIN Updated(d, e) = DOMAIN d \cup DOMAIN e
           /\ \A x \in DOMAIN e : Updated(d, e)[x] = e[x]
           /\ \A x \in DOMAIN d \ DOMAIN e : Updated(d, e)[x] = d[x]
BY DEF Updated

LEMMA BranchesAre ==
    ASSUME NEW chosen
    PROVE  /\ \A g \in DOMAIN chosen : \A o \in Options(g) : o.toggle \in DOMAIN Branches(chosen)
           /\ \A x \in DOMAIN Branches(chosen) :
                 \E g \in DOMAIN chosen : \E o \in Options(g) : o.toggle = x
           /\ \A x \in DOMAIN Branches(chosen) :
                 /\ Branches(chosen)[x] \in BOOLEAN
                 /\ Branches(chosen)[x] = TRUE
                      <=> \E g \in DOMAIN chosen : \E o \in Options(g) :
                             o.toggle = x /\ o.value = chosen[g]
<1> DEFINE X == UNION {{o.toggle : o \in Options(g)} : g \in DOMAIN chosen}
           In(x) == \E g \in DOMAIN chosen : \E o \in Options(g) : o.toggle = x /\ o.value = chosen[g]
<1>1. Branches(chosen) = [x \in X |-> In(x)]
  BY DEF Branches
<1>2. /\ \A g \in DOMAIN chosen : \A o \in Options(g) : o.toggle \in X
      /\ \A x \in X : \E g \in DOMAIN chosen : \E o \in Options(g) : o.toggle = x
  OBVIOUS
<1>3. \A x \in X : In(x) \in BOOLEAN
  OBVIOUS
<1> HIDE DEF X, In
<1>4. \A x \in X : Branches(chosen)[x] = In(x)
  BY <1>1
<1>5. \A x \in X : Branches(chosen)[x] \in BOOLEAN /\ (Branches(chosen)[x] = TRUE <=> In(x))
  BY <1>3, <1>4
<1>6. DOMAIN Branches(chosen) = X
  BY <1>1
<1> QED BY <1>2, <1>5, <1>6 DEF In

\* Groups share no toggle, and the values of one tell its options apart.
LEMMA GroupsApart ==
    ASSUME template \in Library
    PROVE  /\ \A g, h \in GroupQuestions : \A o \in Options(g) : \A p \in Options(h) :
                 p.toggle = o.toggle => h = g /\ p = o
           /\ \A g \in GroupQuestions : \A o, p \in Options(g) : p.value = o.value => p = o
           /\ \A g \in GroupQuestions : \A o \in Options(g) : \A x \in ToggleQuestions :
                 x.name # o.toggle
           /\ \A g \in GroupQuestions : \E o \in Options(g) : o.value = g.default
BY NamesAssumption DEF GroupQuestions, Options, ToggleQuestions

\* In d the options of g are set for its value a, and no others.
Branch(d, g, a) ==
    \A o \in Options(g) : /\ o.toggle \in DOMAIN d /\ d[o.toggle] \in BOOLEAN
                          /\ d[o.toggle] = TRUE <=> o.value = a

\* One of its values is chosen.
Chosen(d, g) == \E a \in {o.value : o \in Options(g)} : Branch(d, g, a)

LEMMA BranchesApart ==
    ASSUME template \in Library, NEW chosen, DOMAIN chosen \subseteq GroupQuestions,
           NEW g \in DOMAIN chosen, NEW o \in Options(g)
    PROVE  /\ o.toggle \in DOMAIN Branches(chosen)
           /\ Branches(chosen)[o.toggle] \in BOOLEAN
           /\ Branches(chosen)[o.toggle] = TRUE <=> o.value = chosen[g]
<1> DEFINE x == o.toggle
           Set(y) == \E h \in DOMAIN chosen : \E p \in Options(h) : p.toggle = y /\ p.value = chosen[h]
<1>1. x \in DOMAIN Branches(chosen)
  BY BranchesAre
<1>2. \A h \in DOMAIN chosen : \A p \in Options(h) : p.toggle = o.toggle => h = g /\ p = o
  BY GroupsApart
<1>3. Branches(chosen)[x] \in BOOLEAN /\ (Branches(chosen)[x] = TRUE <=> Set(x))
  BY <1>1, BranchesAre
<1>4. Set(x) <=> o.value = chosen[g]
  BY <1>2
<1> QED BY <1>1, <1>3, <1>4

-----------------------------------------------------------------------------
(* The invariant. *)

Context ==
    /\ app \in Apps /\ template \in Library /\ flags \in Flags \cup {NoFlags}
    /\ \A x \in DOMAIN toggles : toggles[x] \in BOOLEAN
    /\ file \in [holds : {"nothing", "old", "part", "new"}, exec : BOOLEAN]
    /\ phase \in {"load", "ask", "render", "confirm", "open", "fill", "chmod", "check", "end"}
    /\ rc \in {-1, 0, 1, 120} /\ reader \in BOOLEAN

\* The wizard asks all the questions, and of the groups it has asked about one
\* branch is on.
Asked ==
    /\ asked \in 0..Len(Questions)
    /\ phase = "load" => asked = 0
    /\ phase = "ask" => Interactive /\ asked < Len(Questions)
    /\ phase \in Answered /\ Interactive => asked = Len(Questions)
    /\ \A i \in 1..asked : Questions[i] \in GroupQuestions => Chosen(toggles, Questions[i])

Given ==
    phase \in Answered /\ ~Interactive => variables = FlagVariables /\ toggles = FlagToggles

Made ==
    /\ phase \in {"load", "ask", "render"} => rendered = <<>>
    /\ phase \in AfterRender => rendered = Intended /\ Intended # Failed
    /\ rendered = Failed => Intended = Failed

\* Untouched: the output file is as the command found it.
Untouched == file.holds \in {"nothing", "old"}

Written ==
    /\ phase \in {"load", "ask", "render", "confirm", "open"} => Untouched
    /\ phase \in {"chmod", "check"} => file.holds = "new"
    /\ phase = "check" /\ app.executable => file.exec = TRUE
    /\ rc = 0 => /\ phase = "end"
                 /\ \/ /\ file.holds = "new" /\ rendered = Intended /\ Intended # Failed
                       /\ app.executable => file.exec = TRUE
                    \/ reader = FALSE /\ Untouched

IInv == Context /\ Asked /\ Given /\ Made /\ Written

\* What only depends on the answers and the command line stays with them.
LEMMA SameAnswers ==
    ASSUME UNCHANGED <<command, answers>>
    PROVE  /\ Intended' = Intended
           /\ UNCHANGED <<asked, variables, toggles, app, template, flags>>
BY DEF command, answers, Intended, Preparable, Prepared, VariableQuestions

LEMMA SameCommand ==
    ASSUME UNCHANGED command
    PROVE  /\ UNCHANGED <<app, template, flags>>
           /\ Interactive' = Interactive /\ Questions' = Questions
           /\ VariableQuestions' = VariableQuestions
           /\ ToggleQuestions' = ToggleQuestions /\ GroupQuestions' = GroupQuestions
           /\ FlagVariables' = FlagVariables /\ FlagToggles' = FlagToggles
           /\ \A g : Options(g)' = Options(g)
<1>1. UNCHANGED <<app, template, flags>>
  BY DEF command
<1>2. /\ Interactive' = Interactive /\ Questions' = Questions
      /\ VariableQuestions' = VariableQuestions
      /\ ToggleQuestions' = ToggleQuestions /\ GroupQuestions' = GroupQuestions
  BY <1>1 DEF Interactive, Questions, VariableQuestions, ToggleQuestions, GroupQuestions
<1>3. DefaultVariables' = DefaultVariables /\ DefaultToggles' = DefaultToggles
  BY <1>2 DEF DefaultVariables, DefaultToggles, Branches, Options
<1>4. FlagBranches' = FlagBranches
  BY <1>1, <1>2 DEF FlagBranches, ChosenByFlag, Branches, Options
<1> QED BY <1>1, <1>2, <1>3, <1>4 DEF FlagVariables, FlagToggles, Options

LEMMA QuestionsAre ==
    ASSUME template \in Library
    PROVE  /\ Len(Questions) \in Nat /\ (Questions # <<>> => Len(Questions) > 0)
           /\ \A i \in 1..Len(Questions) :
                 /\ Questions[i].kind = "variable" => Questions[i] \in VariableQuestions
                 /\ Questions[i].kind = "toggle" => Questions[i] \in ToggleQuestions
                 /\ Questions[i].kind = "group" <=> Questions[i] \in GroupQuestions
           /\ \A g \in GroupQuestions : \E i \in 1..Len(Questions) : Questions[i] = g
<1> DEFINE v == template.variables
           t == template.toggles
           g == template.groups
<1>1. v \in Seq(Range(v)) /\ t \in Seq(Range(t)) /\ g \in Seq(Range(g))
  BY TemplatesAssumption
<1>2. /\ VariableQuestions = Range(v) /\ ToggleQuestions = Range(t) /\ GroupQuestions = Range(g)
      /\ Questions = v \o t \o g
  BY DEF VariableQuestions, ToggleQuestions, GroupQuestions, Questions
<1>3. /\ \A x \in Range(v) : x.kind = "variable"
      /\ \A x \in Range(t) : x.kind = "toggle"
      /\ \A x \in Range(g) : x.kind = "group"
  BY TemplatesAssumption
<1> HIDE DEF v, t, g
<1>4. /\ \A i \in 1..Len(v) : v[i] \in Range(v)
      /\ \A i \in 1..Len(t) : t[i] \in Range(t)
      /\ \A i \in 1..Len(g) : g[i] \in Range(g)
      /\ \A x \in Range(g) : \E i \in 1..Len(g) : x = g[i]
      /\ Len(v) \in Nat /\ Len(t) \in Nat /\ Len(g) \in Nat
  BY <1>1 DEF Range
<1>5. /\ Len(Questions) = Len(v) + Len(t) + Len(g)
      /\ \A i \in 1..Len(v) : Questions[i] = v[i]
      /\ \A i \in 1..Len(t) : Questions[Len(v) + i] = t[i]
      /\ \A i \in 1..Len(g) : Questions[Len(v) + Len(t) + i] = g[i]
  <2> DEFINE A == Range(v) \cup Range(t) \cup Range(g)
  <2>1. v \in Seq(A) /\ t \in Seq(A) /\ g \in Seq(A)
    BY <1>1, <1>4
  <2> HIDE DEF A
  <2>2. /\ v \o t \in Seq(A) /\ Len(v \o t) = Len(v) + Len(t)
        /\ \A i \in 1..Len(v) : (v \o t)[i] = v[i]
        /\ \A i \in 1..Len(t) : (v \o t)[Len(v) + i] = t[i]
    BY <2>1, <1>4
  <2> DEFINE w == v \o t
  <2>3. w \in Seq(A)
    BY <2>2
  <2> HIDE DEF w
  <2>4. /\ Len(w \o g) = Len(w) + Len(g)
        /\ \A i \in 1..Len(w) : (w \o g)[i] = w[i]
        /\ \A i \in 1..Len(g) : (w \o g)[Len(w) + i] = g[i]
    BY <2>1, <2>3
  <2>5. Questions = w \o g
    BY <1>2 DEF w
  <2> QED BY <2>2, <2>3, <2>4, <2>5, <1>4 DEF w
<1>l. Len(Questions) = Len(v) + Len(t) + Len(g) /\ Len(Questions) \in Nat
      /\ Len(v) \in Nat /\ Len(t) \in Nat /\ Len(g) \in Nat
  BY <1>4, <1>5
<1>6. \A i \in 1..Len(Questions) :
         \/ i \in 1..Len(v)
         \/ \E k \in 1..Len(t) : i = Len(v) + k
         \/ \E k \in 1..Len(g) : i = Len(v) + Len(t) + k
  <2> SUFFICES ASSUME NEW i \in 1..Len(Questions), i > Len(v)
               PROVE  \/ \E k \in 1..Len(t) : i = Len(v) + k
                      \/ \E k \in 1..Len(g) : i = Len(v) + Len(t) + k
    BY <1>l
  <2>1. CASE i <= Len(v) + Len(t)
    <3>1. i - Len(v) \in 1..Len(t) /\ i = Len(v) + (i - Len(v))
      BY <1>4, <2>1
    <3> QED BY <3>1
  <2>2. CASE i > Len(v) + Len(t)
    <3>1. /\ i - (Len(v) + Len(t)) \in 1..Len(g)
          /\ i = Len(v) + Len(t) + (i - (Len(v) + Len(t)))
      BY <1>4, <1>l, <2>2
    <3> QED BY <3>1
  <2> QED BY <1>4, <2>1, <2>2
<1>7. \A i \in 1..Len(Questions) :
         \/ Questions[i] \in Range(v) \/ Questions[i] \in Range(t) \/ Questions[i] \in Range(g)
  BY <1>4, <1>5, <1>6
<1>8. \A x \in Range(g) : \E i \in 1..Len(Questions) : Questions[i] = x
  <2> SUFFICES ASSUME NEW k \in 1..Len(g)
               PROVE  \E i \in 1..Len(Questions) : Questions[i] = g[k]
    BY <1>4
  <2>1. Len(v) + Len(t) + k \in 1..Len(Questions)
    BY <1>4, <1>l
  <2> QED BY <2>1, <1>5
<1>9. ASSUME NEW i \in 1..Len(Questions)
      PROVE  /\ Questions[i].kind = "variable" => Questions[i] \in Range(v)
             /\ Questions[i].kind = "toggle" => Questions[i] \in Range(t)
             /\ Questions[i].kind = "group" <=> Questions[i] \in Range(g)
  BY <1>3, <1>7
<1>e. Questions # <<>> => Len(Questions) > 0
  <2>1. v \in Seq(Range(v) \cup Range(t) \cup Range(g))
    BY <1>1, <1>4
  <2>2. t \in Seq(Range(v) \cup Range(t) \cup Range(g))
    BY <1>1, <1>4
  <2>3. g \in Seq(Range(v) \cup Range(t) \cup Range(g))
    BY <1>1, <1>4
  <2> DEFINE A == Range(v) \cup Range(t) \cup Range(g)
             w == v \o t
  <2>4. w \in Seq(A)
    BY <2>1, <2>2
  <2> HIDE DEF A
  <2>5. w \o g \in Seq(A)
    <3> HIDE DEF w
    <3>1. g \in Seq(A)
      BY <2>3 DEF A
    <3> QED BY <2>4, <3>1
  <2>6. Questions \in Seq(A)
    BY <1>2, <2>5
  <2> QED BY <2>6
<1> QED BY <1>2, <1>l, <1>8, <1>9, <1>e

LEMMA ContextInit == Init => IInv
<1> SUFFICES ASSUME Init PROVE IInv
  OBVIOUS
<1>1. Context
  <2>1. file \in [holds : {"nothing", "old", "part", "new"}, exec : BOOLEAN]
    BY DEF Init
  <2>2. DOMAIN toggles = {}
    BY DEF Init
  <2> QED BY <2>1, <2>2 DEF Init, Context
<1>2. Asked
  BY <1>1, QuestionsAre DEF Init, Asked, Answered, Context
<1>3. Given
  BY DEF Init, Given, Answered
<1>4. Made
  <2>1. <<>> # Failed
    <3>1. DOMAIN <<>> = {} /\ DOMAIN Failed = {0}
      BY DEF Failed
    <3> QED BY <3>1
  <2> QED BY <2>1 DEF Init, Made, AfterRender, Answered
<1>5. Written
  <2>1. phase = "load" /\ rc = -1 /\ file.holds \in {"nothing", "old"}
    BY DEF Init
  <2> QED BY <2>1 DEF Written, Untouched
<1> QED BY <1>1, <1>2, <1>3, <1>4, <1>5 DEF IInv

\* Only three steps do not leave the answers, the text and the command alone.
LEMMA StepsAre ==
    ASSUME [Next]_vars
    PROVE  /\ UNCHANGED command
           /\ \/ Load \/ Render \/ \E raw \in Raws : Answer(raw)
              \/ UNCHANGED <<answers, rendered>>
BY DEF Next, vars, command, answers, Load, Refuse, Answer, Cancel, Consent, Render, OpenFile,
       FillFile, Chmod, WriteFails, Check, CheckRaises, Kill, Choke, HangUp

LEMMA TogglesAre ==
    ASSUME template \in Library, flags \in Flags \cup {NoFlags}
    PROVE  /\ \A x \in DOMAIN FlagToggles : FlagToggles[x] \in BOOLEAN
           /\ \A g \in GroupQuestions : \A o \in Options(g) :
                 /\ o.toggle \in DOMAIN FlagToggles
                 /\ FlagToggles[o.toggle] = TRUE <=> o.value = ChosenByFlag(g)
           /\ \A x \in ToggleQuestions :
                 FlagToggles[x.name] = IF x.name \in DOMAIN flags.toggles
                                       THEN flags.toggles[x.name] ELSE x.default
<1> DEFINE single == [x \in {t.name : t \in ToggleQuestions} |->
                         \E t \in ToggleQuestions : t.name = x /\ t.default]
           usual == [g \in GroupQuestions |-> g.default]
           chosen == [g \in GroupQuestions |-> ChosenByFlag(g)]
           both == Updated(single, Branches(usual))
           given == Updated(both, flags.toggles)
<1>1. FlagToggles = Updated(given, Branches(chosen))
  BY DEF FlagToggles, DefaultToggles, FlagBranches
<1>2. /\ DOMAIN single = {t.name : t \in ToggleQuestions}
      /\ \A x \in ToggleQuestions : single[x.name] = x.default
      /\ \A x \in DOMAIN single : single[x] \in BOOLEAN
  <2>1. \A x, y \in ToggleQuestions : x.name = y.name => x = y
    BY NamesAssumption DEF ToggleQuestions
  <2>2. \A x \in ToggleQuestions : x.default \in BOOLEAN
    BY TemplatesAssumption DEF ToggleQuestions
  <2>3. ASSUME NEW x \in ToggleQuestions
        PROVE  single[x.name] = x.default
    <3>1. (\E t \in ToggleQuestions : t.name = x.name /\ t.default) <=> x.default
      BY <2>1
    <3>2. single[x.name] = \E t \in ToggleQuestions : t.name = x.name /\ t.default
      OBVIOUS
    <3>3. (\E t \in ToggleQuestions : t.name = x.name /\ t.default) \in BOOLEAN
      OBVIOUS
    <3> QED BY <3>1, <3>2, <3>3, <2>2
  <2>4. DOMAIN single = {t.name : t \in ToggleQuestions}
    OBVIOUS
  <2> HIDE DEF single
  <2> QED BY <2>2, <2>3, <2>4
<1>3. DOMAIN usual = GroupQuestions /\ DOMAIN chosen = GroupQuestions
      /\ \A g \in GroupQuestions : chosen[g] = ChosenByFlag(g)
  OBVIOUS
<1>4. \A x \in DOMAIN flags.toggles : flags.toggles[x] \in BOOLEAN
  BY FlagsAssumption DEF NoFlags
<1> HIDE DEF single, usual, chosen
<1>u. /\ DOMAIN both = DOMAIN single \cup DOMAIN Branches(usual)
      /\ \A x \in DOMAIN Branches(usual) : both[x] = Branches(usual)[x]
      /\ \A x \in DOMAIN single \ DOMAIN Branches(usual) : both[x] = single[x]
  BY UpdatedIs
<1>v. /\ DOMAIN given = DOMAIN both \cup DOMAIN flags.toggles
      /\ \A x \in DOMAIN flags.toggles : given[x] = flags.toggles[x]
      /\ \A x \in DOMAIN both \ DOMAIN flags.toggles : given[x] = both[x]
  BY UpdatedIs
<1> HIDE DEF both, given
<1>w. /\ DOMAIN FlagToggles = DOMAIN given \cup DOMAIN Branches(chosen)
      /\ \A x \in DOMAIN Branches(chosen) : FlagToggles[x] = Branches(chosen)[x]
      /\ \A x \in DOMAIN given \ DOMAIN Branches(chosen) : FlagToggles[x] = given[x]
  <2> DEFINE e == Branches(chosen)
             all == Updated(given, e)
  <2>1. /\ DOMAIN all = DOMAIN given \cup DOMAIN e
        /\ \A x \in DOMAIN e : all[x] = e[x]
        /\ \A x \in DOMAIN given \ DOMAIN e : all[x] = given[x]
    BY UpdatedIs
  <2>2. FlagToggles = all
    BY <1>1
  <2> HIDE DEF all
  <2> QED BY <2>1, <2>2
<1>b. /\ \A x \in DOMAIN Branches(usual) : Branches(usual)[x] \in BOOLEAN
      /\ \A x \in DOMAIN Branches(chosen) : Branches(chosen)[x] \in BOOLEAN
  BY BranchesAre
<1>n. \A x \in ToggleQuestions : /\ x.name \notin DOMAIN Branches(usual)
                                 /\ x.name \notin DOMAIN Branches(chosen)
  <2>1. \A x \in DOMAIN Branches(usual) : \E g \in DOMAIN usual : \E o \in Options(g) : o.toggle = x
    BY BranchesAre
  <2>2. \A x \in DOMAIN Branches(chosen) : \E g \in DOMAIN chosen : \E o \in Options(g) : o.toggle = x
    BY BranchesAre
  <2> QED BY <1>3, <2>1, <2>2, GroupsApart
<1>5. \A x \in DOMAIN both : both[x] \in BOOLEAN
  BY <1>2, <1>u, <1>b
<1>6. \A x \in ToggleQuestions : x.name \in DOMAIN both /\ both[x.name] = x.default
  BY <1>2, <1>u, <1>n
<1>7. \A x \in DOMAIN given : given[x] \in BOOLEAN
  BY <1>4, <1>5, <1>v
<1>8. \A x \in ToggleQuestions :
         /\ x.name \in DOMAIN given
         /\ given[x.name] = IF x.name \in DOMAIN flags.toggles
                            THEN flags.toggles[x.name] ELSE x.default
  BY <1>6, <1>v
<1>9. \A x \in DOMAIN FlagToggles : FlagToggles[x] \in BOOLEAN
  BY <1>7, <1>b, <1>w
<1>10. \A x \in ToggleQuestions :
          FlagToggles[x.name] = IF x.name \in DOMAIN flags.toggles
                                THEN flags.toggles[x.name] ELSE x.default
  BY <1>8, <1>n, <1>w
<1>11. ASSUME NEW g \in GroupQuestions, NEW o \in Options(g)
       PROVE  /\ o.toggle \in DOMAIN FlagToggles
              /\ FlagToggles[o.toggle] = TRUE <=> o.value = ChosenByFlag(g)
  <2>1. /\ o.toggle \in DOMAIN Branches(chosen)
        /\ Branches(chosen)[o.toggle] = TRUE <=> o.value = chosen[g]
    BY <1>3, BranchesApart
  <2> QED BY <1>3, <1>w, <2>1
<1> QED BY <1>9, <1>10, <1>11

\* What is given on the command line counts, and else the default.
LEMMA VariablesAre ==
    ASSUME template \in Library
    PROVE  \A v \in VariableQuestions :
               FlagVariables[v.name] = IF v.name \in DOMAIN flags.variables
                                       THEN flags.variables[v.name] ELSE DefaultOf(v)
<1> DEFINE d == DefaultVariables
           e == flags.variables
<1>1. /\ DOMAIN Updated(d, e) = DOMAIN d \cup DOMAIN e
      /\ \A x \in DOMAIN e : Updated(d, e)[x] = e[x]
      /\ \A x \in DOMAIN d \ DOMAIN e : Updated(d, e)[x] = d[x]
  BY UpdatedIs
<1>2. FlagVariables = Updated(d, e)
  BY DEF FlagVariables
<1>3. ASSUME NEW v \in VariableQuestions
      PROVE  v.name \in DOMAIN d /\ d[v.name] = DefaultOf(v)
  <2>1. \A w \in VariableQuestions : w.name = v.name => w = v
    BY NamesAssumption DEF VariableQuestions
  <2>2. (CHOOSE w \in VariableQuestions : w.name = v.name) = v
    BY <2>1
  <2>3. DOMAIN d = {w.name : w \in VariableQuestions}
    BY DEF DefaultVariables
  <2>4. \A x \in {w.name : w \in VariableQuestions} :
            d[x] = DefaultOf(CHOOSE w \in VariableQuestions : w.name = x)
    BY DEF DefaultVariables
  <2> QED BY <2>2, <2>3, <2>4
<1> HIDE DEF d, e
<1>4. \A v \in VariableQuestions :
         Updated(d, e)[v.name] = IF v.name \in DOMAIN e THEN e[v.name] ELSE DefaultOf(v)
  BY <1>1, <1>3
<1> QED BY <1>2, <1>4 DEF e

\* Enter, where the wizard takes it, stands for the default.
LEMMA EnterIsDefault ==
    ASSUME template \in Library, NEW v \in VariableQuestions, NEW a \in VariableAnswers(v, "")
    PROVE  a = DefaultOf(v)
<1>1. Filled(v, "") = DefaultOf(v)
  BY DEF Filled, DefaultOf
<1>2. /\ v.type = "int" /\ DefaultOf(v) \in DOMAIN Number
           => Numeral[Number[DefaultOf(v)]] = DefaultOf(v)
      /\ v.type = "choice" => \A c \in v.choices : Lower[c] = Lower[DefaultOf(v)] => c = DefaultOf(v)
  BY DefaultsAssumption DEF VariableQuestions
<1> QED BY <1>1, <1>2 DEF VariableAnswers

-----------------------------------------------------------------------------
(* Its preservation, part by part. *)

\* A group's answer is one of its values.
LEMMA AnswersAreValues ==
    ASSUME template \in Library, NEW g \in GroupQuestions, NEW raw, NEW a \in GroupAnswers(g, raw)
    PROVE  a \in {o.value : o \in Options(g)}
<1>1. \E o \in Options(g) : o.value = g.default
  BY GroupsApart
<1>2. raw \in Digits \cap DOMAIN Number /\ Number[raw] \in DOMAIN g.options
        => g.options[Number[raw]] \in Options(g)
  BY DEF Options, Range
<1> QED BY <1>1, <1>2 DEF GroupAnswers, Chokes

LEMMA ContextStep == IInv /\ [Next]_vars => Context'
<1> SUFFICES ASSUME IInv, [Next]_vars PROVE Context'
  OBVIOUS
<1>1. UNCHANGED <<app, template, flags>>
  BY StepsAre, SameCommand
<1>2. app' \in Apps /\ template' \in Library /\ flags' \in Flags \cup {NoFlags}
  BY <1>1 DEF IInv, Context
<1>3. \A x \in DOMAIN toggles' : toggles'[x] \in BOOLEAN
  <2> DEFINE Boolean(d) == \A x \in DOMAIN d : d[x] \in BOOLEAN
  <2>1. Boolean(toggles)
    BY DEF IInv, Context
  <2>2. CASE Load
    <3>1. Boolean(FlagToggles)
      BY TogglesAre DEF IInv, Context
    <3>2. toggles' = FlagToggles \/ toggles' = toggles
      BY <2>2 DEF Load, answers
    <3> HIDE DEF Boolean
    <3>3. Boolean(toggles')
      BY <2>1, <3>1, <3>2
    <3> QED BY <3>3 DEF Boolean
  <2>3. ASSUME NEW raw \in Raws, Answer(raw) PROVE Boolean(toggles')
    <3>1. CASE toggles' = toggles
      BY <2>1, <3>1
    <3>2. ASSUME NEW a, toggles' = Updated(toggles, [x \in {Question.name} |-> a]), a \in BOOLEAN
          PROVE  Boolean(toggles')
      <4> DEFINE e == [x \in {Question.name} |-> a]
      <4>1. Boolean(e)
        BY <3>2
      <4> HIDE DEF e
      <4>2. /\ DOMAIN Updated(toggles, e) = DOMAIN toggles \cup DOMAIN e
            /\ \A x \in DOMAIN e : Updated(toggles, e)[x] = e[x]
            /\ \A x \in DOMAIN toggles \ DOMAIN e : Updated(toggles, e)[x] = toggles[x]
        BY UpdatedIs
      <4>3. toggles' = Updated(toggles, e)
        BY <3>2 DEF e
      <4> QED BY <2>1, <4>1, <4>2, <4>3
    <3>3. ASSUME NEW a, toggles' = Updated(toggles, Branches([g \in {Question} |-> a]))
          PROVE  Boolean(toggles')
      <4> DEFINE e == Branches([g \in {Question} |-> a])
      <4>1. Boolean(e)
        BY BranchesAre
      <4> HIDE DEF e
      <4>2. /\ DOMAIN Updated(toggles, e) = DOMAIN toggles \cup DOMAIN e
            /\ \A x \in DOMAIN e : Updated(toggles, e)[x] = e[x]
            /\ \A x \in DOMAIN toggles \ DOMAIN e : Updated(toggles, e)[x] = toggles[x]
        BY UpdatedIs
      <4>3. toggles' = Updated(toggles, e)
        BY <3>3 DEF e
      <4> QED BY <2>1, <4>1, <4>2, <4>3
    <3>4. Question.kind = "toggle" => \A a \in ToggleAnswers(Question, raw) : a \in BOOLEAN
      <4>1. Question.kind = "toggle" => Question \in ToggleQuestions
        <5>1. phase = "ask" /\ asked \in Nat /\ asked < Len(Questions) /\ Len(Questions) \in Nat
          BY <2>3, QuestionsAre DEF Answer, IInv, Asked, Context
        <5>2. asked + 1 \in 1..Len(Questions)
          BY <5>1
        <5> QED BY <5>2, QuestionsAre DEF Question, IInv, Context
      <4>2. \A t \in ToggleQuestions : t.default \in BOOLEAN
        BY TemplatesAssumption DEF ToggleQuestions, IInv, Context
      <4> QED BY <4>1, <4>2 DEF ToggleAnswers
    <3> HIDE DEF Boolean
    <3> QED BY <2>3, <3>1, <3>2, <3>3, <3>4 DEF Answer
  <2>4. CASE Render
    BY <2>1, <2>4 DEF Render, answers
  <2>5. CASE UNCHANGED <<answers, rendered>>
    BY <2>1, <2>5 DEF answers
  <2> QED BY <2>2, <2>3, <2>4, <2>5, StepsAre
<1>4. /\ file' \in [holds : {"nothing", "old", "part", "new"}, exec : BOOLEAN]
      /\ phase' \in {"load", "ask", "render", "confirm", "open", "fill", "chmod", "check", "end"}
      /\ rc' \in {-1, 0, 1, 120} /\ reader' \in BOOLEAN
  <2> DEFINE Files == [holds : {"nothing", "old", "part", "new"}, exec : BOOLEAN]
             Phases == {"load", "ask", "render", "confirm", "open", "fill", "chmod", "check", "end"}
  <2>1. file \in Files /\ phase \in Phases /\ rc \in {-1, 0, 1, 120}
        /\ reader \in BOOLEAN
    BY DEF IInv, Context
  <2>2. /\ [file EXCEPT !.holds = "part"] \in Files
        /\ [file EXCEPT !.holds = "new"] \in Files
        /\ [file EXCEPT !.exec = TRUE] \in Files
    BY <2>1
  <2> HIDE DEF Files
  <2> DEFINE Fine == /\ file' \in Files /\ phase' \in Phases
                     /\ rc' \in {-1, 0, 1, 120} /\ reader' \in BOOLEAN
  <2>3. ASSUME Load \/ Consent \/ HangUp \/ Kill \/ (\E raw \in Raws : Answer(raw)) \/ UNCHANGED vars
        PROVE  Fine
    BY <2>1, <2>3 DEF Load, Answer, Consent, HangUp, Kill, Goto, vars
  <2>4. ASSUME OpenFile \/ FillFile \/ Chmod
        PROVE  Fine
    BY <2>1, <2>2, <2>4 DEF OpenFile, FillFile, Chmod, Goto
  <2>5. ASSUME Refuse \/ Cancel \/ Render
        PROVE  Fine
    BY <2>1, <2>5 DEF Refuse, Cancel, Render, Goto, Exit, SayAndExit, Unflushed
  <2>6. ASSUME \/ WriteFails \/ CheckRaises \/ (\E passed \in BOOLEAN : Check(passed))
               \/ \E raw \in Raws : Choke(raw)
        PROVE  Fine
    BY <2>1, <2>6 DEF WriteFails, CheckRaises, Check, Choke, Exit, SayAndExit, Unflushed
  <2>7. Fine
    BY <2>3, <2>4, <2>5, <2>6 DEF Next
  <2> QED BY <2>7 DEF Files
<1> QED BY <1>2, <1>3, <1>4 DEF Context

\* An answer to one question leaves the branches of the groups asked before on.
LEMMA AskedStep == IInv /\ [Next]_vars => Asked'
<1> SUFFICES ASSUME IInv, [Next]_vars PROVE Asked'
  OBVIOUS
<1>1. /\ Interactive' = Interactive /\ Questions' = Questions /\ GroupQuestions' = GroupQuestions
      /\ \A g : Options(g)' = Options(g)
  BY StepsAre, SameCommand
<1>2. template \in Library /\ Asked /\ Len(Questions) \in Nat
  BY QuestionsAre DEF IInv, Context
<1>3. asked \in Nat /\ asked <= Len(Questions)
  BY <1>2 DEF Asked
<1>4. CASE Load
  <2>1. asked' = 0 /\ phase' \in {"ask", "render"}
        /\ (phase' = "ask" => Interactive /\ Len(Questions) > 0)
        /\ (phase' = "render" /\ Interactive => Len(Questions) = 0)
    BY <1>2, <1>4, QuestionsAre DEF Load, Goto, Asked, answers
  <2>2. 1..asked' = {}
    BY <2>1
  <2> QED BY <1>1, <1>2, <2>1, <2>2 DEF Asked, Answered
<1>5. ASSUME NEW raw \in Raws, Answer(raw) PROVE Asked'
  <2>1. /\ asked' = asked + 1 /\ asked + 1 \in 1..Len(Questions) /\ Interactive
        /\ phase' = IF asked + 1 = Len(Questions) THEN "render" ELSE "ask"
    BY <1>2, <1>3, <1>5 DEF Answer, Goto, Asked
  <2>2. ASSUME NEW i \in 1..asked', Questions[i] \in GroupQuestions
        PROVE  Chosen(toggles', Questions[i])
    <3> DEFINE g == Questions[i]
    <3>1. i # asked + 1 => Chosen(toggles, g)
      BY <2>1, <2>2, <1>2, <1>3 DEF Asked
    <3>2. ASSUME Question.kind = "variable"
          PROVE  Chosen(toggles', g)
      <4>1. i # asked + 1
        BY <2>1, <2>2, <3>2, <1>2, QuestionsAre DEF Question
      <4>2. toggles' = toggles
        BY <1>5, <3>2 DEF Answer
      <4> HIDE DEF g
      <4> QED BY <3>1, <4>1, <4>2 DEF Branch, Chosen
    <3>3. ASSUME Question.kind = "toggle",
                 NEW a, toggles' = Updated(toggles, [x \in {Question.name} |-> a])
          PROVE  Chosen(toggles', g)
      <4> DEFINE e == [x \in {Question.name} |-> a]
      <4>1. i # asked + 1 /\ Question \in ToggleQuestions
        BY <2>1, <2>2, <3>3, <1>2, QuestionsAre DEF Question
      <4>2. \A o \in Options(g) : o.toggle \notin DOMAIN e
        BY <2>2, <1>2, <4>1, GroupsApart
      <4> HIDE DEF e
      <4>3. /\ DOMAIN Updated(toggles, e) = DOMAIN toggles \cup DOMAIN e
            /\ \A x \in DOMAIN toggles \ DOMAIN e : Updated(toggles, e)[x] = toggles[x]
        BY UpdatedIs
      <4>4. toggles' = Updated(toggles, e)
        BY <3>3 DEF e
      <4> HIDE DEF g
      <4> QED BY <3>1, <4>1, <4>2, <4>3, <4>4 DEF Branch, Chosen
    <3>4. ASSUME Question.kind = "group",
                 NEW a \in GroupAnswers(Question, raw),
                 toggles' = Updated(toggles, Branches([h \in {Question} |-> a]))
          PROVE  Chosen(toggles', g)
      <4> DEFINE c == [h \in {Question} |-> a]
                 e == Branches(c)
      <4>1. Question \in GroupQuestions
        BY <2>1, <3>4, <1>2, QuestionsAre DEF Question
      <4>2. DOMAIN c = {Question} /\ c[Question] = a
        OBVIOUS
      <4> HIDE DEF c
      <4>3. ASSUME NEW o \in Options(Question)
            PROVE  o.toggle \in DOMAIN e /\ e[o.toggle] \in BOOLEAN
                   /\ (e[o.toggle] = TRUE <=> o.value = a)
        <5>1. DOMAIN c \subseteq GroupQuestions /\ Question \in DOMAIN c
          BY <4>1, <4>2
        <5>2. /\ o.toggle \in DOMAIN Branches(c) /\ Branches(c)[o.toggle] \in BOOLEAN
              /\ Branches(c)[o.toggle] = TRUE <=> o.value = c[Question]
          BY <1>2, <4>3, <5>1, BranchesApart
        <5> QED BY <4>2, <5>2
      <4>4. \A x \in DOMAIN e : \E o \in Options(Question) : o.toggle = x
        <5>1. \A x \in DOMAIN Branches(c) : \E h \in DOMAIN c : \E o \in Options(h) : o.toggle = x
          BY BranchesAre
        <5> QED BY <4>2, <5>1
      <4> HIDE DEF e
      <4>5. /\ DOMAIN Updated(toggles, e) = DOMAIN toggles \cup DOMAIN e
            /\ \A x \in DOMAIN e : Updated(toggles, e)[x] = e[x]
            /\ \A x \in DOMAIN toggles \ DOMAIN e : Updated(toggles, e)[x] = toggles[x]
        BY UpdatedIs
      <4>6. toggles' = Updated(toggles, e)
        BY <3>4 DEF e, c
      <4>7. CASE g = Question
        <5>1. a \in {o.value : o \in Options(g)}
          BY <4>1, <4>7, <1>2, <3>4, AnswersAreValues
        <5>2. Branch(toggles', g, a)
          BY <4>3, <4>5, <4>6, <4>7 DEF Branch
        <5> HIDE DEF g
        <5> QED BY <5>1, <5>2 DEF Chosen
      <4>8. CASE g # Question
        <5>1. i # asked + 1
          BY <4>8 DEF Question
        <5>2. \A o \in Options(g) : o.toggle \notin DOMAIN e
          BY <1>2, <2>2, <4>1, <4>4, <4>8, GroupsApart
        <5> HIDE DEF g
        <5> QED BY <3>1, <5>1, <5>2, <4>5, <4>6 DEF Branch, Chosen
      <4> QED BY <4>7, <4>8
    <3> HIDE DEF g
    <3>5. Chosen(toggles', g)
      BY <1>5, <3>2, <3>3, <3>4 DEF Answer
    <3> QED BY <3>5 DEF g
  <2>3. \A i \in 1..asked' : Questions'[i] \in GroupQuestions' => Chosen(toggles', Questions[i])
    BY <1>1, <2>2
  <2>4. asked' \in 0..Len(Questions) /\ asked' >= 1
    BY <2>1
  <2> QED BY <1>1, <2>1, <2>3, <2>4 DEF Asked, Answered
<1>6. CASE UNCHANGED answers
  <2>1. /\ asked' = asked /\ toggles' = toggles
        /\ phase' = "load" => phase = "load"
        /\ phase' = "ask" => phase = "ask" \/ Load
        /\ phase' \in Answered => phase \in Answered \/ Load \/ \E raw \in Raws : Answer(raw)
    BY <1>6 DEF answers, Answered, Next, vars, Load, Refuse, Answer, Cancel, Consent, Render, OpenFile,
         FillFile, Chmod, WriteFails, Check, CheckRaises, Kill, Choke, HangUp, Goto, Exit, SayAndExit
  <2>2. CASE phase' = "ask" => phase = "ask"
    <3>1. CASE phase' \in Answered => phase \in Answered
      <4>1. \A i \in 1..asked : Questions[i] \in GroupQuestions => Chosen(toggles', Questions[i])
        BY <1>2, <2>1 DEF Asked
      <4> QED BY <1>1, <1>2, <2>1, <2>2, <3>1, <4>1 DEF Asked
    <3> QED BY <1>4, <1>5, <2>1, <3>1 DEF Load, Answer, Goto
  <2> QED BY <1>4, <2>1, <2>2
<1>7. Load \/ (\E raw \in Raws : Answer(raw)) \/ UNCHANGED answers
  BY StepsAre DEF Render, answers
<1> QED BY <1>4, <1>5, <1>6, <1>7

LEMMA GivenStep == IInv /\ [Next]_vars => Given'
<1> SUFFICES ASSUME IInv, [Next]_vars, phase' \in Answered, ~Interactive'
             PROVE  variables' = FlagVariables' /\ toggles' = FlagToggles'
  BY DEF Given
<1>1. ~Interactive /\ FlagVariables' = FlagVariables /\ FlagToggles' = FlagToggles
  BY StepsAre, SameCommand
<1>2. phase # "ask"
  BY <1>1 DEF IInv, Asked
<1>3. CASE Load
  BY <1>1, <1>3 DEF Load
<1>4. ASSUME ~Load
      PROVE  phase \in Answered /\ variables' = variables /\ toggles' = toggles
  BY <1>2, <1>4 DEF answers, Answered, Next, vars, Refuse, Answer, Cancel, Consent, Render, OpenFile,
       FillFile, Chmod, WriteFails, Check, CheckRaises, Kill, Choke, HangUp, Goto, Exit, SayAndExit
<1> QED BY <1>1, <1>3, <1>4 DEF IInv, Given

\* What Render makes is what is meant.
LEMMA TextIsIntended == Context => Text = Intended
<1> SUFFICES ASSUME Context PROVE Text = Intended
  OBVIOUS
<1>1. WellFormed(template)
  BY TemplatesAssumption DEF Context
<1>2. render(template.text, Prepared, toggles) = Meaning(template, Prepared, toggles)
  BY <1>1, RenderIs DEF Context
<1> QED BY <1>2 DEF Text, Intended

LEMMA MadeStep == IInv /\ [Next]_vars => Made'
<1> SUFFICES ASSUME IInv, [Next]_vars PROVE Made'
  OBVIOUS
<1>1. <<>> # Failed
  <2>1. DOMAIN <<>> = {} /\ DOMAIN Failed = {0}
    BY DEF Failed
  <2> QED BY <2>1
<1>2. Made /\ Text = Intended
  BY TextIsIntended DEF IInv
<1>3. CASE Render
  <2>1. UNCHANGED <<command, answers>> /\ rendered' = Text
        /\ (Text = Failed => phase' = "end") /\ phase' \in {"confirm", "open", "end"}
    BY <1>3 DEF Render, Goto, Exit, SayAndExit
  <2>2. Intended' = Intended
    BY <2>1, SameAnswers
  <2> QED BY <1>2, <2>1, <2>2 DEF Made, AfterRender, Answered
<1>4. CASE Load \/ \E raw \in Raws : Answer(raw)
  <2>1. phase \in {"load", "ask"} /\ phase' \in {"ask", "render"} /\ rendered' = rendered
    BY <1>4 DEF Load, Answer, Goto
  <2> QED BY <1>1, <1>2, <2>1 DEF Made, AfterRender, Answered
<1>5. CASE UNCHANGED <<answers, rendered>> /\ ~Render /\ ~Load /\ ~ \E raw \in Raws : Answer(raw)
  <2>1. UNCHANGED <<command, answers>> /\ rendered' = rendered
    BY <1>5, StepsAre
  <2>2. Intended' = Intended
    BY <2>1, SameAnswers
  <2>3. /\ phase' \in AfterRender => phase \in AfterRender
        /\ phase' \in {"load", "ask", "render"} => phase \in {"load", "ask", "render"}
    BY <1>5 DEF AfterRender, Answered, Next, vars, Refuse, Cancel, Consent, OpenFile,
         FillFile, Chmod, WriteFails, Check, CheckRaises, Kill, Choke, HangUp, Goto, Exit, SayAndExit
  <2> QED BY <1>2, <2>1, <2>2, <2>3 DEF Made
<1> QED BY <1>3, <1>4, <1>5, StepsAre

LEMMA WrittenStep == IInv /\ [Next]_vars => Written'
<1> SUFFICES ASSUME IInv, [Next]_vars PROVE Written'
  OBVIOUS
<1>1. app' = app
  BY StepsAre, SameCommand
<1>2. Written /\ Made
  BY DEF IInv
<1>3. CASE FillFile
  <2>1. /\ file' = [file EXCEPT !.holds = "new"] /\ rc' = rc /\ phase = "fill"
        /\ phase' \in {"chmod", "check"} /\ (phase' = "check" => ~app.executable)
    BY <1>3 DEF FillFile, Goto
  <2>2. file'.holds = "new"
    BY <2>1 DEF IInv, Context
  <2> QED BY <1>1, <1>2, <2>1, <2>2 DEF Written
<1>4. CASE Chmod
  <2>1. file' = [file EXCEPT !.exec = TRUE] /\ rc' = rc /\ phase = "chmod" /\ phase' = "check"
    BY <1>4 DEF Chmod, Goto
  <2>2. file'.exec = TRUE /\ file'.holds = file.holds
    BY <2>1 DEF IInv, Context
  <2> QED BY <1>2, <2>1, <2>2 DEF Written
<1>5. ASSUME NEW passed \in BOOLEAN, Check(passed) PROVE Written'
  <2>1. phase = "check" /\ phase' = "end" /\ UNCHANGED <<command, answers, rendered, file>>
    BY <1>5 DEF Check, Exit, SayAndExit
  <2>2. Intended' = Intended
    BY <2>1, SameAnswers
  <2>3. rendered = Intended /\ Intended # Failed
    BY <1>2, <2>1 DEF Made, AfterRender, Answered
  <2> QED BY <1>1, <1>2, <2>1, <2>2, <2>3 DEF Written
<1>6. CASE UNCHANGED vars
  <2>1. UNCHANGED <<command, answers, rendered, file, phase, reader, rc>>
    BY <1>6 DEF vars, command, answers
  <2>2. Intended' = Intended
    BY <2>1, SameAnswers
  <2> QED BY <1>1, <1>2, <2>1, <2>2 DEF Written, Untouched
<1>7. CASE Load \/ Consent \/ HangUp \/ \E raw \in Raws : Answer(raw)
  <2>1. /\ phase # "end" /\ rc' = rc /\ file' = file
        /\ \/ phase' = phase
           \/ /\ phase \in {"load", "ask", "confirm"}
              /\ phase' \in {"ask", "render", "open"}
    BY <1>7 DEF Load, Answer, Consent, HangUp, Goto
  <2>2. rc # 0
    BY <1>2, <2>1 DEF Written
  <2> QED BY <1>1, <1>2, <2>1, <2>2 DEF Written, Untouched
<1>8. CASE Refuse \/ Cancel \/ Render
  <2>1. /\ phase \in {"load", "ask", "render", "confirm"} /\ file' = file /\ reader' = reader
        /\ \/ phase' \in {"confirm", "open"} /\ rc' = rc
           \/ phase' = "end" /\ (rc' = 0 => ~reader)
    BY <1>8 DEF Refuse, Cancel, Render, Goto, Exit, SayAndExit, Unflushed
  <2>2. Untouched /\ rc # 0 /\ reader \in BOOLEAN
    BY <1>2, <2>1 DEF Written, IInv, Context
  <2> QED BY <2>1, <2>2 DEF Written, Untouched
<1>9. CASE OpenFile \/ WriteFails \/ CheckRaises \/ Kill \/ \E raw \in Raws : Choke(raw)
  <2>1. /\ phase # "end" /\ phase' \in {"fill", "end"}
        /\ rc' = rc \/ rc' \in {-1, 1, 120}
    BY <1>9 DEF OpenFile, WriteFails, CheckRaises, Kill, Choke, Goto, Exit, Unflushed
  <2>2. rc' # 0
    BY <1>2, <2>1 DEF Written
  <2> QED BY <2>1, <2>2 DEF Written
<1> QED BY <1>3, <1>4, <1>5, <1>6, <1>7, <1>8, <1>9 DEF Next

LEMMA IInvHolds == Spec => []IInv
<1>1. Init => IInv
  BY ContextInit
<1>2. IInv /\ [Next]_vars => IInv'
  BY ContextStep, AskedStep, GivenStep, MadeStep, WrittenStep DEF IInv
<1> QED BY <1>1, <1>2, PTL DEF Spec

\* Every variable has a text TokensOf knows.
Texts == \A name \in DOMAIN variables : variables[name] \in DOMAIN TokensOf

LEMMA DefaultsAreTexts ==
    ASSUME template \in Library, NEW v \in VariableQuestions
    PROVE  /\ DefaultOf(v) \in DOMAIN TokensOf
           /\ \A raw \in Raws : \A a \in VariableAnswers(v, raw) : a \in DOMAIN TokensOf
<1>1. v.default \cup v.choices \subseteq DOMAIN TokensOf
  BY TextsAssumption DEF VariableQuestions
<1>2. DefaultOf(v) \in DOMAIN TokensOf
  <2>1. v.default # {} => DefaultOf(v) \in v.default
    BY DEF DefaultOf
  <2>2. v.default = {} => DefaultOf(v) = ""
    BY DEF DefaultOf
  <2> QED BY <1>1, <2>1, <2>2, TextsAssumption
<1>3. ASSUME NEW raw \in Raws PROVE Filled(v, raw) \in DOMAIN TokensOf
  BY <1>2, TextsAssumption DEF Filled
<1>4. \A r \in DOMAIN Number : Numeral[Number[r]] \in DOMAIN TokensOf
  BY TextsAssumption DEF Range
<1> QED BY <1>1, <1>2, <1>3, <1>4 DEF VariableAnswers

LEMMA TextsHold == Spec => []Texts
<1>1. Init => Texts
  <2> SUFFICES ASSUME Init PROVE Texts
    OBVIOUS
  <2>1. DOMAIN variables = {}
    BY DEF Init
  <2> QED BY <2>1 DEF Texts
<1>2. IInv /\ Texts /\ [Next]_vars => Texts'
  <2> SUFFICES ASSUME IInv, Texts, [Next]_vars PROVE Texts'
    OBVIOUS
  <2>1. template \in Library /\ flags \in Flags \cup {NoFlags}
    BY DEF IInv, Context
  <2>2. CASE variables' = variables
    BY <2>2 DEF Texts
  <2>3. CASE variables' = FlagVariables
    <3> DEFINE d == DefaultVariables
               e == flags.variables
    <3>1. /\ DOMAIN Updated(d, e) = DOMAIN d \cup DOMAIN e
          /\ \A x \in DOMAIN e : Updated(d, e)[x] = e[x]
          /\ \A x \in DOMAIN d \ DOMAIN e : Updated(d, e)[x] = d[x]
      BY UpdatedIs
    <3>2. \A x \in DOMAIN e : e[x] \in DOMAIN TokensOf
      <4>1. flags \in Flags => \A x \in DOMAIN flags.variables : flags.variables[x] \in DOMAIN TokensOf
        BY TextsAssumption
      <4>2. flags = NoFlags => DOMAIN flags.variables = {}
        BY DEF NoFlags
      <4> QED BY <2>1, <4>1, <4>2
    <3>3. \A x \in DOMAIN d : \E v \in VariableQuestions : x = v.name
      BY DEF DefaultVariables
    <3>4. variables' = Updated(d, e)
      BY <2>3 DEF FlagVariables
    <3>5. \A v \in VariableQuestions : variables'[v.name] \in DOMAIN TokensOf
      <4>1. \A v \in VariableQuestions :
               FlagVariables[v.name] = IF v.name \in DOMAIN e THEN e[v.name] ELSE DefaultOf(v)
        BY <2>1, VariablesAre
      <4> HIDE DEF e
      <4> QED BY <2>1, <2>3, <3>2, <4>1, DefaultsAreTexts
    <3> HIDE DEF d, e
    <3> QED BY <3>1, <3>2, <3>3, <3>4, <3>5 DEF Texts
  <2>4. ASSUME NEW raw \in Raws, Answer(raw), Question.kind = "variable",
               NEW a \in VariableAnswers(Question, raw),
               variables' = Updated(variables, [x \in {Question.name} |-> a])
        PROVE  Texts'
    <3> DEFINE e == [x \in {Question.name} |-> a]
    <3>1. Question \in VariableQuestions
      <4>1. phase = "ask" /\ asked \in Nat /\ asked < Len(Questions) /\ Len(Questions) \in Nat
        BY <2>1, <2>4, QuestionsAre DEF Answer, IInv, Asked
      <4>2. asked + 1 \in 1..Len(Questions)
        BY <4>1
      <4> QED BY <2>1, <2>4, <4>2, QuestionsAre DEF Question
    <3>2. \A x \in DOMAIN e : e[x] \in DOMAIN TokensOf
      BY <2>1, <3>1, DefaultsAreTexts
    <3> HIDE DEF e
    <3>3. /\ DOMAIN Updated(variables, e) = DOMAIN variables \cup DOMAIN e
          /\ \A x \in DOMAIN e : Updated(variables, e)[x] = e[x]
          /\ \A x \in DOMAIN variables \ DOMAIN e : Updated(variables, e)[x] = variables[x]
      BY UpdatedIs
    <3>4. variables' = Updated(variables, e)
      BY <2>4 DEF e
    <3> QED BY <3>2, <3>3, <3>4 DEF Texts
  <2>5. ASSUME NEW raw \in Raws, Answer(raw) PROVE Texts'
    BY <2>2, <2>4, <2>5 DEF Answer
  <2>6. Load => variables' = variables \/ variables' = FlagVariables
    BY DEF Load, answers
  <2>7. Render \/ UNCHANGED <<answers, rendered>> => variables' = variables
    BY DEF Render, answers
  <2> QED BY <2>2, <2>3, <2>5, <2>6, <2>7, StepsAre
<1> QED BY <1>1, <1>2, IInvHolds, PTL DEF Spec

-----------------------------------------------------------------------------
(* What follows from it. *)

\* Every part of the state keeps its type, and no script that failed to render
\* is on its way to the file.
THEOREM TypeCorrect == Spec => []TypeOK
<1>1. IInv /\ Texts => TypeOK
  BY DEF IInv, Context, Asked, Made, AfterRender, Answered, Texts, TypeOK, Unflushed
<1> QED BY <1>1, IInvHolds, TextsHold, PTL

\* Passes of a regular expression over flat text render what the blocks of the
\* template mean, for every library, answers and number of passes, and a render
\* fails only where that has no meaning (engine.py, render).
THEOREM RenderCorrect == Spec => []RenderIsMeaning
<1>1. IInv => RenderIsMeaning
  BY DEF IInv, Made, RenderIsMeaning
<1> QED BY <1>1, IInvHolds, PTL

\* When the command reports success the script is there, whole, as intended,
\* and can be run if it is meant to be, whatever was there before; or nobody read
\* its output, and the file is as it was (main catches BrokenPipeError).
THEOREM SuccessCorrect == Spec => []SuccessIsWhole
<1>1. IInv => SuccessIsWhole
  BY DEF IInv, Written, Untouched, SuccessIsWhole, Whole
<1> QED BY <1>1, IInvHolds, PTL

\* What is in the file already is only given up for a script that renders.
THEOREM OverwritesSafe == Spec => OverwritesOnlyToSucceed
<1>1. IInv /\ [Next]_vars => [file'.holds # file.holds => Intended # Failed]_vars
  <2> SUFFICES ASSUME IInv, Next, file'.holds # file.holds
               PROVE  Intended # Failed
    OBVIOUS
  <2>1. OpenFile \/ FillFile
    <3>1. CASE Chmod
      <4>1. file' = [file EXCEPT !.exec = TRUE]
        BY <3>1 DEF Chmod
      <4> QED BY <4>1 DEF IInv, Context
    <3> QED BY <3>1 DEF Next, Load, Refuse, Answer, Cancel, Consent, Render, WriteFails, Check,
                CheckRaises, Kill, Choke, HangUp
  <2>2. phase \in {"open", "fill"}
    BY <2>1 DEF OpenFile, FillFile
  <2> QED BY <2>2 DEF IInv, Made, AfterRender, Answered
<1> QED BY <1>1, IInvHolds, PTL DEF Spec, OverwritesOnlyToSucceed

\* In every group exactly one branch is on, in whatever way the answers came.
THEOREM OneBranch == Spec => []OneBranchPerGroup
<1>1. IInv => OneBranchPerGroup
  <2> SUFFICES ASSUME IInv, phase \in Answered, NEW g \in GroupQuestions,
                      Interactive \/ ChosenByFlag(g) \in {o.value : o \in Options(g)}
               PROVE  Cardinality({o \in Options(g) : toggles[o.toggle]}) = 1
    BY DEF OneBranchPerGroup
  <2>1. template \in Library /\ flags \in Flags \cup {NoFlags}
    BY DEF IInv, Context
  <2>2. PICK a \in {o.value : o \in Options(g)} :
            \A o \in Options(g) : toggles[o.toggle] \in BOOLEAN /\ (toggles[o.toggle] = TRUE <=> o.value = a)
    <3>1. CASE Interactive
      <4>1. PICK i \in 1..Len(Questions) : Questions[i] = g
        BY <2>1, QuestionsAre
      <4>2. Chosen(toggles, g)
        BY <3>1, <4>1 DEF IInv, Asked
      <4> QED BY <4>2 DEF Chosen, Branch
    <3>2. CASE ~Interactive
      <4>1. toggles = FlagToggles
        BY <3>2 DEF IInv, Given
      <4>2. \A o \in Options(g) : /\ toggles[o.toggle] \in BOOLEAN
                                  /\ toggles[o.toggle] = TRUE <=> o.value = ChosenByFlag(g)
        BY <2>1, <4>1, TogglesAre
      <4> QED BY <3>2, <4>2
    <3> QED BY <3>1, <3>2
  <2>3. PICK o \in Options(g) : o.value = a
    BY <2>2
  <2>4. \A p \in Options(g) : p.value = a <=> p = o
    BY <2>1, <2>3, GroupsApart
  <2>5. {p \in Options(g) : toggles[p.toggle]} = {o}
    BY <2>2, <2>3, <2>4
  <2> QED BY <2>5, FS_Singleton
<1> QED BY <1>1, IInvHolds, PTL

\* Flags give the same script as the same answers to the wizard, where the
\* wizard would take them and leave them as they are: every --var, --toggle and
\* --toggle-group counts as given, and what is left out is the default.
THEOREM FlagsLikeWizard == Spec => []FlagsMatchWizard
<1>1. IInv => FlagsMatchWizard
  <2> SUFFICES ASSUME IInv, phase \in Answered, ~Interactive
               PROVE  /\ \A v \in VariableQuestions :
                            IF v.name \notin DOMAIN flags.variables
                            THEN \A a \in VariableAnswers(v, "") : variables[v.name] = a
                            ELSE LET raw == flags.variables[v.name]
                                 IN VariableAnswers(v, raw) = {raw} => variables[v.name] = raw
                      /\ \A t \in ToggleQuestions :
                            toggles[t.name] = IF t.name \in DOMAIN flags.toggles
                                              THEN flags.toggles[t.name] ELSE t.default
                      /\ \A g \in GroupQuestions :
                            LET given == g.name \in DOMAIN flags.groups
                                raw == IF given THEN flags.groups[g.name] ELSE ""
                            IN \A a \in GroupAnswers(g, raw) :
                                  (given => raw = a)
                                  => \A o \in Options(g) : toggles[o.toggle] = (o.value = a)
    BY DEF FlagsMatchWizard
  <2>1. template \in Library /\ flags \in Flags \cup {NoFlags}
        /\ variables = FlagVariables /\ toggles = FlagToggles
    BY DEF IInv, Context, Given
  <2>2. ASSUME NEW v \in VariableQuestions
        PROVE  IF v.name \notin DOMAIN flags.variables
               THEN \A a \in VariableAnswers(v, "") : variables[v.name] = a
               ELSE LET raw == flags.variables[v.name]
                    IN VariableAnswers(v, raw) = {raw} => variables[v.name] = raw
    BY <2>1, VariablesAre, EnterIsDefault
  <2>3. ASSUME NEW t \in ToggleQuestions
        PROVE  toggles[t.name] = IF t.name \in DOMAIN flags.toggles
                                 THEN flags.toggles[t.name] ELSE t.default
    BY <2>1, TogglesAre
  <2>4. ASSUME NEW g \in GroupQuestions
        PROVE  LET given == g.name \in DOMAIN flags.groups
                   raw == IF given THEN flags.groups[g.name] ELSE ""
               IN \A a \in GroupAnswers(g, raw) :
                     (given => raw = a) => \A o \in Options(g) : toggles[o.toggle] = (o.value = a)
    <3> DEFINE given == g.name \in DOMAIN flags.groups
               raw == IF given THEN flags.groups[g.name] ELSE ""
    <3> SUFFICES ASSUME NEW a \in GroupAnswers(g, raw), given => raw = a, NEW o \in Options(g)
                 PROVE  toggles[o.toggle] = (o.value = a)
      OBVIOUS
    <3>1. a = ChosenByFlag(g)
      BY DEF ChosenByFlag, GroupAnswers, Chokes
    <3>2. /\ o.toggle \in DOMAIN FlagToggles
          /\ FlagToggles[o.toggle] = TRUE <=> o.value = ChosenByFlag(g)
      BY <2>1, TogglesAre
    <3>3. FlagToggles[o.toggle] \in BOOLEAN
      BY <2>1, <3>2, TogglesAre
    <3> QED BY <2>1, <3>1, <3>2, <3>3
  <2> QED BY <2>2, <2>3, <2>4
<1> QED BY <1>1, IInvHolds, PTL

=============================================================================
