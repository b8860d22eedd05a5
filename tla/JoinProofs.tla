----------------------------- MODULE JoinProofs ------------------------------
(***************************************************************************)
(* What holds of results that are put together: the proposals of several   *)
(* tracks in one hierarchy, the frames of a camera on the common clock,    *)
(* and artifacts with what they were made from, for inputs of any size.    *)
(* The first two sort what they are given and sweep over it once; the      *)
(* lemmas give what the sweep leaves as a set, without the order in which  *)
(* it was found.  The lemmas about artifacts say what each kind is made of *)
(* and give a closed set around it that has one past.                      *)
(***************************************************************************)
EXTENDS AlgorithmProofs

-----------------------------------------------------------------------------
(***************************************************************************)
(* The hierarchy.                                                          *)
(***************************************************************************)

Instants == 0..LastSample

LEMMA InstantsAreNumbers == LastSample \in Nat /\ Instants \in SUBSET Int /\ Instants \in SUBSET Nat
<1>1. LastSample \in Nat
  BY InputAssumption, Zenon
<1> QED
  BY <1>1 DEF Instants

\* The first and the last instant of some.
LEMMA ExtremeInstants ==
    ASSUME NEW S \in SUBSET Instants, S # {}
    PROVE  /\ A!Max(S) \in S /\ \A x \in S : x <= A!Max(S)
           /\ A!Min(S) \in S /\ \A x \in S : A!Min(S) <= x
<1>1. A!Max(S) = E!Max(S) /\ A!Min(S) = E!Min(S)
  BY Zenon DEF A!Max, A!Min, E!Max, E!Min
<1>2. S \in SUBSET Int /\ LastSample \in Int
  BY InstantsAreNumbers
<1>3. \A x \in S : x <= LastSample
  BY InstantsAreNumbers DEF Instants
<1> PICK zero \in Int : zero = 0
  OBVIOUS
<1>4. \A x \in S : zero <= x
  BY InstantsAreNumbers DEF Instants
<1>5. E!Max(S) \in S /\ \A x \in S : x <= E!Max(S)
  BY <1>2, <1>3, MaxIs
<1>6. E!Min(S) \in S /\ \A x \in S : E!Min(S) <= x
  BY <1>2, <1>4, MinIs
<1> QED
  BY <1>1, <1>5, <1>6

LEMMA StretchesAre ==
    ASSUME NEW s \in Stretches
    PROVE  s[1] \in Instants /\ s[2] \in Instants /\ s[1] < s[2] /\ s = <<s[1], s[2]>>
BY DEF Stretches, Instants

\* What holds several stretches, and no more.
LEMMA HullIs ==
    ASSUME NEW S \in SUBSET Stretches, S # {}
    PROVE  /\ A!Hull(S) \in Stretches
           /\ \A s \in S : A!Inside(s, A!Hull(S))
           /\ \E s \in S : A!Hull(S)[1] = s[1]
           /\ \E s \in S : A!Hull(S)[2] = s[2]
<1> DEFINE First == {s[1] : s \in S}
           Second == {s[2] : s \in S}
           a == A!Min(First)
           b == A!Max(Second)
<1>1. First \in SUBSET Instants /\ First # {} /\ Second \in SUBSET Instants /\ Second # {}
  BY StretchesAre
<1>2. A!Hull(S) = <<a, b>>
  BY Zenon DEF A!Hull
<1> HIDE DEF a, b
<1>3. a \in First /\ \A x \in First : a <= x
  <2> HIDE DEF First
  <2> QED
    BY <1>1, ExtremeInstants DEF a
<1>4. b \in Second /\ \A x \in Second : x <= b
  <2> HIDE DEF Second
  <2> QED
    BY <1>1, ExtremeInstants DEF b
<1>5. a \in Instants /\ b \in Instants
  BY <1>1, <1>3, <1>4
<1>6. \A s \in S : a <= s[1] /\ s[2] <= b
  BY <1>3, <1>4
<1>7. a < b
  <2>1. PICK s \in S : TRUE
    OBVIOUS
  <2>2. a <= s[1] /\ s[1] < s[2] /\ s[2] <= b /\ s[1] \in Int /\ s[2] \in Int
    BY <1>6, StretchesAre, InstantsAreNumbers
  <2> QED
    BY <1>5, <2>2, InstantsAreNumbers
<1>8. <<a, b>> \in Stretches
  BY <1>5, <1>7 DEF Stretches, Instants
<1> QED
  BY <1>2, <1>3, <1>4, <1>6, <1>8 DEF A!Inside

LEMMA IntervalIs ==
    ASSUME NEW x, OnItsTracks(x)
    PROVE  /\ A!Interval(x) \in Stretches
           /\ \A t \in DOMAIN x.span : x.span[t] \in Stretches /\ A!Inside(x.span[t], A!Interval(x))
           /\ DOMAIN x.span \in SUBSET Tracks /\ DOMAIN x.span # {}
<1> DEFINE S == {x.span[t] : t \in DOMAIN x.span}
<1>1. DOMAIN x.span \in SUBSET Tracks /\ DOMAIN x.span # {}
  BY DEF OnItsTracks
<1>2. \A t \in DOMAIN x.span : x.span[t] \in Stretches
  BY DEF OnItsTracks
<1>3. S \in SUBSET Stretches /\ S # {}
  BY <1>1, <1>2
<1>4. A!Interval(x) = A!Hull(S)
  BY DEF A!Interval
<1>5. \A t \in DOMAIN x.span : x.span[t] \in S
  OBVIOUS
<1> HIDE DEF S
<1> QED
  BY <1>1, <1>2, <1>3, <1>4, <1>5, HullIs

-----------------------------------------------------------------------------
(* What spans leave uncovered.                                             *)

LEMMA CursorIs ==
    ASSUME NEW interval \in Stretches, NEW spans \in SUBSET Stretches
    PROVE  LET c == A!Cursor(interval, spans)
           IN  /\ c \in Instants /\ interval[1] <= c
               /\ \A x \in spans : x[2] <= c
               /\ c = interval[1] \/ \E x \in spans : c = x[2]
<1> DEFINE S == {interval[1]} \cup {x[2] : x \in spans}
           c == A!Cursor(interval, spans)
<1>1. S \in SUBSET Instants /\ S # {}
  BY StretchesAre
<1>2. A!Max(S) \in S /\ \A x \in S : x <= A!Max(S)
  <2> HIDE DEF S
  <2> QED
    BY <1>1, ExtremeInstants
<1>3. c = A!Max(S)
  BY DEF A!Cursor
<1> HIDE DEF c
<1>4. c \in S /\ \A x \in S : x <= c
  BY <1>2, <1>3
<1>5. c \in Instants /\ interval[1] <= c /\ (\A x \in spans : x[2] <= c)
      /\ (c = interval[1] \/ \E x \in spans : c = x[2])
  BY <1>1, <1>4
<1> QED
  BY <1>5 DEF c

LEMMA GapsAre ==
    ASSUME NEW interval \in Stretches, NEW spans \in SUBSET Stretches,
           \A x \in spans : A!Inside(x, interval),
           NEW g \in A!Gaps(interval, spans)
    PROVE  g \in Stretches /\ A!Inside(g, interval)
<1>1. g[1] < g[2]
  BY DEF A!Gaps
<1>2. interval[1] \in Int /\ interval[2] \in Instants
  BY StretchesAre, InstantsAreNumbers
<1>3. CASE \E s \in spans : g = <<A!Cursor(interval, {x \in spans : x[1] < s[1]}), s[1]>>
  <2>1. PICK s \in spans : g = <<A!Cursor(interval, {x \in spans : x[1] < s[1]}), s[1]>>
    BY <1>3
  <2>2. g[1] \in Instants /\ interval[1] <= g[1]
    BY <2>1, CursorIs
  <2>3. g[2] \in Instants /\ g[2] <= interval[2]
    <3>1. s[1] \in Instants /\ s[2] \in Instants /\ s[1] < s[2] /\ s[2] <= interval[2]
      BY StretchesAre DEF A!Inside
    <3>2. g[2] = s[1]
      BY <2>1
    <3>3. s[1] \in Int /\ s[2] \in Int /\ interval[2] \in Int
      BY <1>2, <3>1, InstantsAreNumbers
    <3>4. s[1] <= interval[2]
      BY <3>1, <3>3
    <3> QED
      BY <3>1, <3>2, <3>4
  <2> QED
    BY <1>1, <2>1, <2>2, <2>3 DEF A!Inside, Stretches, Instants
<1>4. CASE g = <<A!Cursor(interval, spans), interval[2]>>
  <2>1. g[1] \in Instants /\ interval[1] <= g[1]
    BY <1>4, CursorIs
  <2> QED
    BY <1>1, <1>2, <1>4, <2>1, InstantsAreNumbers DEF A!Inside, Stretches, Instants
<1> QED
  BY <1>3, <1>4 DEF A!Gaps, A!Candidates

\* From i to the next instant.
Holds(s, i) == s[1] <= i /\ i + 1 <= s[2]

\* Spans and gaps together leave nothing out.
LEMMA GapsFill ==
    ASSUME NEW interval \in Stretches, NEW spans \in SUBSET Stretches,
           NEW i \in Instants, Holds(interval, i)
    PROVE  (\E s \in spans : Holds(s, i)) \/ (\E g \in A!Gaps(interval, spans) : Holds(g, i))
<1> SUFFICES ASSUME \A s \in spans : ~Holds(s, i)
             PROVE  \E g \in A!Gaps(interval, spans) : Holds(g, i)
  OBVIOUS
<1> DEFINE Later == {s[1] : s \in {x \in spans : i < x[1]}}
<1>0. i \in Int /\ interval[1] \in Int /\ interval[2] \in Int /\ interval[1] <= i /\ i + 1 <= interval[2]
  BY StretchesAre, InstantsAreNumbers DEF Holds
<1>1. ASSUME NEW x \in spans, ~(i < x[1]) PROVE x[2] <= i
  <2>1. x[1] \in Int /\ x[2] \in Int
    BY StretchesAre, InstantsAreNumbers
  <2> QED
    BY <1>0, <1>1, <2>1 DEF Holds
<1>2. CASE Later = {}
  <2> DEFINE c == A!Cursor(interval, spans)
  <2>1. c \in Instants /\ (c = interval[1] \/ \E x \in spans : c = x[2])
    BY CursorIs
  <2>2. c <= i
    <3>1. \A x \in spans : ~(i < x[1])
      BY <1>2
    <3>2. \A x \in spans : x[2] <= i
      BY <1>1, <3>1
    <3> HIDE DEF c
    <3> QED
      BY <1>0, <2>1, <3>2
  <2>3. <<c, interval[2]>> \in A!Candidates(interval, spans)
    BY DEF A!Candidates
  <2> HIDE DEF c
  <2>4. c < interval[2]
    BY <1>0, <2>1, <2>2, InstantsAreNumbers
  <2>5. <<c, interval[2]>> \in A!Gaps(interval, spans)
    BY <2>3, <2>4 DEF A!Gaps
  <2>6. Holds(<<c, interval[2]>>, i)
    BY <1>0, <2>2 DEF Holds
  <2> QED
    BY <2>5, <2>6
<1>3. CASE Later # {}
  <2>1. Later \in SUBSET Instants
    BY StretchesAre
  <2>2. PICK least \in Later : \A y \in Later : least <= y
    <3> HIDE DEF Later
    <3>1. Later \in SUBSET Nat
      BY <2>1, InstantsAreNumbers
    <3> QED
      BY <1>3, <3>1, Least
  <2>3. PICK s \in spans : least = s[1] /\ i < s[1]
    OBVIOUS
  <2> DEFINE Earlier == {x \in spans : x[1] < s[1]}
             c == A!Cursor(interval, Earlier)
  <2>4. Earlier \in SUBSET Stretches
    OBVIOUS
  <2>5. c \in Instants /\ (c = interval[1] \/ \E x \in Earlier : c = x[2])
    BY <2>4, CursorIs
  <2>6. ASSUME NEW x \in Earlier PROVE x[2] <= i
    <3>1. x \in spans /\ x[1] < s[1] /\ x[1] \in Int /\ s[1] \in Int
      BY StretchesAre, InstantsAreNumbers
    <3>2. ~(i < x[1])
      <4>1. SUFFICES ASSUME i < x[1] PROVE FALSE
        OBVIOUS
      <4>2. x[1] \in Later
        BY <3>1, <4>1
      <4>3. s[1] <= x[1]
        BY <2>2, <2>3, <4>2
      <4> QED
        BY <3>1, <4>3
    <3> QED
      BY <1>1, <3>1, <3>2
  <2>7. c <= i
    BY <1>0, <2>5, <2>6
  <2>8. s[1] \in Int /\ c \in Int
    BY <2>5, StretchesAre, InstantsAreNumbers
  <2>9. <<c, s[1]>> \in A!Candidates(interval, spans)
    BY DEF A!Candidates
  <2> HIDE DEF c
  <2>10. <<c, s[1]>> \in A!Gaps(interval, spans)
    BY <1>0, <2>3, <2>7, <2>8, <2>9 DEF A!Gaps
  <2>11. Holds(<<c, s[1]>>, i)
    BY <1>0, <2>3, <2>7, <2>8 DEF Holds
  <2> QED
    BY <2>10, <2>11
<1> QED
  BY <1>2, <1>3

-----------------------------------------------------------------------------
(* Which legs belong to the execution.                                     *)

\* The legs of parsed proposals.
LegsOf(legs) == IsFiniteSet(legs) /\ \A x \in legs : OnItsTracks(x)

\* After the first turn, the legs of one are inside its extent.
RoundIsWide(r) == \A x \in r.legs : A!Inside(A!Interval(x), r.extent)

Found(legs) == [legs : SUBSET legs, extent : Stretches]

LEMMA ExpandIs ==
    ASSUME NEW legs, LegsOf(legs), NEW r \in Found(legs)
    PROVE  LET e == A!Expand(legs, r)
           IN  /\ e \in Found(legs)
               /\ RoundIsWide(e)
               /\ A!Inside(r.extent, e.extent)
               /\ \A x \in legs : A!Overlaps(A!Interval(x), r.extent) => x \in e.legs
               /\ e.extent = A!Hull({r.extent} \cup {A!Interval(x) : x \in e.legs})
<1> DEFINE linked(x) == \E y \in r.legs : y.id \in x.previous \/ x.id \in y.previous
           selected == {x \in legs : A!Overlaps(A!Interval(x), r.extent) \/ linked(x)}
           S == {r.extent} \cup {A!Interval(x) : x \in selected}
           e == A!Expand(legs, r)
<1>1. e = [legs |-> selected, extent |-> A!Hull(S)]
  BY Zenon DEF A!Expand
<1>2. S \in SUBSET Stretches /\ S # {}
  <2>1. \A x \in legs : A!Interval(x) \in Stretches
    BY IntervalIs DEF LegsOf
  <2>2. selected \subseteq legs
    OBVIOUS
  <2>3. r.extent \in Stretches
    BY DEF Found
  <2> HIDE DEF selected
  <2> QED
    BY <2>1, <2>2, <2>3
<1>3. /\ A!Hull(S) \in Stretches
      /\ \A s \in S : A!Inside(s, A!Hull(S))
  <2> HIDE DEF S
  <2> QED
    BY <1>2, HullIs
<1>4. selected \in SUBSET legs
  OBVIOUS
<1>5. \A x \in legs : A!Overlaps(A!Interval(x), r.extent) => x \in selected
  OBVIOUS
<1>6. r.extent \in S /\ \A x \in selected : A!Interval(x) \in S
  OBVIOUS
<1>7. e.legs = selected /\ e.extent = A!Hull(S)
  BY <1>1
<1> HIDE DEF e, selected
<1>8. e \in Found(legs)
  <2> HIDE DEF S
  <2> QED
    BY <1>1, <1>3, <1>4 DEF Found
<1>9. e.extent = A!Hull({r.extent} \cup {A!Interval(x) : x \in e.legs})
  BY <1>7
<1> HIDE DEF S
<1>10. RoundIsWide(e) /\ A!Inside(r.extent, e.extent)
  BY <1>3, <1>6, <1>7 DEF RoundIsWide
<1>11. \A x \in legs : A!Overlaps(A!Interval(x), r.extent) => x \in e.legs
  BY <1>5, <1>7
<1> QED
  BY <1>8, <1>9, <1>10, <1>11 DEF e

FirstRound(legs, execution) ==
    [legs |-> {x \in legs : A!Overlaps(A!Interval(x), execution)}, extent |-> execution]

\* The turns are what the code computes.
LEMMA RoundsAre ==
    ASSUME NEW legs, LegsOf(legs), NEW execution \in Stretches
    PROVE  LET round == A!Rounds(legs, execution)
           IN  /\ Cardinality(legs) \in Nat
               /\ round[0] = FirstRound(legs, execution)
               /\ \A n \in 0..(Cardinality(legs) + 1) : round[n] \in Found(legs)
               /\ \A n \in 1..(Cardinality(legs) + 1) : round[n] = A!Expand(legs, round[n - 1])
<1> DEFINE last == A!Cardinality(legs) + 1
<1>0. A!Cardinality(legs) = Cardinality(legs)
  BY DEF A!Cardinality, Cardinality
<1>1. Cardinality(legs) \in Nat /\ last \in Nat /\ last = Cardinality(legs) + 1
  BY <1>0, FS_CardinalityType DEF LegsOf
<1> DEFINE first == FirstRound(legs, execution)
           step == [nr \in (1..last) \X Found(legs) |-> A!Expand(legs, nr[2])]
           IsRound(round) ==
               round = [n \in 0..last |-> IF n = 0 THEN first ELSE A!Expand(legs, round[n - 1])]
<1>7. A!Rounds(legs, execution) = CHOOSE round : IsRound(round)
  BY Zenon DEF A!Rounds, FirstRound
<1> HIDE DEF last
<1>2. first \in Found(legs)
  BY DEF FirstRound, Found
<1>3. step \in [(1..last) \X Found(legs) -> Found(legs)]
  BY ExpandIs
<1>4. PICK h \in [0..last -> Found(legs)] :
          h[0] = first /\ \A n \in 1..last : h[n] = step[<<n, h[n - 1]>>]
  <2> HIDE DEF first, step
  <2>1. IsComputed(Found(legs), first, last, step)
    BY <1>1, <1>2, <1>3, Recursion
  <2> QED
    BY <2>1, Zenon DEF IsComputed
<1>5. \A n \in 1..last : h[n] = A!Expand(legs, h[n - 1])
  <2> SUFFICES ASSUME NEW n \in 1..last PROVE h[n] = A!Expand(legs, h[n - 1])
    OBVIOUS
  <2>1. n - 1 \in 0..last
    BY <1>1
  <2>2. h[n - 1] \in Found(legs)
    BY <2>1
  <2> HIDE DEF first
  <2> QED
    BY <1>4, <2>2
<1> HIDE DEF step, first
<1>6. IsRound(h)
  <2>1. \A n \in 0..last : n # 0 => n \in 1..last
    BY <1>1
  <2> QED
    BY <1>4, <1>5, <2>1
<1> DEFINE round == A!Rounds(legs, execution)
<1>8. IsRound(round)
  <2> HIDE DEF IsRound
  <2> QED
    BY <1>6, <1>7, Zenon
<1> HIDE DEF round
<1>9. /\ round[0] = first
      /\ \A n \in 1..last : round[n] = A!Expand(legs, round[n - 1])
  <2>1. 0 \in 0..last /\ \A n \in 1..last : n \in 0..last /\ n # 0
    BY <1>1
  <2> QED
    BY <1>8, <2>1
<1>10. \A n \in 0..last : round[n] \in Found(legs)
  <2> DEFINE S == {n \in 0..last : round[n] \in Found(legs)}
  <2>1. 0 \in S
    BY <1>1, <1>2, <1>9
  <2>2. ASSUME NEW n \in 0..last, n \in S, n < last PROVE n + 1 \in S
    <3>1. n + 1 \in 1..last /\ n + 1 \in 0..last /\ (n + 1) - 1 = n
      BY <1>1, <2>2
    <3>2. round[n] \in Found(legs)
      BY <2>2
    <3>3. round[n + 1] = A!Expand(legs, round[n])
      BY <1>9, <3>1
    <3> QED
      BY <3>1, <3>2, <3>3, ExpandIs
  <2> HIDE DEF S
  <2>3. 0..last \subseteq S
    BY <1>1, <2>1, <2>2, SampleInduction
  <2> QED
    BY <2>3 DEF S
<1> QED
  BY <1>1, <1>9, <1>10 DEF round, first

\* What holds all the others is what holds them.
LEMMA HullOfOne ==
    ASSUME NEW S \in SUBSET Stretches, NEW h \in S, \A s \in S : A!Inside(s, h)
    PROVE  A!Hull(S) = h
<1> PICK g : g = A!Hull(S)
  OBVIOUS
<1>1. g \in Stretches /\ A!Inside(h, g) /\ (\E s \in S : g[1] = s[1]) /\ (\E s \in S : g[2] = s[2])
  BY HullIs
<1>2. h[1] <= g[1] /\ g[2] <= h[2] /\ g[1] <= h[1] /\ h[2] <= g[2]
  BY <1>1 DEF A!Inside
<1>3. h \in Stretches
  OBVIOUS
<1>4. g[1] \in Int /\ g[2] \in Int /\ h[1] \in Int /\ h[2] \in Int
  BY <1>1, <1>3, StretchesAre, InstantsAreNumbers
<1>5. g[1] = h[1] /\ g[2] = h[2]
  BY <1>2, <1>4
<1> QED
  BY <1>1, <1>3, <1>5, StretchesAre

LEMMA InsideIsTransitive ==
    ASSUME NEW a \in Stretches, NEW b \in Stretches, NEW c \in Stretches,
           A!Inside(a, b), A!Inside(b, c)
    PROVE  A!Inside(a, c)
<1>1. /\ a[1] \in Int /\ a[2] \in Int /\ b[1] \in Int /\ b[2] \in Int
      /\ c[1] \in Int /\ c[2] \in Int
  BY StretchesAre, InstantsAreNumbers
<1> QED
  BY <1>1 DEF A!Inside

LEMMA InsideIsOverlap ==
    ASSUME NEW a \in Stretches, NEW b \in Stretches, A!Inside(a, b)
    PROVE  A!Overlaps(a, b)
<1>1. a[1] \in Int /\ a[2] \in Int /\ b[1] \in Int /\ b[2] \in Int /\ a[1] < a[2]
  BY StretchesAre, InstantsAreNumbers
<1> QED
  BY <1>1 DEF A!Inside, A!Overlaps

\* A turn that stretches the extent does so for a leg that is new.
LEMMA StretchedByNewLeg ==
    ASSUME NEW legs, LegsOf(legs), NEW r \in Found(legs), RoundIsWide(r),
           LET e == A!Expand(legs, r) IN e.extent # r.extent
    PROVE  /\ r.legs \subseteq A!Expand(legs, r).legs
           /\ A!Expand(legs, r).legs # r.legs
<1> PICK e : e = A!Expand(legs, r)
  OBVIOUS
<1> DEFINE S == {r.extent} \cup {A!Interval(x) : x \in e.legs}
<1>1. /\ e \in Found(legs) /\ e.extent = A!Hull(S)
      /\ \A x \in legs : A!Overlaps(A!Interval(x), r.extent) => x \in e.legs
  BY ExpandIs
<1>2. r.extent \in Stretches /\ r.legs \in SUBSET legs /\ e.legs \in SUBSET legs
  BY <1>1 DEF Found
<1>3. \A x \in legs : A!Interval(x) \in Stretches
  BY IntervalIs DEF LegsOf
<1>4. r.legs \subseteq e.legs
  BY <1>1, <1>2, <1>3, InsideIsOverlap DEF RoundIsWide
<1>5. ASSUME e.legs = r.legs PROVE FALSE
  <2>1. S \in SUBSET Stretches /\ r.extent \in S
    BY <1>2, <1>3
  <2>2. A!Inside(r.extent, r.extent)
    <3>1. r.extent[1] \in Int /\ r.extent[2] \in Int
      BY <1>2, StretchesAre, InstantsAreNumbers
    <3> QED
      BY <3>1 DEF A!Inside
  <2>3. \A s \in S : A!Inside(s, r.extent)
    BY <1>5, <2>2 DEF RoundIsWide
  <2>4. A!Hull(S) = r.extent
    <3> HIDE DEF S
    <3> QED
      BY <2>1, <2>3, HullOfOne
  <2> QED
    BY <1>1, <2>4
<1> QED
  BY <1>4, <1>5

LEMMA RoundsAreSound ==
    ASSUME NEW legs, LegsOf(legs), NEW execution \in Stretches,
           NEW n \in 0..(Cardinality(legs) + 1)
    PROVE  LET r == A!Rounds(legs, execution)[n]
           IN  /\ r \in Found(legs) /\ A!Inside(execution, r.extent)
               /\ n # 0 => RoundIsWide(r)
               /\ \A x \in r.legs : A!Overlaps(A!Interval(x), r.extent)
<1> PICK last : last = Cardinality(legs) + 1
  OBVIOUS
<1> PICK round : round = A!Rounds(legs, execution)
  OBVIOUS
<1>1. /\ last \in Nat
      /\ round[0] = FirstRound(legs, execution)
      /\ \A m \in 0..last : round[m] \in Found(legs)
      /\ \A m \in 1..last : round[m] = A!Expand(legs, round[m - 1])
  BY RoundsAre
<1>2. \A m \in 1..last : m - 1 \in 0..last
  BY <1>1
<1>3. \A m \in 1..last : RoundIsWide(round[m]) /\ A!Inside(round[m - 1].extent, round[m].extent)
  <2> SUFFICES ASSUME NEW m \in 1..last
               PROVE  RoundIsWide(round[m]) /\ A!Inside(round[m - 1].extent, round[m].extent)
    OBVIOUS
  <2>1. round[m - 1] \in Found(legs) /\ round[m] = A!Expand(legs, round[m - 1])
    BY <1>1, <1>2
  <2>2. PICK r \in Found(legs) : r = round[m - 1]
    BY <2>1
  <2>3. RoundIsWide(A!Expand(legs, r)) /\ A!Inside(r.extent, A!Expand(legs, r).extent)
    BY ExpandIs
  <2> QED
    BY <2>1, <2>2, <2>3
<1> DEFINE S == {m \in 0..last : A!Inside(execution, round[m].extent)}
<1>4. 0 \in S
  <2>1. execution[1] \in Int /\ execution[2] \in Int
    BY StretchesAre, InstantsAreNumbers
  <2>2. round[0].extent = execution
    BY <1>1 DEF FirstRound
  <2> QED
    BY <1>1, <2>1, <2>2 DEF A!Inside
<1>5. ASSUME NEW m \in 0..last, m \in S, m < last PROVE m + 1 \in S
  <2>1. m + 1 \in 1..last /\ m + 1 \in 0..last /\ (m + 1) - 1 = m
    BY <1>1, <1>5
  <2>2. A!Inside(round[m].extent, round[m + 1].extent)
    BY <1>3, <2>1
  <2>3. round[m].extent \in Stretches /\ round[m + 1].extent \in Stretches
    BY <1>1, <2>1 DEF Found
  <2>4. A!Inside(execution, round[m + 1].extent)
    BY <1>5, <2>2, <2>3, InsideIsTransitive
  <2> QED
    BY <2>1, <2>4
<1>6. n \in S
  <2> HIDE DEF S
  <2>1. 0..last \subseteq S
    BY <1>1, <1>4, <1>5, SampleInduction
  <2> QED
    BY <2>1
<1>7. round[n] \in Found(legs) /\ A!Inside(execution, round[n].extent)
  BY <1>1, <1>6
<1>8. n # 0 => RoundIsWide(round[n])
  BY <1>1, <1>3
<1>9. ASSUME NEW x \in round[n].legs PROVE A!Overlaps(A!Interval(x), round[n].extent)
  <2>1. CASE n = 0
    BY <1>1, <1>9, <2>1 DEF FirstRound
  <2>2. CASE n # 0
    <3>1. A!Inside(A!Interval(x), round[n].extent)
      BY <1>8, <1>9, <2>2 DEF RoundIsWide
    <3>2. x \in legs /\ round[n].extent \in Stretches
      BY <1>7, <1>9 DEF Found
    <3>3. A!Interval(x) \in Stretches
      BY <3>2, IntervalIs DEF LegsOf
    <3> QED
      BY <3>1, <3>2, <3>3, InsideIsOverlap
  <2> QED
    BY <2>1, <2>2
<1> QED
  BY <1>7, <1>8, <1>9

\* There are not enough legs for all turns to stretch the extent.
LEMMA SomeRoundIsStill ==
    ASSUME NEW legs, LegsOf(legs), NEW execution \in Stretches
    PROVE  LET round == A!Rounds(legs, execution)
           IN  \E n \in 1..(Cardinality(legs) + 1) : round[n].extent = round[n - 1].extent
<1> PICK last : last = Cardinality(legs) + 1
  OBVIOUS
<1> PICK round : round = A!Rounds(legs, execution)
  OBVIOUS
<1> SUFFICES ASSUME \A n \in 1..last : round[n].extent # round[n - 1].extent
             PROVE  FALSE
  OBVIOUS
<1>1. /\ Cardinality(legs) \in Nat /\ last \in Nat /\ last >= 1 /\ 1 \in Nat
      /\ \A m \in 1..last : round[m] = A!Expand(legs, round[m - 1])
  BY RoundsAre
<1>2. \A m \in 0..last : round[m] \in Found(legs) /\ (m # 0 => RoundIsWide(round[m]))
  BY RoundsAreSound
<1>3. \A m \in 0..last : IsFiniteSet(round[m].legs) /\ Cardinality(round[m].legs) \in Nat
                         /\ round[m].legs \in SUBSET legs
  <2>1. \A m \in 0..last : round[m].legs \in SUBSET legs
    BY <1>2 DEF Found
  <2> QED
    BY <2>1, FS_Subset, FS_CardinalityType DEF LegsOf
<1> DEFINE S == {m \in 1..last : Cardinality(round[m].legs) >= m}
<1>4. 1 \in S
  <2>1. 1 \in 1..last /\ 1 - 1 = 0 /\ 0 \in 0..last /\ 1 \in 0..last
    BY <1>1
  <2>2. round[1] = A!Expand(legs, round[0]) /\ round[1].extent # round[0].extent
    BY <1>1, <2>1
  <2>3. ASSUME round[1].legs = {} PROVE FALSE
    <3> PICK e : e = round[0].extent
      OBVIOUS
    <3>1. e \in Stretches
      BY <1>2, <2>1 DEF Found
    <3>2. round[1].extent = A!Hull({e} \cup {A!Interval(x) : x \in round[1].legs})
      BY <1>2, <2>1, <2>2, ExpandIs
    <3>3. round[1].extent = A!Hull({e})
      BY <2>3, <3>2
    <3>4. A!Inside(e, e)
      <4>1. e[1] \in Int /\ e[2] \in Int
        BY <3>1, StretchesAre, InstantsAreNumbers
      <4> QED
        BY <4>1 DEF A!Inside
    <3>5. A!Hull({e}) = e
      BY <3>1, <3>4, HullOfOne
    <3> QED
      BY <2>2, <3>3, <3>5
  <2>4. Cardinality(round[1].legs) # 0
    BY <1>3, <2>1, <2>3, FS_EmptySet
  <2>5. Cardinality(round[1].legs) >= 1
    BY <1>3, <2>1, <2>4
  <2> QED
    BY <2>1, <2>5
<1>5. ASSUME NEW m \in 1..last, m \in S, m < last PROVE m + 1 \in S
  <2>1. m + 1 \in 1..last /\ m + 1 \in 0..last /\ m \in 0..last /\ m # 0 /\ (m + 1) - 1 = m
    BY <1>1, <1>5
  <2>2. round[m + 1] = A!Expand(legs, round[m]) /\ round[m + 1].extent # round[m].extent
    BY <1>1, <2>1
  <2>3. round[m].legs \subseteq round[m + 1].legs /\ round[m + 1].legs # round[m].legs
    BY <1>2, <2>1, <2>2, StretchedByNewLeg
  <2>4. Cardinality(round[m].legs) < Cardinality(round[m + 1].legs)
    <3>1. /\ Cardinality(round[m].legs) <= Cardinality(round[m + 1].legs)
          /\ Cardinality(round[m].legs) = Cardinality(round[m + 1].legs)
                => round[m].legs = round[m + 1].legs
      BY <1>3, <2>1, <2>3, FS_Subset
    <3> QED
      BY <1>3, <2>1, <2>3, <3>1
  <2>5. Cardinality(round[m].legs) >= m
    BY <1>5
  <2>6. Cardinality(round[m + 1].legs) >= m + 1
    BY <1>3, <2>1, <2>4, <2>5
  <2> QED
    BY <2>1, <2>6
<1>6. last \in S
  <2> HIDE DEF S
  <2>1. 1..last \subseteq S
    BY <1>1, <1>4, <1>5, SampleInduction
  <2> QED
    BY <1>1, <2>1
<1>7. Cardinality(round[last].legs) <= Cardinality(legs)
  <2>1. last \in 0..last
    BY <1>1
  <2> QED
    BY <1>3, <2>1, FS_Subset DEF LegsOf
<1>8. Cardinality(round[last].legs) >= last /\ Cardinality(round[last].legs) \in Nat
  BY <1>1, <1>3, <1>6
<1> QED
  BY <1>1, <1>7, <1>8

\* The legs that are selected are all that overlap the extent, and inside.
LEMMA SelectedAre ==
    ASSUME NEW legs, LegsOf(legs), NEW execution \in Stretches
    PROVE  LET found == A!Selected(legs, execution)
           IN  /\ found \in Found(legs) /\ A!Inside(execution, found.extent)
               /\ RoundIsWide(found)
               /\ \A x \in legs : A!Overlaps(A!Interval(x), found.extent) => x \in found.legs
<1> DEFINE last == A!Cardinality(legs) + 1
           round == A!Rounds(legs, execution)
           still(n) == round[n].extent = round[n - 1].extent
           Fits(n) == still(n) /\ \A m \in 1..(n - 1) : ~still(m)
           chosen == CHOOSE n \in 1..last : Fits(n)
<1>0. A!Cardinality(legs) = Cardinality(legs)
  BY DEF A!Cardinality, Cardinality
<1>1. A!Selected(legs, execution) = round[chosen]
  BY Zenon DEF A!Selected
<1>2. last = Cardinality(legs) + 1 /\ last \in Nat
  BY <1>0, RoundsAre
<1> HIDE DEF last
<1>3. \E n \in 1..last : still(n)
  BY <1>2, SomeRoundIsStill
<1>4. \E n \in 1..last : Fits(n)
  <2> DEFINE Stills == {n \in 1..last : still(n)}
  <2>1. Stills \in SUBSET Nat /\ Stills # {}
    BY <1>2, <1>3
  <2>2. PICK n \in Stills : \A m \in Stills : n <= m
    <3> HIDE DEF Stills
    <3> QED
      BY <2>1, Least
  <2> HIDE DEF round
  <2>3. ASSUME NEW m \in 1..(n - 1) PROVE ~still(m)
    <3>1. m \in 1..last /\ ~(n <= m)
      BY <1>2
    <3> QED
      BY <2>2, <3>1
  <2> QED
    BY <2>3
<1>5. chosen \in 1..last /\ still(chosen)
  <2>1. chosen \in 1..last /\ Fits(chosen)
    <3> HIDE DEF Fits
    <3> QED
      BY <1>4, Zenon
  <2> QED
    BY <2>1
<1> HIDE DEF chosen
<1>6. chosen \in 0..last /\ chosen - 1 \in 0..last /\ chosen # 0
  BY <1>2, <1>5
<1>7. /\ round[chosen] \in Found(legs) /\ A!Inside(execution, round[chosen].extent)
      /\ RoundIsWide(round[chosen])
      /\ round[chosen - 1] \in Found(legs)
  BY <1>2, <1>6, RoundsAreSound
<1>8. round[chosen] = A!Expand(legs, round[chosen - 1])
  BY <1>2, <1>5, RoundsAre
<1> HIDE DEF round
<1>9. \A x \in legs : A!Overlaps(A!Interval(x), round[chosen].extent) => x \in round[chosen].legs
  BY <1>5, <1>7, <1>8, ExpandIs
<1> QED
  BY <1>1, <1>7, <1>9

-----------------------------------------------------------------------------
(* The coarse steps.                                                       *)

\* What the steps are cut at.
CutsAscend(cuts) ==
    /\ cuts \in Seq(Instants) /\ Len(cuts) >= 2
    /\ \A n \in 2..Len(cuts) : cuts[n - 1] < cuts[n]

Bounds(cuts) == <<cuts[1], cuts[Len(cuts)]>>

LEMMA CutsAreBounded ==
    ASSUME NEW cuts, CutsAscend(cuts)
    PROVE  /\ Len(cuts) \in Nat /\ \A n \in 1..Len(cuts) : cuts[n] \in Instants
           /\ \A n \in 1..Len(cuts) : cuts[1] <= cuts[n] /\ cuts[n] <= cuts[Len(cuts)]
           /\ Bounds(cuts) \in Stretches
<1> PICK last : last = Len(cuts)
  OBVIOUS
<1>1. /\ last \in Nat /\ last >= 2 /\ \A n \in 1..last : cuts[n] \in Instants
      /\ \A n \in 2..last : cuts[n - 1] < cuts[n]
  BY DEF CutsAscend
<1>2. \A n \in 1..last : cuts[n] \in Int
  BY <1>1, InstantsAreNumbers
<1>3. ASSUME NEW m \in 1..last, NEW n \in m..last PROVE cuts[m] <= cuts[n]
  <2> DEFINE S == {k \in m..last : cuts[m] <= cuts[k]}
  <2>1. m \in Nat /\ m \in S
    BY <1>1, <1>2
  <2>2. ASSUME NEW k \in m..last, k \in S, k < last PROVE k + 1 \in S
    <3>1. k \in 1..last /\ k + 1 \in m..last /\ k + 1 \in 1..last /\ k + 1 \in 2..last /\ (k + 1) - 1 = k
      BY <1>1, <2>2
    <3>2. cuts[k] < cuts[k + 1] /\ cuts[m] <= cuts[k]
      BY <1>1, <2>2, <3>1
    <3>3. cuts[m] <= cuts[k + 1]
      BY <1>2, <3>1, <3>2
    <3> QED
      BY <3>1, <3>3
  <2> HIDE DEF S
  <2>3. m..last \subseteq S
    BY <1>1, <2>1, <2>2, SampleInduction
  <2> QED
    BY <2>3 DEF S
<1>4. \A n \in 1..last : cuts[1] <= cuts[n] /\ cuts[n] <= cuts[last]
  BY <1>1, <1>3
<1>5. cuts[1] < cuts[last]
  <2>1. 1 \in 1..last /\ 2 \in 1..last /\ 2 \in 2..last /\ last \in 1..last /\ 2 - 1 = 1
    BY <1>1
  <2>2. cuts[1] < cuts[2] /\ cuts[2] <= cuts[last]
    BY <1>1, <1>4, <2>1
  <2> QED
    BY <1>2, <2>1, <2>2
<1>6. <<cuts[1], cuts[last]>> \in Stretches
  <2>1. cuts[1] \in Instants /\ cuts[last] \in Instants
    BY <1>1
  <2> QED
    BY <1>5, <2>1 DEF Stretches, Instants
<1> QED
  BY <1>1, <1>4, <1>6 DEF Bounds

\* They tile the extent.
LEMMA StepsAre ==
    ASSUME NEW cuts, CutsAscend(cuts),
           NEW extent \in Stretches, A!Inside(Bounds(cuts), extent)
    PROVE  LET steps == A!Steps(cuts, extent)
           IN  /\ DOMAIN steps = 1..(Len(cuts) - 1)
               /\ \A n \in DOMAIN steps : steps[n][1] < steps[n][2] /\ A!Inside(steps[n], extent)
               /\ \A i \in extent[1]..(extent[2] - 1) :
                      \E n \in DOMAIN steps : steps[n][1] <= i /\ i < steps[n][2]
<1> PICK last : last = Len(cuts) - 1
  OBVIOUS
<1> PICK steps : steps = A!Steps(cuts, extent)
  OBVIOUS
<1>1. /\ Len(cuts) \in Nat /\ last \in Nat /\ last >= 1 /\ Len(cuts) = last + 1
      /\ \A n \in 1..(last + 1) : cuts[n] \in Int
      /\ \A n \in 1..(last + 1) : cuts[1] <= cuts[n] /\ cuts[n] <= cuts[last + 1]
      /\ \A n \in 2..(last + 1) : cuts[n - 1] < cuts[n]
  <2>1. Len(cuts) \in Nat /\ Len(cuts) >= 2 /\ \A n \in 2..Len(cuts) : cuts[n - 1] < cuts[n]
    BY CutsAreBounded DEF CutsAscend
  <2>2. last \in Nat /\ last >= 1 /\ Len(cuts) = last + 1
    BY <2>1
  <2>3. /\ \A n \in 1..Len(cuts) : cuts[n] \in Int
        /\ \A n \in 1..Len(cuts) : cuts[1] <= cuts[n] /\ cuts[n] <= cuts[Len(cuts)]
    BY CutsAreBounded, InstantsAreNumbers
  <2> QED
    BY <2>1, <2>2, <2>3
<1>2. extent[1] \in Int /\ extent[2] \in Int /\ extent[1] <= cuts[1] /\ cuts[last + 1] <= extent[2]
  <2>1. extent[1] \in Int /\ extent[2] \in Int
    BY StretchesAre, InstantsAreNumbers
  <2> QED
    BY <1>1, <2>1 DEF A!Inside, Bounds
<1>3. /\ DOMAIN steps = 1..last
      /\ \A n \in 1..last : /\ steps[n][1] = IF n = 1 THEN extent[1] ELSE cuts[n]
                            /\ steps[n][2] = IF n = last THEN extent[2] ELSE cuts[n + 1]
  BY DEF A!Steps
<1>4. ASSUME NEW n \in 1..last
      PROVE  steps[n][1] < steps[n][2] /\ A!Inside(steps[n], extent)
  <2>1. n \in 1..(last + 1) /\ n + 1 \in 1..(last + 1) /\ n + 1 \in 2..(last + 1) /\ (n + 1) - 1 = n
    BY <1>1
  <2>2. /\ cuts[n] \in Int /\ cuts[n + 1] \in Int /\ cuts[n] < cuts[n + 1]
        /\ extent[1] <= cuts[n] /\ cuts[n + 1] <= extent[2]
    <3>1. cuts[1] \in Int /\ cuts[last + 1] \in Int
      BY <1>1
    <3>2. cuts[n] \in Int /\ cuts[n + 1] \in Int /\ cuts[n] < cuts[n + 1]
          /\ cuts[1] <= cuts[n] /\ cuts[n + 1] <= cuts[last + 1]
      BY <1>1, <2>1
    <3> QED
      BY <1>2, <3>1, <3>2
  <2>3. /\ steps[n][1] = extent[1] \/ steps[n][1] = cuts[n]
        /\ steps[n][2] = extent[2] \/ steps[n][2] = cuts[n + 1]
    BY <1>3
  <2> QED
    BY <1>2, <2>2, <2>3 DEF A!Inside
<1>5. ASSUME NEW i \in extent[1]..(extent[2] - 1),
             \A n \in 1..last : ~(steps[n][1] <= i /\ i < steps[n][2])
      PROVE  FALSE
  <2>1. i \in Int /\ extent[1] <= i /\ i < extent[2]
    BY <1>2
  <2> DEFINE S == {n \in 1..last : steps[n][1] <= i}
  <2>2. 1 \in Nat /\ 1 \in S
    BY <1>1, <1>3, <2>1
  <2>3. ASSUME NEW n \in 1..last, n \in S, n < last PROVE n + 1 \in S
    <3>1. n + 1 \in 1..last /\ n + 1 # 1 /\ n # last /\ n + 1 \in 1..(last + 1)
      BY <1>1, <2>3
    <3>2. steps[n + 1][1] = cuts[n + 1] /\ steps[n][2] = cuts[n + 1] /\ cuts[n + 1] \in Int
      BY <1>1, <1>3, <3>1
    <3>3. ~(i < steps[n][2])
      BY <1>5, <2>3
    <3> QED
      BY <2>1, <3>1, <3>2, <3>3
  <2>4. last \in S
    <3> HIDE DEF S
    <3>1. \A n \in 1..last : n \in S /\ n < last => n + 1 \in S
      BY <2>3
    <3>2. 1 \in Nat /\ last \in Nat /\ 1 \in S
      BY <1>1, <2>2
    <3>3. 1..last \subseteq S
      BY <3>1, <3>2, SampleInduction
    <3> QED
      BY <1>1, <3>3
  <2>5. steps[last][1] <= i /\ steps[last][2] = extent[2]
    BY <1>1, <1>3, <2>4
  <2> QED
    BY <1>1, <1>5, <2>1, <2>5
<1> QED
  BY <1>3, <1>4, <1>5

\* What begins within the extent has a step.
LEMMA OwnerIs ==
    ASSUME NEW cuts, CutsAscend(cuts),
           NEW extent \in Stretches, A!Inside(Bounds(cuts), extent),
           NEW interval \in Stretches, A!Inside(interval, extent)
    PROVE  A!Owner(A!Steps(cuts, extent), interval) \in DOMAIN A!Steps(cuts, extent)
<1> PICK steps : steps = A!Steps(cuts, extent)
  OBVIOUS
<1> DEFINE S == {n \in DOMAIN steps : steps[n][1] <= interval[1] /\ interval[1] < steps[n][2]}
<1> PICK last : last = Len(cuts) - 1
  OBVIOUS
<1>1. last \in Int /\ DOMAIN steps = 1..last
  BY CutsAreBounded, StepsAre
<1>2. interval[1] \in extent[1]..(extent[2] - 1)
  <2>1. interval[1] \in Int /\ interval[2] \in Int /\ extent[1] \in Int /\ extent[2] \in Int
        /\ interval[1] < interval[2]
    BY StretchesAre, InstantsAreNumbers
  <2> QED
    BY <2>1 DEF A!Inside
<1>3. S # {}
  BY <1>2, StepsAre
<1> PICK one \in Int : one = 1
  OBVIOUS
<1>4. S \in SUBSET Int /\ \A n \in S : one <= n
  BY <1>1
<1>5. A!Owner(steps, interval) = A!Min(S) /\ A!Min(S) = E!Min(S)
  BY Zenon DEF A!Owner, A!Min, E!Min
<1>6. E!Min(S) \in S
  <2> HIDE DEF S
  <2> QED
    BY <1>3, <1>4, MinIs
<1> QED
  BY <1>5, <1>6

-----------------------------------------------------------------------------
(* The phases.                                                             *)

\* A phase of the track lasts from i to the next instant.
Phased(phases, t, i) == \E p \in phases : p.track = t /\ p.from <= i /\ i + 1 <= p.to

LEMMA PhasesAre ==
    ASSUME NEW x, OnItsTracks(x), NEW leg \in BOOLEAN
    PROVE  /\ \A p \in A!PhasesOf(x, leg) : A!ValidPhase(p, x) /\ A!Extent(p) \in Stretches
           /\ \A t \in DOMAIN x.span, i \in Instants :
                  Holds(x.span[t], i) => Phased(A!PhasesOf(x, leg), t, i)
<1> DEFINE given(t) == IF leg /\ x.phases = {}
                       THEN {A!Phase(t, x.span[t][1], x.span[t][2])}
                       ELSE {p \in x.phases : p.track = t}
           spans(t) == {A!Extent(p) : p \in given(t)}
           missing(t) == {A!Phase(t, g[1], g[2]) : g \in A!Gaps(x.span[t], spans(t))}
<1>1. A!PhasesOf(x, leg) = UNION {given(t) \cup missing(t) : t \in DOMAIN x.span}
  BY Zenon DEF A!PhasesOf
<1>2. ASSUME NEW t \in DOMAIN x.span
      PROVE  /\ x.span[t] \in Stretches
             /\ \A p \in given(t) : p.track = t /\ A!Extent(p) \in Stretches
                                    /\ A!Inside(A!Extent(p), x.span[t])
  <2>1. x.span[t] \in Stretches
    BY DEF OnItsTracks
  <2>2. ASSUME leg /\ x.phases = {}, NEW p \in given(t)
        PROVE  p.track = t /\ A!Extent(p) \in Stretches /\ A!Inside(A!Extent(p), x.span[t])
    <3> PICK s \in Stretches : s = x.span[t]
      BY <2>1
    <3>1. p = A!Phase(t, s[1], s[2])
      BY <2>2
    <3>2. p.track = t /\ A!Extent(p) = <<s[1], s[2]>>
      BY <3>1 DEF A!Phase, A!Extent
    <3>3. s = <<s[1], s[2]>> /\ s[1] \in Int /\ s[2] \in Int
      BY StretchesAre, InstantsAreNumbers
    <3> QED
      BY <3>2, <3>3 DEF A!Inside
  <2>3. ASSUME ~(leg /\ x.phases = {}), NEW p \in given(t)
        PROVE  p.track = t /\ A!Extent(p) \in Stretches /\ A!Inside(A!Extent(p), x.span[t])
    <3>1. p \in x.phases /\ p.track = t
      BY <2>3
    <3> QED
      BY <3>1 DEF OnItsTracks
  <2> QED
    BY <2>1, <2>2, <2>3
<1> HIDE DEF given
<1>3. ASSUME NEW t \in DOMAIN x.span
      PROVE  spans(t) \in SUBSET Stretches /\ \A s \in spans(t) : A!Inside(s, x.span[t])
  BY <1>2
<1>4. ASSUME NEW t \in DOMAIN x.span, NEW p \in given(t) PROVE A!ValidPhase(p, x) /\ A!Extent(p) \in Stretches
  <2>1. p.track = t /\ A!Extent(p) \in Stretches /\ A!Inside(A!Extent(p), x.span[t])
    BY <1>2
  <2>2. p.from < p.to
    <3>1. A!Extent(p)[1] = p.from /\ A!Extent(p)[2] = p.to
      BY DEF A!Extent
    <3> QED
      BY <2>1, <3>1, StretchesAre
  <2> QED
    BY <2>1, <2>2 DEF A!ValidPhase
<1>5. ASSUME NEW t \in DOMAIN x.span, NEW p \in missing(t) PROVE A!ValidPhase(p, x) /\ A!Extent(p) \in Stretches
  <2>1. PICK g \in A!Gaps(x.span[t], spans(t)) : p = A!Phase(t, g[1], g[2])
    OBVIOUS
  <2>2. g \in Stretches /\ A!Inside(g, x.span[t])
    <3> HIDE DEF spans
    <3> QED
      BY <1>2, <1>3, GapsAre
  <2>3. p.track = t /\ p.from = g[1] /\ p.to = g[2]
    BY <2>1 DEF A!Phase
  <2>4. A!Extent(p) = g /\ g[1] < g[2]
    BY <2>2, <2>3, StretchesAre DEF A!Extent
  <2> QED
    BY <2>2, <2>3, <2>4 DEF A!ValidPhase
<1>6. ASSUME NEW t \in DOMAIN x.span, NEW i \in Instants, Holds(x.span[t], i)
      PROVE  Phased(A!PhasesOf(x, leg), t, i)
  <2>1. (\E s \in spans(t) : Holds(s, i)) \/ (\E g \in A!Gaps(x.span[t], spans(t)) : Holds(g, i))
    <3>1. PICK S : S = spans(t)
      OBVIOUS
    <3> HIDE DEF spans
    <3> QED
      BY <1>2, <1>3, <1>6, <3>1, GapsFill
  <2>2. CASE \E s \in spans(t) : Holds(s, i)
    <3>1. PICK p \in given(t) : Holds(A!Extent(p), i)
      BY <2>2
    <3>2. p.track = t /\ p.from <= i /\ i + 1 <= p.to
      BY <1>2, <3>1 DEF Holds, A!Extent
    <3>3. p \in A!PhasesOf(x, leg)
      BY <1>1
    <3> QED
      BY <3>2, <3>3 DEF Phased
  <2>3. CASE \E g \in A!Gaps(x.span[t], spans(t)) : Holds(g, i)
    <3>1. PICK g \in A!Gaps(x.span[t], spans(t)) : Holds(g, i)
      BY <2>3
    <3> PICK p : p = A!Phase(t, g[1], g[2])
      OBVIOUS
    <3>2. p \in missing(t)
      OBVIOUS
    <3>3. p.track = t /\ p.from <= i /\ i + 1 <= p.to
      BY <3>1 DEF Holds, A!Phase
    <3>4. p \in A!PhasesOf(x, leg)
      <4> HIDE DEF missing
      <4> QED
        BY <1>1, <3>2
    <3> QED
      BY <3>3, <3>4 DEF Phased
  <2> QED
    BY <2>1, <2>2, <2>3
<1>7. ASSUME NEW p \in A!PhasesOf(x, leg) PROVE A!ValidPhase(p, x) /\ A!Extent(p) \in Stretches
  <2>1. PICK t \in DOMAIN x.span : p \in given(t) \cup missing(t)
    <3> HIDE DEF missing
    <3> QED
      BY <1>1
  <2> QED
    BY <1>4, <1>5, <2>1
<1> QED
  BY <1>6, <1>7

-----------------------------------------------------------------------------
(* The actions.                                                            *)

FoundOf(p) == A!Selected(p.legs, Bounds(p.cuts))
StepsOf(p) == A!Steps(p.cuts, FoundOf(p).extent)
IdsOf(p) == {x.id : x \in p.arms \cup FoundOf(p).legs}
KnownOf(p) ==
    {A!Known(x, StepsOf(p), FALSE, IdsOf(p)) : x \in p.arms}
    \cup {A!Known(x, StepsOf(p), TRUE, IdsOf(p)) : x \in FoundOf(p).legs}
GapsOf(p) == A!Transitions(KnownOf(p), StepsOf(p), FoundOf(p).extent)
ActionsOf(p) == KnownOf(p) \cup GapsOf(p)

Hierarchy(p) == A!Assemble(p.cuts, p.arms, p.legs, p.stances, p.events)

LEMMA HierarchyIs ==
    ASSUME NEW p
    PROVE  /\ Hierarchy(p).execution = FoundOf(p).extent
           /\ Hierarchy(p).steps = StepsOf(p)
           /\ Hierarchy(p).actions = ActionsOf(p)
           /\ Hierarchy(p).stances =
                {A!Clip(s, FoundOf(p).extent) :
                    s \in {x \in p.stances : A!Overlaps(x, FoundOf(p).extent)}}
           /\ Hierarchy(p).keyframes = A!Keyframes(ActionsOf(p), p.events)
<1>1. Hierarchy(p) =
        [execution |-> FoundOf(p).extent,
         steps |-> StepsOf(p),
         actions |-> ActionsOf(p),
         stances |-> {A!Clip(s, FoundOf(p).extent) :
                        s \in {x \in p.stances : A!Overlaps(x, FoundOf(p).extent)}},
         keyframes |-> A!Keyframes(ActionsOf(p), p.events)]
  BY Zenon DEF Hierarchy, A!Assemble, FoundOf, Bounds, StepsOf, IdsOf, KnownOf, GapsOf, ActionsOf
<1> QED
  BY <1>1

LEMMA FoundIs ==
    ASSUME NEW p, Parsed(p)
    PROVE  /\ CutsAscend(p.cuts)
           /\ Bounds(p.cuts) \in Stretches
           /\ FoundOf(p).extent \in Stretches
           /\ A!Inside(Bounds(p.cuts), FoundOf(p).extent)
           /\ FoundOf(p).legs \in SUBSET p.legs
           /\ \A x \in p.arms \cup FoundOf(p).legs :
                OnItsTracks(x) /\ A!Inside(A!Interval(x), FoundOf(p).extent)
           /\ \A x \in p.legs :
                A!Overlaps(A!Interval(x), FoundOf(p).extent) => x \in FoundOf(p).legs
<1>1. CutsAscend(p.cuts)
  BY Zenon DEF Parsed, CutsAscend, Instants
<1>2. LegsOf(p.legs) /\ \A x \in p.arms \cup p.legs : OnItsTracks(x)
  BY DEF Parsed, LegsOf
<1>3. Bounds(p.cuts) \in Stretches
  BY <1>1, CutsAreBounded
<1> DEFINE found == FoundOf(p)
<1>4. /\ found \in Found(p.legs) /\ A!Inside(Bounds(p.cuts), found.extent)
      /\ RoundIsWide(found)
      /\ \A x \in p.legs : A!Overlaps(A!Interval(x), found.extent) => x \in found.legs
  BY <1>2, <1>3, SelectedAre DEF FoundOf
<1> HIDE DEF found
<1>5. found.extent \in Stretches /\ found.legs \in SUBSET p.legs
  BY <1>4 DEF Found
<1>6. ASSUME NEW x \in p.arms PROVE A!Inside(A!Interval(x), found.extent)
  <2>1. A!Inside(A!Interval(x), Bounds(p.cuts))
    BY DEF Parsed, Bounds
  <2>2. A!Interval(x) \in Stretches
    BY <1>2, IntervalIs
  <2> QED
    BY <1>3, <1>4, <1>5, <2>1, <2>2, InsideIsTransitive
<1>7. \A x \in found.legs : A!Inside(A!Interval(x), found.extent)
  BY <1>4 DEF RoundIsWide
<1> QED
  BY <1>1, <1>2, <1>3, <1>4, <1>5, <1>6, <1>7 DEF found

\* An action that was proposed is what its proposal says.
IsKnown(p, a, x, leg) ==
    /\ x \in p.arms \cup FoundOf(p).legs /\ leg \in BOOLEAN
    /\ leg <=> x \notin p.arms
    /\ a = A!Known(x, StepsOf(p), leg, IdsOf(p))

LEMMA KnownAre ==
    ASSUME NEW p, Parsed(p)
    PROVE  /\ \A a \in KnownOf(p) :
                \E x \in p.arms \cup FoundOf(p).legs, leg \in BOOLEAN : IsKnown(p, a, x, leg)
           /\ \A x \in p.arms \cup FoundOf(p).legs :
                \E leg \in BOOLEAN, a \in KnownOf(p) : IsKnown(p, a, x, leg)
<1>1. \A x \in FoundOf(p).legs : x \notin p.arms
  BY FoundIs DEF Parsed
<1> QED
  BY <1>1 DEF KnownOf, IsKnown

LEMMA KnownIs ==
    ASSUME NEW p, Parsed(p), NEW x, NEW leg, NEW a, IsKnown(p, a, x, leg)
    PROVE  /\ a.id = <<"proposal", x.id>>
           /\ a.span = x.span /\ A!Interval(a) = A!Interval(x)
           /\ a.step = A!Owner(StepsOf(p), A!Interval(x))
           /\ a.previous = {<<"proposal", id>> : id \in x.previous \cap IdsOf(p)}
           /\ a.phases = A!PhasesOf(x, leg)
           /\ A!Interval(a) \in Stretches /\ A!Inside(A!Interval(a), FoundOf(p).extent)
           /\ \A t \in DOMAIN a.span : t \in Tracks /\ a.span[t] \in Stretches
<1>1. a = A!Known(x, StepsOf(p), leg, IdsOf(p)) /\ x \in p.arms \cup FoundOf(p).legs
  BY DEF IsKnown
<1>2. /\ a.id = <<"proposal", x.id>>
      /\ a.span = x.span
      /\ a.step = A!Owner(StepsOf(p), A!Interval(x))
      /\ a.previous = {<<"proposal", id>> : id \in x.previous \cap IdsOf(p)}
      /\ a.phases = A!PhasesOf(x, leg)
  BY <1>1 DEF A!Known
<1>3. A!Interval(a) = A!Interval(x)
  BY <1>2 DEF A!Interval
<1>4. OnItsTracks(x) /\ A!Inside(A!Interval(x), FoundOf(p).extent)
  BY <1>1, FoundIs
<1>5. A!Interval(x) \in Stretches /\ \A t \in DOMAIN x.span : t \in Tracks /\ x.span[t] \in Stretches
  BY <1>4, IntervalIs
<1> QED
  BY <1>2, <1>3, <1>4, <1>5

\* A transition is what is left of a track.
SpansOn(p, t) == {a.span[t] : a \in {x \in KnownOf(p) : t \in DOMAIN x.span}}

LEMMA SpansAre ==
    ASSUME NEW p, Parsed(p), NEW t
    PROVE  SpansOn(p, t) \in SUBSET Stretches
           /\ \A s \in SpansOn(p, t) : A!Inside(s, FoundOf(p).extent)
<1> SUFFICES ASSUME NEW a \in KnownOf(p), t \in DOMAIN a.span
             PROVE  a.span[t] \in Stretches /\ A!Inside(a.span[t], FoundOf(p).extent)
  BY DEF SpansOn
<1> PICK x \in p.arms \cup FoundOf(p).legs, leg \in BOOLEAN : IsKnown(p, a, x, leg)
  BY KnownAre
<1>1. a.span = x.span /\ OnItsTracks(x) /\ A!Inside(A!Interval(x), FoundOf(p).extent)
  <2>1. a.span = x.span
    BY KnownIs
  <2>2. OnItsTracks(x) /\ A!Inside(A!Interval(x), FoundOf(p).extent)
    BY FoundIs
  <2> QED
    BY <2>1, <2>2
<1>2. /\ A!Interval(x) \in Stretches /\ x.span[t] \in Stretches
      /\ A!Inside(x.span[t], A!Interval(x)) /\ FoundOf(p).extent \in Stretches
  BY <1>1, IntervalIs, FoundIs
<1> QED
  BY <1>1, <1>2, InsideIsTransitive

IsGap(p, a, t, g) ==
    /\ t \in Tracks /\ g \in A!Gaps(FoundOf(p).extent, SpansOn(p, t))
    /\ a = [id |-> <<"gap", t, g>>,
            span |-> [u \in {t} |-> g],
            step |-> A!Owner(StepsOf(p), g),
            previous |-> {},
            phases |-> {A!Phase(t, g[1], g[2])}]

LEMMA TransitionsAre ==
    ASSUME NEW p
    PROVE  /\ \A a \in GapsOf(p) : \E t, g : IsGap(p, a, t, g)
           /\ \A t \in Tracks : \A g \in A!Gaps(FoundOf(p).extent, SpansOn(p, t)) :
                \E a \in GapsOf(p) : IsGap(p, a, t, g)
<1> DEFINE action(t, g) == [id |-> <<"gap", t, g>>,
                            span |-> [u \in {t} |-> g],
                            step |-> A!Owner(StepsOf(p), g),
                            previous |-> {},
                            phases |-> {A!Phase(t, g[1], g[2])}]
           gaps(t) == A!Gaps(FoundOf(p).extent, SpansOn(p, t))
<1>1. GapsOf(p) = UNION {{action(t, g) : g \in gaps(t)} : t \in Tracks}
  BY Zenon DEF GapsOf, A!Transitions, SpansOn
<1>2. \A a, t, g : IsGap(p, a, t, g) <=> t \in Tracks /\ g \in gaps(t) /\ a = action(t, g)
  BY Zenon DEF IsGap
<1> SUFFICES /\ \A a \in GapsOf(p) : \E t, g : IsGap(p, a, t, g)
             /\ \A t \in Tracks : \A g \in gaps(t) : \E a \in GapsOf(p) : IsGap(p, a, t, g)
  OBVIOUS
<1> HIDE DEF action, gaps
<1>3. ASSUME NEW a \in GapsOf(p) PROVE \E t, g : IsGap(p, a, t, g)
  <2>1. \E t \in Tracks : \E g \in gaps(t) : a = action(t, g)
    BY <1>1
  <2> QED
    BY <1>2, <2>1
<1>4. ASSUME NEW t \in Tracks, NEW g \in gaps(t) PROVE \E a \in GapsOf(p) : IsGap(p, a, t, g)
  <2>1. action(t, g) \in GapsOf(p)
    BY <1>1
  <2> QED
    BY <1>2, <2>1
<1> QED
  BY <1>3, <1>4

LEMMA GapIs ==
    ASSUME NEW p, Parsed(p), NEW t, NEW g, NEW a, IsGap(p, a, t, g)
    PROVE  /\ t \in Tracks
           /\ a.id = <<"gap", t, g>>
           /\ DOMAIN a.span = {t} /\ a.span[t] = g /\ A!Interval(a) = g
           /\ a.step = A!Owner(StepsOf(p), g)
           /\ a.previous = {}
           /\ a.phases = {A!Phase(t, g[1], g[2])}
           /\ g \in Stretches /\ A!Inside(g, FoundOf(p).extent)
<1>1. /\ t \in Tracks
      /\ a.id = <<"gap", t, g>>
      /\ DOMAIN a.span = {t} /\ a.span[t] = g
      /\ a.step = A!Owner(StepsOf(p), g)
      /\ a.previous = {}
      /\ a.phases = {A!Phase(t, g[1], g[2])}
      /\ g \in A!Gaps(FoundOf(p).extent, SpansOn(p, t))
  BY DEF IsGap
<1>2. g \in Stretches /\ A!Inside(g, FoundOf(p).extent)
  BY <1>1, SpansAre, FoundIs, GapsAre
<1>3. A!Interval(a) = g
  <2>1. {a.span[u] : u \in DOMAIN a.span} = {g}
    BY <1>1
  <2>2. A!Inside(g, g)
    <3>1. g[1] \in Int /\ g[2] \in Int
      BY <1>2, StretchesAre, InstantsAreNumbers
    <3> QED
      BY <3>1 DEF A!Inside
  <2>3. A!Hull({g}) = g
    BY <1>2, <2>2, HullOfOne
  <2> QED
    BY <2>1, <2>3 DEF A!Interval
<1> QED
  BY <1>1, <1>2, <1>3

-----------------------------------------------------------------------------
(* What the contract asks.                                                 *)

LEMMA EntriesOf ==
    ASSUME NEW a, NEW b, NEW c
    PROVE  /\ <<a, b>>[1] = a /\ <<a, b>>[2] = b
           /\ <<a, b, c>>[1] = a /\ <<a, b, c>>[2] = b /\ <<a, b, c>>[3] = c
OBVIOUS

\* A proposal has one action, and so has what is left of a track.
LEMMA IdsAreUnique ==
    ASSUME NEW p, Parsed(p), NEW a \in ActionsOf(p), NEW b \in ActionsOf(p), a.id = b.id
    PROVE  a = b
<1>1. \A c \in KnownOf(p) : c.id[1] = "proposal"
  <2> TAKE c \in KnownOf(p)
  <2> PICK x \in p.arms \cup FoundOf(p).legs, leg \in BOOLEAN : IsKnown(p, c, x, leg)
    BY KnownAre
  <2>1. c.id = <<"proposal", x.id>>
    BY KnownIs
  <2> QED
    BY <2>1
<1>2. \A c \in GapsOf(p) : c.id[1] = "gap"
  <2> TAKE c \in GapsOf(p)
  <2> PICK t, g : IsGap(p, c, t, g)
    BY TransitionsAre
  <2>1. c.id = <<"gap", t, g>>
    BY GapIs
  <2> QED
    BY <2>1
<1>3. CASE a \in KnownOf(p) /\ b \in KnownOf(p)
  <2> PICK x \in p.arms \cup FoundOf(p).legs, leg \in BOOLEAN : IsKnown(p, a, x, leg)
    BY <1>3, KnownAre
  <2> PICK y \in p.arms \cup FoundOf(p).legs, other \in BOOLEAN : IsKnown(p, b, y, other)
    BY <1>3, KnownAre
  <2>1. a.id = <<"proposal", x.id>> /\ b.id = <<"proposal", y.id>>
    BY KnownIs
  <2>2. x.id = y.id
    <3>1. <<"proposal", x.id>>[2] = <<"proposal", y.id>>[2]
      BY <2>1, Zenon
    <3> QED
      BY <3>1, EntriesOf, Zenon
  <2>3. x \in p.arms \cup p.legs /\ y \in p.arms \cup p.legs
    BY FoundIs
  <2>4. x = y
    BY <2>2, <2>3 DEF Parsed
  <2>5. leg = other
    BY <2>4 DEF IsKnown
  <2> QED
    BY <2>4, <2>5 DEF IsKnown
<1>4. CASE a \in GapsOf(p) /\ b \in GapsOf(p)
  <2> PICK t, g : IsGap(p, a, t, g)
    BY <1>4, TransitionsAre
  <2> PICK u, h : IsGap(p, b, u, h)
    BY <1>4, TransitionsAre
  <2>1. a.id = <<"gap", t, g>> /\ b.id = <<"gap", u, h>>
    BY GapIs
  <2>2. t = u /\ g = h
    <3>1. /\ <<"gap", t, g>>[2] = <<"gap", u, h>>[2]
          /\ <<"gap", t, g>>[3] = <<"gap", u, h>>[3]
      BY <2>1, Zenon
    <3> QED
      BY <3>1, EntriesOf, Zenon
  <2> QED
    BY <2>2 DEF IsGap
<1>5. "proposal" # "gap"
  OBVIOUS
<1> QED
  BY <1>1, <1>2, <1>3, <1>4, <1>5 DEF ActionsOf

LEMMA ActionsAreValid ==
    ASSUME NEW p, Parsed(p), NEW a \in ActionsOf(p)
    PROVE  A!ValidAction(a, Hierarchy(p))
<1> DEFINE extent == FoundOf(p).extent
<1>1. /\ Hierarchy(p).execution = extent
      /\ Hierarchy(p).steps = StepsOf(p)
      /\ Hierarchy(p).actions = ActionsOf(p)
  BY HierarchyIs
<1>2. \A s \in Stretches : A!Inside(s, extent) => A!Owner(StepsOf(p), s) \in DOMAIN StepsOf(p)
  BY FoundIs, OwnerIs DEF StepsOf
<1> HIDE DEF extent
<1>3. CASE a \in KnownOf(p)
  <2> PICK x \in p.arms \cup FoundOf(p).legs, leg \in BOOLEAN : IsKnown(p, a, x, leg)
    BY <1>3, KnownAre
  <2>1. /\ a.span = x.span /\ A!Interval(a) = A!Interval(x)
        /\ a.step = A!Owner(StepsOf(p), A!Interval(x))
        /\ a.previous = {<<"proposal", id>> : id \in x.previous \cap IdsOf(p)}
        /\ A!Interval(a) \in Stretches /\ A!Inside(A!Interval(a), extent)
    BY KnownIs DEF extent
  <2>2. a.step = A!Owner(StepsOf(p), A!Interval(a)) /\ a.step \in DOMAIN StepsOf(p)
    BY <1>2, <2>1
  <2>3. ASSUME NEW id \in a.previous
        PROVE  \E b \in ActionsOf(p) :
                /\ b.id = id
                /\ A!Interval(b)[2] <= A!Interval(a)[1]
                /\ DOMAIN a.span \cap DOMAIN b.span # {}
    <3>1. PICK y \in p.arms \cup FoundOf(p).legs : y.id \in x.previous /\ id = <<"proposal", y.id>>
      BY <2>1, <2>3 DEF IdsOf
    <3> PICK other \in BOOLEAN, b \in KnownOf(p) : IsKnown(p, b, y, other)
      BY KnownAre
    <3>2. b.id = <<"proposal", y.id>> /\ b.span = y.span /\ A!Interval(b) = A!Interval(y)
      BY KnownIs
    <3>3. x \in p.arms \cup p.legs /\ y \in p.arms \cup p.legs
      BY FoundIs
    <3>4. FollowsIfLinked(x, y)
      BY <3>3 DEF Parsed
    <3>5. A!Interval(y)[2] <= A!Interval(x)[1] /\ DOMAIN x.span \cap DOMAIN y.span # {}
      BY <3>1, <3>4 DEF FollowsIfLinked
    <3>6. b \in ActionsOf(p)
      BY DEF ActionsOf
    <3> QED
      BY <2>1, <3>1, <3>2, <3>5, <3>6
  <2> QED
    BY <1>1, <2>1, <2>2, <2>3 DEF A!ValidAction
<1>4. CASE a \in GapsOf(p)
  <2> PICK t, g : IsGap(p, a, t, g)
    BY <1>4, TransitionsAre
  <2>1. /\ A!Interval(a) = g /\ a.step = A!Owner(StepsOf(p), g) /\ a.previous = {}
        /\ g \in Stretches /\ A!Inside(g, extent)
    BY GapIs DEF extent
  <2>2. a.step \in DOMAIN StepsOf(p)
    BY <1>2, <2>1
  <2> QED
    BY <1>1, <2>1, <2>2 DEF A!ValidAction
<1> QED
  BY <1>3, <1>4 DEF ActionsOf

\* The phases of an action are on its tracks, and leave nothing of them out.
LEMMA ActionsArePhased ==
    ASSUME NEW p, Parsed(p), NEW a \in ActionsOf(p)
    PROVE  /\ \A phase \in a.phases : A!ValidPhase(phase, a) /\ A!Extent(phase) \in Stretches
           /\ \A t \in DOMAIN a.span :
                /\ t \in Tracks /\ a.span[t] \in Stretches
                /\ \A i \in Instants : Holds(a.span[t], i) => Phased(a.phases, t, i)
<1>1. CASE a \in KnownOf(p)
  <2> PICK x \in p.arms \cup FoundOf(p).legs, leg \in BOOLEAN : IsKnown(p, a, x, leg)
    BY <1>1, KnownAre
  <2>1. /\ a.span = x.span /\ a.phases = A!PhasesOf(x, leg)
        /\ \A t \in DOMAIN a.span : t \in Tracks /\ a.span[t] \in Stretches
    BY KnownIs
  <2>2. OnItsTracks(x)
    BY FoundIs
  <2>3. /\ \A phase \in A!PhasesOf(x, leg) : A!ValidPhase(phase, x) /\ A!Extent(phase) \in Stretches
        /\ \A t \in DOMAIN x.span, i \in Instants :
                Holds(x.span[t], i) => Phased(A!PhasesOf(x, leg), t, i)
    BY <2>2, PhasesAre
  <2>4. \A phase : A!ValidPhase(phase, x) => A!ValidPhase(phase, a)
    BY <2>1 DEF A!ValidPhase
  <2> QED
    BY <2>1, <2>3, <2>4
<1>2. CASE a \in GapsOf(p)
  <2> PICK t, g : IsGap(p, a, t, g)
    BY <1>2, TransitionsAre
  <2>1. /\ t \in Tracks /\ DOMAIN a.span = {t} /\ a.span[t] = g /\ g \in Stretches
        /\ a.phases = {A!Phase(t, g[1], g[2])}
    BY GapIs
  <2> PICK phase : phase = A!Phase(t, g[1], g[2])
    OBVIOUS
  <2>2. phase.track = t /\ phase.from = g[1] /\ phase.to = g[2]
    BY DEF A!Phase
  <2>3. g[1] < g[2] /\ g = <<g[1], g[2]>> /\ g[1] \in Int /\ g[2] \in Int
    BY <2>1, StretchesAre, InstantsAreNumbers
  <2>4. A!ValidPhase(phase, a) /\ A!Extent(phase) \in Stretches
    <3>1. A!Extent(phase) = g
      BY <2>2, <2>3 DEF A!Extent
    <3>2. A!Inside(g, g)
      BY <2>3 DEF A!Inside
    <3> QED
      BY <2>1, <2>2, <2>3, <3>1, <3>2 DEF A!ValidPhase
  <2>5. \A i \in Instants : Holds(g, i) => Phased(a.phases, t, i)
    BY <2>1, <2>2 DEF Holds, Phased
  <2> QED
    BY <2>1, <2>4, <2>5
<1> QED
  BY <1>1, <1>2 DEF ActionsOf

\* An instant of a stretch begins or ends a unit of it.
LEMMA UnitsOf ==
    ASSUME NEW s \in Stretches, NEW at \in Instants, s[1] <= at, at <= s[2]
    PROVE  \E i \in Instants : Holds(s, i) /\ i <= at /\ at <= i + 1
<1>1. /\ s[1] \in Instants /\ s[2] \in Instants /\ s[1] < s[2] /\ LastSample \in Nat
      /\ s[1] \in Int /\ s[2] \in Int /\ at \in Int
  BY StretchesAre, InstantsAreNumbers
<1>2. CASE at < s[2]
  BY <1>1, <1>2 DEF Holds
<1>3. CASE ~(at < s[2])
  <2>1. at - 1 \in Instants
    BY <1>1, <1>3 DEF Instants
  <2>2. Holds(s, at - 1) /\ at - 1 <= at /\ at <= (at - 1) + 1
    BY <1>1, <1>3 DEF Holds
  <2> QED
    BY <2>1, <2>2
<1> QED
  BY <1>2, <1>3

LEMMA KeyframesAreValid ==
    ASSUME NEW p, Parsed(p), NEW k \in A!Keyframes(ActionsOf(p), p.events)
    PROVE  \E a \in ActionsOf(p) : a.id = k.action /\ A!ValidKeyframe(k, a)
<1>1. PICK a \in ActionsOf(p), e \in p.events :
        /\ A!Shows(a, e)
        /\ k = [action |-> a.id, track |-> e.track, at |-> e.at,
                phase |-> {q \in a.phases : q.track = e.track /\ q.from <= e.at /\ e.at <= q.to}]
  BY DEF A!Keyframes
<1>2. e.track \in DOMAIN a.span /\ a.span[e.track][1] <= e.at /\ e.at <= a.span[e.track][2]
  BY <1>1 DEF A!Shows
<1>3. e.at \in Instants
  BY DEF Parsed, Instants
<1>4. PICK i \in Instants : Holds(a.span[e.track], i) /\ i <= e.at /\ e.at <= i + 1
  BY <1>2, <1>3, ActionsArePhased, UnitsOf
<1>5. Phased(a.phases, e.track, i)
  BY <1>2, <1>4, ActionsArePhased
<1>6. PICK q \in a.phases : q.track = e.track /\ q.from <= i /\ i + 1 <= q.to
  BY <1>5 DEF Phased
<1>7. q.from \in Int /\ q.to \in Int
  <2>1. A!Extent(q) \in Stretches
    BY ActionsArePhased
  <2>2. A!Extent(q)[1] = q.from /\ A!Extent(q)[2] = q.to
    BY DEF A!Extent
  <2> QED
    BY <2>1, <2>2, StretchesAre, InstantsAreNumbers
<1>8. q.from <= e.at /\ e.at <= q.to
  <2>1. i \in Int /\ e.at \in Int
    BY <1>3, <1>4, InstantsAreNumbers
  <2>2. q.from <= i /\ i <= e.at /\ e.at <= i + 1 /\ i + 1 <= q.to
    BY <1>4, <1>6
  <2> QED
    BY <1>7, <2>1, <2>2
<1>9. k.phase # {} /\ k.action = a.id /\ k.track = e.track /\ k.at = e.at
  <2>1. /\ k.action = a.id /\ k.track = e.track /\ k.at = e.at
        /\ k.phase = {c \in a.phases : c.track = e.track /\ c.from <= e.at /\ e.at <= c.to}
    BY <1>1
  <2>2. q \in k.phase
    BY <1>6, <1>8, <2>1
  <2> QED
    BY <2>1, <2>2
<1> QED
  BY <1>2, <1>9 DEF A!ValidKeyframe

-----------------------------------------------------------------------------
(* Nothing is left out.                                                    *)

LEMMA HierarchyIsValid ==
    ASSUME NEW p, Parsed(p)
    PROVE  A!ValidHierarchy(Hierarchy(p))
<1> DEFINE extent == FoundOf(p).extent
<1>1. extent \in Stretches
  BY FoundIs
<1>2. /\ Hierarchy(p).execution = extent
      /\ Hierarchy(p).steps = StepsOf(p)
      /\ Hierarchy(p).actions = ActionsOf(p)
      /\ Hierarchy(p).stances =
           {A!Clip(s, extent) : s \in {x \in p.stances : A!Overlaps(x, extent)}}
      /\ Hierarchy(p).keyframes = A!Keyframes(ActionsOf(p), p.events)
  BY HierarchyIs
<1>3. \A n \in DOMAIN StepsOf(p) :
        StepsOf(p)[n][1] < StepsOf(p)[n][2] /\ A!Inside(StepsOf(p)[n], extent)
  BY FoundIs, StepsAre DEF StepsOf
<1> HIDE DEF extent
<1>4. ASSUME NEW s \in p.stances PROVE A!Inside(A!Clip(s, extent), extent)
  <2>1. /\ s \in Stretches
        /\ s[1] \in Instants /\ s[2] \in Instants /\ extent[1] \in Instants /\ extent[2] \in Instants
    BY <1>1, StretchesAre DEF Parsed
  <2> DEFINE starts == {s[1], extent[1]}
             ends == {s[2], extent[2]}
  <2>2. starts \in SUBSET Instants /\ ends \in SUBSET Instants /\ extent[1] \in starts /\ extent[2] \in ends
    BY <2>1
  <2>3. A!Clip(s, extent) = <<A!Max(starts), A!Min(ends)>>
    BY DEF A!Clip
  <2> HIDE DEF starts, ends
  <2>4. extent[1] <= A!Max(starts) /\ A!Min(ends) <= extent[2]
    BY <2>2, ExtremeInstants
  <2> QED
    BY <2>3, <2>4 DEF A!Inside
<1>5. \A s \in Hierarchy(p).stances : A!Inside(s, extent)
  BY <1>2, <1>4
<1>6. \A a, b \in ActionsOf(p) : a.id = b.id => a = b
  BY IdsAreUnique
<1>7. \A a \in ActionsOf(p) :
        A!ValidAction(a, Hierarchy(p)) /\ \A phase \in a.phases : A!ValidPhase(phase, a)
  BY ActionsAreValid, ActionsArePhased
<1>8. \A k \in Hierarchy(p).keyframes :
        \E a \in ActionsOf(p) : a.id = k.action /\ A!ValidKeyframe(k, a)
  BY <1>2, KeyframesAreValid
<1> QED
  BY <1>2, <1>3, <1>5, <1>6, <1>7, <1>8 DEF A!ValidHierarchy

\* Proposals and transitions cover each track.
LEMMA TracksAreCovered ==
    ASSUME NEW p, Parsed(p), NEW t \in Tracks, NEW i \in Instants, Holds(FoundOf(p).extent, i)
    PROVE  \E a \in ActionsOf(p) : t \in DOMAIN a.span /\ Holds(a.span[t], i)
<1>1. FoundOf(p).extent \in Stretches /\ SpansOn(p, t) \in SUBSET Stretches
  BY FoundIs, SpansAre
<1>2. \/ \E s \in SpansOn(p, t) : Holds(s, i)
      \/ \E g \in A!Gaps(FoundOf(p).extent, SpansOn(p, t)) : Holds(g, i)
  BY <1>1, GapsFill
<1>3. CASE \E s \in SpansOn(p, t) : Holds(s, i)
  BY <1>3 DEF SpansOn, ActionsOf
<1>4. CASE \E g \in A!Gaps(FoundOf(p).extent, SpansOn(p, t)) : Holds(g, i)
  <2> PICK g \in A!Gaps(FoundOf(p).extent, SpansOn(p, t)) : Holds(g, i)
    BY <1>4
  <2> PICK a \in GapsOf(p) : IsGap(p, a, t, g)
    BY TransitionsAre
  <2>1. DOMAIN a.span = {t} /\ a.span[t] = g
    BY GapIs
  <2> QED
    BY <2>1 DEF ActionsOf
<1> QED
  BY <1>2, <1>3, <1>4

LEMMA NothingIsLeftOut ==
    ASSUME NEW p, Parsed(p)
    PROVE  A!HierarchyHasNoHoles(p.cuts, p.arms, p.legs, p.stances, p.events)
<1> DEFINE extent == FoundOf(p).extent
           h == Hierarchy(p)
<1>1. extent \in Stretches
  BY FoundIs
<1>2. /\ h.execution = extent
      /\ h.actions = ActionsOf(p)
      /\ h.keyframes = A!Keyframes(ActionsOf(p), p.events)
  BY HierarchyIs
<1>3. A!HierarchyHasNoHoles(p.cuts, p.arms, p.legs, p.stances, p.events) <=> A!NoHoles(h, p.legs, p.events)
  BY Zenon DEF A!HierarchyHasNoHoles, Hierarchy
<1>4. A!ValidHierarchy(h)
  BY HierarchyIsValid
<1>5. extent[1] \in Instants /\ extent[2] \in Instants
  BY <1>1, StretchesAre
<1>6. ASSUME NEW t \in Tracks, NEW i \in extent[1]..(extent[2] - 1)
      PROVE  \E a \in ActionsOf(p) : t \in DOMAIN a.span /\ Phased(a.phases, t, i)
  <2> HIDE DEF extent
  <2>1. i \in Instants /\ Holds(extent, i)
    BY <1>5, InstantsAreNumbers DEF Instants, Holds
  <2>2. PICK a \in ActionsOf(p) : t \in DOMAIN a.span /\ Holds(a.span[t], i)
    BY <2>1, TracksAreCovered DEF extent
  <2> QED
    BY <2>1, <2>2, ActionsArePhased
<1>7. ASSUME NEW e \in p.events, e.at \in extent[1]..extent[2]
      PROVE  \E k \in A!Keyframes(ActionsOf(p), p.events) : k.track = e.track /\ k.at = e.at
  <2>1. e.track \in Tracks /\ e.at \in Instants
    BY DEF Parsed, Instants
  <2>2. PICK i \in Instants : Holds(extent, i) /\ i <= e.at /\ e.at <= i + 1
    <3> HIDE DEF extent
    <3>1. extent[1] <= e.at /\ e.at <= extent[2]
      BY <1>5, <1>7, InstantsAreNumbers
    <3> QED
      BY <1>1, <2>1, <3>1, UnitsOf
  <2>3. PICK a \in ActionsOf(p) : e.track \in DOMAIN a.span /\ Holds(a.span[e.track], i)
    BY <2>1, <2>2, TracksAreCovered
  <2>4. a.span[e.track] \in Stretches
    BY <2>3, ActionsArePhased
  <2>5. A!Shows(a, e)
    <3>1. /\ a.span[e.track][1] \in Int /\ a.span[e.track][2] \in Int /\ i \in Int /\ e.at \in Int
      BY <2>1, <2>4, StretchesAre, InstantsAreNumbers
    <3>2. a.span[e.track][1] <= i /\ i + 1 <= a.span[e.track][2]
      BY <2>3 DEF Holds
    <3> QED
      BY <2>2, <2>3, <3>1, <3>2 DEF A!Shows
  <2> DEFINE k == [action |-> a.id, track |-> e.track, at |-> e.at,
                   phase |-> {q \in a.phases : q.track = e.track /\ q.from <= e.at /\ e.at <= q.to}]
  <2>6. k \in A!Keyframes(ActionsOf(p), p.events)
    <3> DEFINE frame(b, x) ==
                  [action |-> b.id, track |-> x.track, at |-> x.at,
                   phase |-> {q \in b.phases : q.track = x.track /\ q.from <= x.at /\ x.at <= q.to}]
    <3>1. A!Keyframes(ActionsOf(p), p.events) =
            UNION {{frame(b, x) : x \in {y \in p.events : A!Shows(b, y)}} : b \in ActionsOf(p)}
      BY Zenon DEF A!Keyframes
    <3>2. k = frame(a, e)
      BY Zenon
    <3> HIDE DEF frame, k
    <3> QED
      BY <2>5, <3>1, <3>2
  <2>7. k.track = e.track /\ k.at = e.at
    OBVIOUS
  <2> HIDE DEF k
  <2> QED
    BY <2>6, <2>7
<1>8. ASSUME NEW x \in p.legs, A!Overlaps(A!Interval(x), extent)
      PROVE  A!Inside(A!Interval(x), extent) /\ \E a \in ActionsOf(p) : a.id = <<"proposal", x.id>>
  <2>1. x \in FoundOf(p).legs
    BY <1>8, FoundIs
  <2>2. A!Inside(A!Interval(x), extent)
    BY <2>1, FoundIs
  <2> PICK leg \in BOOLEAN, a \in KnownOf(p) : IsKnown(p, a, x, leg)
    BY <2>1, KnownAre
  <2>3. a.id = <<"proposal", x.id>> /\ a \in ActionsOf(p)
    BY KnownIs DEF ActionsOf
  <2> QED
    BY <2>2, <2>3
<1> HIDE DEF extent, h
<1>9. \A t \in Tracks, i \in extent[1]..(extent[2] - 1) : \E a \in ActionsOf(p) :
        /\ t \in DOMAIN a.span
        /\ \E q \in a.phases : q.track = t /\ q.from <= i /\ i + 1 <= q.to
  BY <1>6 DEF Phased
<1>10. \A e \in p.events : e.at \in h.execution[1]..h.execution[2] =>
          \E k \in h.keyframes : k.track = e.track /\ k.at = e.at
  BY <1>2, <1>7
<1>11. \A x \in p.legs : A!Overlaps(A!Interval(x), h.execution) =>
          A!Inside(A!Interval(x), h.execution) /\ \E a \in h.actions : a.id = <<"proposal", x.id>>
  BY <1>2, <1>8
<1>12. \A t \in Tracks, i \in h.execution[1]..(h.execution[2] - 1) : \E a \in h.actions :
        /\ t \in DOMAIN a.span
        /\ \E q \in a.phases : q.track = t /\ q.from <= i /\ i + 1 <= q.to
  BY <1>2, <1>9
<1>13. A!NoHoles(h, p.legs, p.events)
  BY <1>4, <1>10, <1>11, <1>12, Zenon DEF A!NoHoles
<1> QED
  BY <1>3, <1>13

-----------------------------------------------------------------------------
(***************************************************************************)
(* The frames of a camera on the common clock.                             *)
(***************************************************************************)

LEMMA EvensAreWhole == Evens \in SUBSET Int
BY DEF Evens

Count(join) == Cardinality(join.frames)

\* The frames in the order of their times.
LEMMA StreamIs ==
    ASSUME NEW join, Filmed(join)
    PROVE  LET stream == Clock!Stream(join.frames)
           IN  /\ Count(join) \in Nat /\ Len(stream) = Count(join)
               /\ DOMAIN stream = 1..Count(join)
               /\ \A n \in 1..Count(join) : stream[n] \in join.frames /\ stream[n].at \in Evens
               /\ \A m, n \in 1..Count(join) : m < n => stream[m].at < stream[n].at
<1> PICK frames : frames = join.frames
  OBVIOUS
<1> PICK count : count = Cardinality(frames)
  OBVIOUS
<1>1. /\ IsFiniteSet(frames) /\ \A f, g \in frames : f.at = g.at => f = g
      /\ \A f \in frames : f.at \in Evens
  BY DEF Filmed, Clock!Joinable
<1>2. \A f \in frames : f.at \in Int
  BY <1>1, EvensAreWhole
<1>3. count \in Nat
  BY <1>1, FS_CardinalityType
<1>4. \A S : Clock!Cardinality(S) = Cardinality(S)
  BY DEF Clock!Cardinality, Cardinality
<1> DEFINE rank(f) == Cardinality(Clock!Earlier(frames, f))
<1>5. ASSUME NEW f \in frames PROVE rank(f) \in 0..(count - 1)
  <2>1. Clock!Earlier(frames, f) \in SUBSET frames /\ f \notin Clock!Earlier(frames, f)
    BY <1>2 DEF Clock!Earlier
  <2>2. IsFiniteSet(Clock!Earlier(frames, f)) /\ rank(f) <= count
        /\ (rank(f) = count => Clock!Earlier(frames, f) = frames)
    BY <1>1, <2>1, FS_Subset
  <2>3. rank(f) \in Nat
    BY <2>2, FS_CardinalityType
  <2>4. rank(f) # count
    BY <2>1, <2>2
  <2> HIDE DEF rank
  <2> QED
    BY <1>3, <2>2, <2>3, <2>4
<1>6. ASSUME NEW f \in frames, NEW g \in frames, f.at < g.at PROVE rank(f) < rank(g)
  <2>1. /\ Clock!Earlier(frames, f) \in SUBSET Clock!Earlier(frames, g)
        /\ f \in Clock!Earlier(frames, g) /\ f \notin Clock!Earlier(frames, f)
    BY <1>2, <1>6 DEF Clock!Earlier
  <2>2. Clock!Earlier(frames, g) \in SUBSET frames
    BY DEF Clock!Earlier
  <2>3. IsFiniteSet(Clock!Earlier(frames, g))
    BY <1>1, <2>2, FS_Subset
  <2>4. rank(f) <= rank(g) /\ (rank(f) = rank(g) => Clock!Earlier(frames, f) = Clock!Earlier(frames, g))
    BY <2>1, <2>3, FS_Subset
  <2>5. rank(f) # rank(g)
    BY <2>1, <2>4
  <2>6. rank(f) \in Int /\ rank(g) \in Int
    BY <1>5
  <2> HIDE DEF rank
  <2> QED
    BY <2>4, <2>5, <2>6
<1> HIDE DEF rank
<1>7. ASSUME NEW n \in 1..count PROVE \E f \in frames : rank(f) = n - 1
  <2> SUFFICES ASSUME \A f \in frames : rank(f) # n - 1 PROVE FALSE
    OBVIOUS
  <2> DEFINE Ranks == (0..(count - 1)) \ {n - 1}
             r == [f \in frames |-> rank(f)]
  <2>1. IsFiniteSet(0..(count - 1)) /\ Cardinality(0..(count - 1)) = count
    <3>1. count - 1 \in Int /\ 0 \in Int /\ ~(0 > count - 1)
      BY <1>3
    <3>2. IsFiniteSet(0..(count - 1))
          /\ Cardinality(0..(count - 1)) = IF 0 > count - 1 THEN 0 ELSE (count - 1) - 0 + 1
      BY <3>1, FS_Interval
    <3> QED
      BY <1>3, <3>1, <3>2
  <2>2. n - 1 \in 0..(count - 1)
    BY <1>3
  <2>3. IsFiniteSet(Ranks) /\ Cardinality(Ranks) = count - 1
    <3> PICK All : All = 0..(count - 1)
      OBVIOUS
    <3>1. IsFiniteSet(All \ {n - 1})
          /\ Cardinality(All \ {n - 1}) = IF n - 1 \in All THEN Cardinality(All) - 1 ELSE Cardinality(All)
      BY <2>1, FS_RemoveElement
    <3> QED
      BY <2>1, <2>2, <3>1
  <2>4. r \in [frames -> Ranks]
    BY <1>5
  <2>5. Cardinality(Ranks) < Cardinality(frames)
    <3> HIDE DEF Ranks
    <3> QED
      BY <1>3, <2>3
  <2>6. PICK f \in frames, g \in frames : f # g /\ r[f] = r[g]
    <3> HIDE DEF Ranks, r
    <3> QED
      BY <1>1, <2>3, <2>4, <2>5, FS_PigeonHole
  <2>7. rank(f) = rank(g) /\ f.at # g.at
    BY <1>1, <2>6
  <2>8. rank(f) \in Int /\ rank(g) \in Int /\ f.at \in Int /\ g.at \in Int
    BY <1>2, <1>5
  <2>9. f.at < g.at \/ g.at < f.at
    BY <2>7, <2>8
  <2> QED
    BY <1>6, <2>7, <2>8, <2>9
<1> PICK stream : stream = Clock!Stream(frames)
  OBVIOUS
<1>8. stream = [n \in 1..count |-> CHOOSE f \in frames : rank(f) = n - 1]
  <2>1. stream = [n \in 1..count |-> CHOOSE f \in frames : Clock!Cardinality(Clock!Earlier(frames, f)) = n - 1]
    BY <1>4 DEF Clock!Stream
  <2> QED
    BY <1>4, <2>1 DEF rank
<1>9. \A n \in 1..count : stream[n] \in frames /\ rank(stream[n]) = n - 1
  BY <1>7, <1>8
<1>10. ASSUME NEW m \in 1..count, NEW n \in 1..count, m < n PROVE stream[m].at < stream[n].at
  <2>1. /\ stream[m] \in frames /\ stream[n] \in frames
        /\ rank(stream[m]) = m - 1 /\ rank(stream[n]) = n - 1
    BY <1>9
  <2>2. stream[m].at \in Int /\ stream[n].at \in Int
    BY <1>2, <2>1
  <2>3. stream[m].at # stream[n].at
    <3> SUFFICES ASSUME stream[m].at = stream[n].at PROVE FALSE
      OBVIOUS
    <3>1. stream[m] = stream[n]
      BY <1>1, <2>1
    <3> QED
      BY <1>3, <1>10, <2>1, <3>1
  <2>4. ~(stream[n].at < stream[m].at)
    <3> SUFFICES ASSUME stream[n].at < stream[m].at PROVE FALSE
      OBVIOUS
    <3>1. rank(stream[n]) < rank(stream[m])
      BY <1>6, <2>1
    <3> QED
      BY <1>3, <1>10, <2>1, <3>1
  <2> QED
    BY <2>2, <2>3, <2>4
<1>11. DOMAIN stream = 1..count /\ Len(stream) = count
  BY <1>3, <1>8
<1> QED
  BY <1>1, <1>3, <1>9, <1>10, <1>11 DEF Count

-----------------------------------------------------------------------------
(* What an instant shows.                                                  *)

\* A frame of a camera, and when it was taken on the common clock.
FrameOf(join, i) == Clock!Stream(join.frames)[i]
TakenAt(join, i) == FrameOf(join, i).at + join.offset.shift

\* Within what synchronization says of the source.
Within(join, t) == t - join.offset.shift \in join.offset.from .. join.offset.to

\* The frame shows the landmark; from it to the next one it may be followed.
Sees(join, i) == Clock!Usable(FrameOf(join, i), "landmarks")
TrackGoesOn(join, i) ==
    /\ ~Clock!LongGap(Clock!Stream(join.frames), join.config, i)
    /\ Clock!SameTrack(FrameOf(join, i), FrameOf(join, i + 1))

Shown(join, t) == Clock!HasPoint(Clock!Camera(join, t), "landmarks")

LEMMA TakenInOrder ==
    ASSUME NEW join, Filmed(join)
    PROVE  /\ Count(join) \in Nat
           /\ join.offset.shift \in Int /\ join.offset.from \in Int /\ join.offset.to \in Int
           /\ \A i \in 1..Count(join) : FrameOf(join, i).at \in Int /\ TakenAt(join, i) \in Int
           /\ \A i, j \in 1..Count(join) :
                i < j => FrameOf(join, i).at < FrameOf(join, j).at /\ TakenAt(join, i) < TakenAt(join, j)
<1>1. /\ Count(join) \in Nat
      /\ \A n \in 1..Count(join) : FrameOf(join, n).at \in Int
      /\ \A m, n \in 1..Count(join) : m < n => FrameOf(join, m).at < FrameOf(join, n).at
  BY StreamIs, EvensAreWhole DEF FrameOf
<1>2. join.offset.shift \in Int /\ join.offset.from \in Int /\ join.offset.to \in Int
  BY EvensAreWhole DEF Filmed
<1>3. \A n \in 1..Count(join) : TakenAt(join, n) = FrameOf(join, n).at + join.offset.shift
  BY DEF TakenAt
<1>4. \A n \in 1..Count(join) : TakenAt(join, n) \in Int
  BY <1>1, <1>2, <1>3
<1>5. \A m, n \in 1..Count(join) : m < n => TakenAt(join, m) < TakenAt(join, n)
  BY <1>1, <1>2, <1>3
<1> QED
  BY <1>1, <1>2, <1>4, <1>5

\* The last frame that was taken before.
Past(join, t) == {i \in 1..Count(join) : TakenAt(join, i) <= t}

LEMMA CameraIs ==
    ASSUME NEW join, Filmed(join), NEW t \in Int
    PROVE  LET last == Clock!Max(Past(join, t))
               found == Clock!Camera(join, t).endpoints
           IN  /\ found = IF ~join.offset.retained \/ Past(join, t) = {} THEN <<>>
                          ELSE IF TakenAt(join, last) = t THEN <<FrameOf(join, last)>>
                          ELSE IF last = Count(join) THEN <<>>
                          ELSE <<FrameOf(join, last), FrameOf(join, last + 1)>>
               /\ Clock!Camera(join, t).valid <=>
                    (Len(found) = 2 =>
                        /\ ~Clock!LongGap(Clock!Stream(join.frames), join.config, last)
                        /\ Clock!SameTrack(found[1], found[2]))
                    /\ Within(join, t)
               /\ Past(join, t) # {} => last \in Past(join, t) /\ \A i \in Past(join, t) : i <= last
<1> DEFINE stream == Clock!Stream(join.frames)
           native == t - join.offset.shift
           before == {i \in DOMAIN stream : stream[i].at <= native}
           last == Clock!Max(before)
           found ==
               IF ~join.offset.retained \/ before = {} THEN <<>>
               ELSE IF stream[last].at = native THEN <<stream[last]>>
               ELSE IF last = Len(stream) THEN <<>>
               ELSE <<stream[last], stream[last + 1]>>
           valid == /\ Len(found) = 2 =>
                        /\ ~Clock!LongGap(stream, join.config, last)
                        /\ Clock!SameTrack(found[1], found[2])
                    /\ native \in join.offset.from .. join.offset.to
<1>1. Clock!Camera(join, t) = [endpoints |-> found, valid |-> valid]
  BY Zenon DEF Clock!Camera
<1>2. Clock!Camera(join, t).endpoints = found /\ Clock!Camera(join, t).valid = valid
  <2> HIDE DEF found, valid
  <2> QED
    BY <1>1
<1>3. DOMAIN stream = 1..Count(join) /\ Len(stream) = Count(join)
  BY StreamIs
<1>4. /\ Count(join) \in Nat /\ join.offset.shift \in Int
      /\ \A i \in 1..Count(join) : FrameOf(join, i).at \in Int
  BY TakenInOrder
<1>5. \A i : stream[i] = FrameOf(join, i)
  BY DEF FrameOf
<1> HIDE DEF stream
<1>6. \A i \in 1..Count(join) : /\ stream[i].at <= native <=> TakenAt(join, i) <= t
                                /\ stream[i].at = native <=> TakenAt(join, i) = t
  BY <1>4, <1>5 DEF TakenAt
<1>7. before = Past(join, t)
  <2> HIDE DEF native
  <2> QED
    BY <1>3, <1>6 DEF Past
<1> HIDE DEF before
<1>8. ASSUME before # {} PROVE last \in before /\ \A i \in before : i <= last
  <2>1. before \in SUBSET Int /\ Count(join) \in Int /\ \A i \in before : i <= Count(join)
    BY <1>4, <1>7 DEF Past
  <2>2. E!Max(before) \in before /\ \A i \in before : i <= E!Max(before)
    BY <1>8, <2>1, MaxIs
  <2>3. last = E!Max(before)
    BY Zenon DEF Clock!Max, E!Max
  <2> QED
    BY <2>2, <2>3
<1> HIDE DEF last
<1>9. before # {} => (stream[last].at = native <=> TakenAt(join, last) = t)
  BY <1>6, <1>7, <1>8 DEF Past
<1>10. found = IF ~join.offset.retained \/ Past(join, t) = {} THEN <<>>
               ELSE IF TakenAt(join, last) = t THEN <<FrameOf(join, last)>>
               ELSE IF last = Count(join) THEN <<>>
               ELSE <<FrameOf(join, last), FrameOf(join, last + 1)>>
  <2> HIDE DEF native
  <2> QED
    BY <1>3, <1>5, <1>7, <1>9
<1>11. valid <=> /\ Len(found) = 2 =>
                    /\ ~Clock!LongGap(stream, join.config, last)
                    /\ Clock!SameTrack(found[1], found[2])
                 /\ Within(join, t)
  <2> HIDE DEF found
  <2> QED
    BY DEF Within
<1> HIDE DEF found, valid, native
<1>12. last = Clock!Max(Past(join, t))
  BY <1>7 DEF last
<1>13. Past(join, t) # {} => last \in Past(join, t) /\ \A i \in Past(join, t) : i <= last
  BY <1>7, <1>8
<1> QED
  BY <1>2, <1>10, <1>11, <1>12, <1>13 DEF stream

\* At a frame, and between two of them.
LEMMA ShownAtFrame ==
    ASSUME NEW join, Filmed(join), NEW i \in 1..Count(join)
    PROVE  Shown(join, TakenAt(join, i)) <=>
              join.offset.retained /\ Within(join, TakenAt(join, i)) /\ Sees(join, i)
<1> PICK t \in Int : t = TakenAt(join, i)
  BY TakenInOrder
<1> DEFINE last == Clock!Max(Past(join, t))
           camera == Clock!Camera(join, t)
<1>1. /\ \A n \in 1..Count(join) : TakenAt(join, n) \in Int
      /\ \A m, n \in 1..Count(join) : m < n => TakenAt(join, m) < TakenAt(join, n)
  BY TakenInOrder
<1>2. i \in Past(join, t) /\ \A n \in Past(join, t) : n <= i
  BY <1>1 DEF Past
<1>3. last = i
  <2>1. last \in Past(join, t) /\ \A n \in Past(join, t) : n <= last
    BY <1>2, CameraIs
  <2>2. Past(join, t) \in SUBSET Int
    BY DEF Past
  <2> HIDE DEF last
  <2> QED
    BY <1>2, <2>1, <2>2
<1>4. camera.endpoints = IF ~join.offset.retained THEN <<>> ELSE <<FrameOf(join, i)>>
  BY <1>2, <1>3, CameraIs
<1>5. camera.valid <=>
        /\ Len(camera.endpoints) = 2 =>
            /\ ~Clock!LongGap(Clock!Stream(join.frames), join.config, i)
            /\ Clock!SameTrack(camera.endpoints[1], camera.endpoints[2])
        /\ Within(join, t)
  BY <1>3, CameraIs
<1>6. Shown(join, t) <=>
        /\ camera.endpoints # <<>> /\ camera.valid
        /\ \A n \in DOMAIN camera.endpoints : Clock!Usable(camera.endpoints[n], "landmarks")
  BY DEF Shown, Clock!HasPoint
<1> HIDE DEF camera
<1>7. CASE join.offset.retained
  <2> PICK f : f = FrameOf(join, i)
    OBVIOUS
  <2>1. camera.endpoints = <<f>> /\ Len(<<f>>) = 1 /\ DOMAIN <<f>> = {1} /\ <<f>>[1] = f /\ <<f>> # <<>>
    BY <1>4, <1>7
  <2>2. camera.valid <=> Within(join, t)
    BY <1>5, <2>1
  <2>3. (\A n \in DOMAIN camera.endpoints : Clock!Usable(camera.endpoints[n], "landmarks"))
        <=> Clock!Usable(f, "landmarks")
    BY <2>1
  <2> QED
    BY <1>6, <1>7, <2>1, <2>2, <2>3 DEF Sees
<1>8. CASE ~join.offset.retained
  BY <1>4, <1>6, <1>8
<1> QED
  BY <1>7, <1>8

LEMMA ShownBetween ==
    ASSUME NEW join, Filmed(join), NEW i \in 1..(Count(join) - 1),
           NEW t \in Int, TakenAt(join, i) < t, t < TakenAt(join, i + 1)
    PROVE  Shown(join, t) <=>
              /\ join.offset.retained /\ Within(join, t)
              /\ TrackGoesOn(join, i) /\ Sees(join, i) /\ Sees(join, i + 1)
<1> DEFINE last == Clock!Max(Past(join, t))
           camera == Clock!Camera(join, t)
<1>1. /\ Count(join) \in Nat
      /\ \A n \in 1..Count(join) : TakenAt(join, n) \in Int
      /\ \A m, n \in 1..Count(join) : m < n => TakenAt(join, m) < TakenAt(join, n)
  BY TakenInOrder
<1>2. i \in 1..Count(join) /\ i + 1 \in 1..Count(join) /\ i # Count(join)
  BY <1>1
<1>3. i \in Past(join, t)
  BY <1>1, <1>2 DEF Past
<1>4. ASSUME NEW n \in Past(join, t) PROVE n <= i
  <2>1. n \in 1..Count(join) /\ TakenAt(join, n) <= t
    BY DEF Past
  <2> SUFFICES ASSUME ~(n <= i) PROVE FALSE
    OBVIOUS
  <2>2. n = i + 1 \/ i + 1 < n
    BY <1>1, <2>1
  <2>3. TakenAt(join, i + 1) <= TakenAt(join, n)
    BY <1>1, <1>2, <2>1, <2>2
  <2> QED
    BY <1>1, <1>2, <2>1, <2>3
<1>5. last = i
  <2>1. last \in Past(join, t) /\ \A n \in Past(join, t) : n <= last
    BY <1>3, CameraIs
  <2>2. Past(join, t) \in SUBSET Int
    BY DEF Past
  <2> HIDE DEF last
  <2> QED
    BY <1>3, <1>4, <2>1, <2>2
<1>6. TakenAt(join, i) # t
  BY <1>1, <1>2
<1> PICK f : f = FrameOf(join, i)
  OBVIOUS
<1> PICK g : g = FrameOf(join, i + 1)
  OBVIOUS
<1>7. camera.endpoints = IF ~join.offset.retained THEN <<>> ELSE <<f, g>>
  BY <1>2, <1>3, <1>5, <1>6, CameraIs
<1>8. camera.valid <=>
        /\ Len(camera.endpoints) = 2 =>
            /\ ~Clock!LongGap(Clock!Stream(join.frames), join.config, i)
            /\ Clock!SameTrack(camera.endpoints[1], camera.endpoints[2])
        /\ Within(join, t)
  BY <1>5, CameraIs
<1>9. Shown(join, t) <=>
        /\ camera.endpoints # <<>> /\ camera.valid
        /\ \A n \in DOMAIN camera.endpoints : Clock!Usable(camera.endpoints[n], "landmarks")
  BY DEF Shown, Clock!HasPoint
<1> HIDE DEF camera
<1>10. CASE join.offset.retained
  <2>1. /\ camera.endpoints = <<f, g>> /\ Len(<<f, g>>) = 2 /\ DOMAIN <<f, g>> = {1, 2}
        /\ <<f, g>>[1] = f /\ <<f, g>>[2] = g /\ <<f, g>> # <<>>
    BY <1>7, <1>10
  <2>2. camera.valid <=> TrackGoesOn(join, i) /\ Within(join, t)
    BY <1>8, <2>1 DEF TrackGoesOn
  <2>3. (\A n \in DOMAIN camera.endpoints : Clock!Usable(camera.endpoints[n], "landmarks"))
        <=> Clock!Usable(f, "landmarks") /\ Clock!Usable(g, "landmarks")
    BY <2>1
  <2> QED
    BY <1>9, <1>10, <2>1, <2>2, <2>3 DEF Sees
<1>11. CASE ~join.offset.retained
  BY <1>7, <1>9, <1>11
<1> QED
  BY <1>10, <1>11

\* And nowhere else.
LEMMA ShownSomewhere ==
    ASSUME NEW join, Filmed(join), NEW t \in Int, Shown(join, t)
    PROVE  /\ Within(join, t)
           /\ \/ \E i \in 1..Count(join) : TakenAt(join, i) = t
              \/ \E i \in 1..(Count(join) - 1) : TakenAt(join, i) < t /\ t < TakenAt(join, i + 1)
<1> DEFINE last == Clock!Max(Past(join, t))
           camera == Clock!Camera(join, t)
<1>1. camera.endpoints # <<>> /\ camera.valid
  BY DEF Shown, Clock!HasPoint
<1>2. /\ camera.endpoints =
            IF ~join.offset.retained \/ Past(join, t) = {} THEN <<>>
            ELSE IF TakenAt(join, last) = t THEN <<FrameOf(join, last)>>
            ELSE IF last = Count(join) THEN <<>>
            ELSE <<FrameOf(join, last), FrameOf(join, last + 1)>>
      /\ camera.valid => Within(join, t)
      /\ Past(join, t) # {} => last \in Past(join, t) /\ \A i \in Past(join, t) : i <= last
  BY CameraIs
<1> HIDE DEF camera, last
<1>3. Past(join, t) # {} /\ (TakenAt(join, last) = t \/ last # Count(join))
  BY <1>1, <1>2
<1>4. /\ Count(join) \in Nat
      /\ \A n \in 1..Count(join) : TakenAt(join, n) \in Int
  BY TakenInOrder
<1>5. last \in 1..Count(join) /\ TakenAt(join, last) <= t
  BY <1>2, <1>3 DEF Past
<1>6. ASSUME TakenAt(join, last) # t
      PROVE  last \in 1..(Count(join) - 1) /\ TakenAt(join, last) < t /\ t < TakenAt(join, last + 1)
  <2>1. last \in 1..(Count(join) - 1) /\ last + 1 \in 1..Count(join)
    BY <1>3, <1>4, <1>5, <1>6
  <2>2. last + 1 \notin Past(join, t)
    <3> SUFFICES ASSUME last + 1 \in Past(join, t) PROVE FALSE
      OBVIOUS
    <3>1. last + 1 <= last
      BY <1>2, <1>3
    <3> QED
      BY <1>5, <3>1
  <2>3. ~(TakenAt(join, last + 1) <= t)
    BY <2>1, <2>2 DEF Past
  <2> QED
    BY <1>4, <1>5, <1>6, <2>1, <2>3
<1> QED
  BY <1>1, <1>2, <1>5, <1>6

-----------------------------------------------------------------------------
(* What a span promises.                                                   *)

LEMMA SumOfEvens ==
    ASSUME NEW a \in Evens, NEW b \in Evens
    PROVE  a + b \in Evens
<1>1. a \in Int /\ b \in Int /\ a % 2 = 0 /\ b % 2 = 0
  BY DEF Evens
<1>2. (a + b) % 2 = 0
  BY <1>1
<1> QED
  BY <1>1, <1>2 DEF Evens

LEMMA MiddleIs ==
    ASSUME NEW a \in Evens, NEW b \in Evens, a <= b
    PROVE  LET middle == (a + b) \div 2
           IN  /\ middle \in Int /\ a <= middle /\ middle <= b
               /\ a < b => a < middle /\ middle < b
<1>1. a \in Int /\ b \in Int /\ a % 2 = 0 /\ b % 2 = 0
  BY DEF Evens
<1>2. a < b => a + 2 <= b
  BY <1>1
<1> QED
  BY <1>1, <1>2

LEMMA ClippedIs ==
    ASSUME NEW a \in Evens, NEW b \in Evens, NEW offset,
           offset.shift \in Evens, offset.from \in Evens, offset.to \in Evens
    PROVE  LET span == Clock!Clipped(a, b, offset)
               first == offset.from + offset.shift
               last == offset.to + offset.shift
           IN  /\ span.start \in Evens /\ span.end \in Evens
               /\ a <= span.start /\ first <= span.start /\ (span.start = a \/ span.start = first)
               /\ span.end <= b /\ span.end <= last /\ (span.end = b \/ span.end = last)
<1> PICK first \in Evens : first = offset.from + offset.shift
  BY SumOfEvens
<1> PICK last \in Evens : last = offset.to + offset.shift
  BY SumOfEvens
<1>1. Clock!Clipped(a, b, offset) = [start |-> E!Max({a, first}), end |-> E!Min({b, last})]
  BY Zenon DEF Clock!Clipped, Clock!Max, Clock!Min, E!Max, E!Min
<1>2. a \in Int /\ b \in Int /\ first \in Int /\ last \in Int
  BY EvensAreWhole
<1>3. E!Max({a, first}) \in {a, first} /\ a <= E!Max({a, first}) /\ first <= E!Max({a, first})
  <2> PICK bound \in Int : a <= bound /\ first <= bound
    <3>1. a <= a /\ first <= first /\ (a <= first \/ first <= a)
      BY <1>2
    <3> QED
      BY <1>2, <3>1
  <2> DEFINE S == {a, first}
  <2>1. S \in SUBSET Int /\ S # {} /\ \A x \in S : x <= bound
    BY <1>2
  <2> HIDE DEF S
  <2>2. E!Max(S) \in S /\ \A x \in S : x <= E!Max(S)
    BY <2>1, MaxIs
  <2> QED
    BY <2>2 DEF S
<1>4. E!Min({b, last}) \in {b, last} /\ E!Min({b, last}) <= b /\ E!Min({b, last}) <= last
  <2> PICK bound \in Int : bound <= b /\ bound <= last
    <3>1. b <= b /\ last <= last /\ (b <= last \/ last <= b)
      BY <1>2
    <3> QED
      BY <1>2, <3>1
  <2> DEFINE S == {b, last}
  <2>1. S \in SUBSET Int /\ S # {} /\ \A x \in S : bound <= x
    BY <1>2
  <2> HIDE DEF S
  <2>2. E!Min(S) \in S /\ \A x \in S : E!Min(S) <= x
    BY <2>1, MinIs
  <2> QED
    BY <2>2 DEF S
<1> QED
  BY <1>1, <1>3, <1>4

\* The same of a span known to be a clipped one.
LEMMA SpanOfClipped ==
    ASSUME NEW a \in Evens, NEW b \in Evens, NEW offset,
           offset.shift \in Evens, offset.from \in Evens, offset.to \in Evens,
           NEW span, span = Clock!Clipped(a, b, offset)
    PROVE  /\ span.start \in Evens /\ span.end \in Evens
           /\ a <= span.start /\ offset.from + offset.shift <= span.start
           /\ (span.start = a \/ span.start = offset.from + offset.shift)
           /\ span.end <= b /\ span.end <= offset.to + offset.shift
           /\ (span.end = b \/ span.end = offset.to + offset.shift)
BY ClippedIs

\* A span is of a frame, or of two that follow each other.
FrameSpan(join, i) == Clock!Clipped(TakenAt(join, i), TakenAt(join, i), join.offset)
GapSpan(join, i) == Clock!Clipped(TakenAt(join, i), TakenAt(join, i + 1), join.offset)
Middle(span) == (span.start + span.end) \div 2

LEMMA SpansOf ==
    ASSUME NEW join, Filmed(join), NEW span
    PROVE  span \in Clock!Spans(join, "landmarks") <=>
              /\ \/ \E i \in 1..Count(join) : span = FrameSpan(join, i)
                 \/ \E i \in 1..(Count(join) - 1) : span = GapSpan(join, i)
              /\ span.start <= span.end
              /\ Shown(join, Middle(span))
<1> DEFINE stream == Clock!Stream(join.frames)
           at(i) == stream[i].at + join.offset.shift
           candidates ==
               {Clock!Clipped(at(i), at(i), join.offset) : i \in DOMAIN stream}
               \cup {Clock!Clipped(at(i), at(i + 1), join.offset) : i \in 1..(Len(stream) - 1)}
<1>1. Clock!Spans(join, "landmarks") =
        {x \in candidates : x.start <= x.end /\ Shown(join, Middle(x))}
  BY Zenon DEF Clock!Spans, Shown, Middle
<1>2. \A i : at(i) = TakenAt(join, i)
  BY DEF TakenAt, FrameOf
<1>3. DOMAIN stream = 1..Count(join) /\ Len(stream) = Count(join)
  BY StreamIs
<1> HIDE DEF stream, at
<1>4. candidates = {FrameSpan(join, i) : i \in 1..Count(join)}
                   \cup {GapSpan(join, i) : i \in 1..(Count(join) - 1)}
  BY <1>2, <1>3 DEF FrameSpan, GapSpan
<1> HIDE DEF candidates
<1> QED
  BY <1>1, <1>4

LEMMA TakenAtEvens ==
    ASSUME NEW join, Filmed(join), NEW i \in 1..Count(join)
    PROVE  TakenAt(join, i) \in Evens
BY StreamIs, SumOfEvens DEF TakenAt, FrameOf, Filmed

\* Within a span everything shows what its middle shows.
LEMMA SpanShows ==
    ASSUME NEW join, Filmed(join), NEW span \in Clock!Spans(join, "landmarks")
    PROVE  /\ span.start \in Int /\ span.end \in Int /\ span.start <= span.end
           /\ join.offset.from + join.offset.shift <= span.start
           /\ span.end <= join.offset.to + join.offset.shift
           /\ \A t \in Int : span.start <= t /\ t <= span.end => Shown(join, t)
<1>1. /\ join.offset.shift \in Evens /\ join.offset.from \in Evens /\ join.offset.to \in Evens
      /\ join.offset.shift \in Int /\ join.offset.from \in Int /\ join.offset.to \in Int
  BY EvensAreWhole DEF Filmed
<1>2. span.start <= span.end /\ Shown(join, Middle(span))
  BY SpansOf
<1>3. ASSUME NEW t \in Int, join.offset.from + join.offset.shift <= t,
             t <= join.offset.to + join.offset.shift
      PROVE  Within(join, t)
  BY <1>1, <1>3 DEF Within
<1>4. CASE \E i \in 1..Count(join) : span = FrameSpan(join, i)
  <2> PICK i \in 1..Count(join) : span = FrameSpan(join, i)
    BY <1>4
  <2> PICK a \in Evens : a = TakenAt(join, i)
    BY TakenAtEvens
  <2>1. /\ span.start \in Evens /\ span.end \in Evens /\ a <= span.start /\ span.end <= a
        /\ join.offset.from + join.offset.shift <= span.start
        /\ span.end <= join.offset.to + join.offset.shift
    BY <1>1, ClippedIs DEF FrameSpan
  <2>2. span.start = a /\ span.end = a /\ a \in Int
    BY <1>2, <2>1, EvensAreWhole
  <2>3. Middle(span) = a
    BY <2>2 DEF Middle
  <2>4. \A t \in Int : span.start <= t /\ t <= span.end => t = a
    BY <2>2
  <2> QED
    BY <1>2, <2>1, <2>2, <2>3, <2>4
<1>5. CASE \E i \in 1..(Count(join) - 1) : span = GapSpan(join, i)
  <2> PICK i \in 1..(Count(join) - 1) : span = GapSpan(join, i)
    BY <1>5
  <2>1. i \in 1..Count(join) /\ i + 1 \in 1..Count(join) /\ i < i + 1
    BY TakenInOrder
  <2> PICK a \in Evens : a = TakenAt(join, i)
    BY <2>1, TakenAtEvens
  <2> PICK b \in Evens : b = TakenAt(join, i + 1)
    BY <2>1, TakenAtEvens
  <2>2. a \in Int /\ b \in Int /\ a < b
    BY <2>1, TakenInOrder, EvensAreWhole
  <2>3. /\ span.start \in Evens /\ span.end \in Evens /\ a <= span.start /\ span.end <= b
        /\ join.offset.from + join.offset.shift <= span.start
        /\ span.end <= join.offset.to + join.offset.shift
    BY <1>1, ClippedIs DEF GapSpan
  <2>4. span.start \in Int /\ span.end \in Int
    BY <2>3, EvensAreWhole
  <2> PICK m : m = Middle(span)
    OBVIOUS
  <2>5. /\ m \in Int /\ span.start <= m /\ m <= span.end
        /\ span.start < span.end => span.start < m /\ m < span.end
    BY <1>2, <2>3, MiddleIs DEF Middle
  <2>6. ASSUME NEW t \in Int, span.start <= t, t <= span.end PROVE Shown(join, t)
    <3>1. Within(join, t)
      BY <1>1, <1>3, <2>3, <2>4, <2>6
    <3>2. CASE a < m /\ m < b
      <4>1. join.offset.retained /\ TrackGoesOn(join, i) /\ Sees(join, i) /\ Sees(join, i + 1)
        BY <1>2, <2>5, <3>2, ShownBetween
      <4>2. CASE t = a
        BY <2>1, <3>1, <4>1, <4>2, ShownAtFrame
      <4>3. CASE t = b
        BY <2>1, <3>1, <4>1, <4>3, ShownAtFrame
      <4>4. CASE t # a /\ t # b
        <5>1. a < t /\ t < b
          BY <2>2, <2>3, <2>4, <2>6, <4>4
        <5> QED
          BY <3>1, <4>1, <5>1, ShownBetween
      <4> QED
        BY <4>2, <4>3, <4>4
    <3>3. CASE ~(a < m /\ m < b)
      <4>1. span.start = span.end
        BY <1>2, <2>2, <2>3, <2>4, <2>5, <3>3
      <4>2. t = m
        BY <2>4, <2>5, <2>6, <4>1
      <4> QED
        BY <1>2, <4>2
    <3> QED
      BY <3>2, <3>3
  <2> QED
    BY <1>2, <2>3, <2>4, <2>6
<1> QED
  BY <1>4, <1>5, SpansOf

\* What is shown is in a span.
LEMMA ShownIsSpanned ==
    ASSUME NEW join, Filmed(join), NEW t \in Int, Shown(join, t)
    PROVE  \E span \in Clock!Spans(join, "landmarks") : span.start <= t /\ t <= span.end
<1>1. /\ join.offset.shift \in Evens /\ join.offset.from \in Evens /\ join.offset.to \in Evens
      /\ join.offset.shift \in Int /\ join.offset.from \in Int /\ join.offset.to \in Int
  BY EvensAreWhole DEF Filmed
<1> PICK first : first = join.offset.from + join.offset.shift
  OBVIOUS
<1> PICK last : last = join.offset.to + join.offset.shift
  OBVIOUS
<1>2. /\ \A u \in Int : Within(join, u) <=> first <= u /\ u <= last
      /\ first \in Int /\ last \in Int
  BY <1>1 DEF Within
<1>3. first <= t /\ t <= last
  BY <1>2, ShownSomewhere
<1>4. CASE \E i \in 1..Count(join) : TakenAt(join, i) = t
  <2> PICK i \in 1..Count(join) : TakenAt(join, i) = t
    BY <1>4
  <2> PICK span : span = FrameSpan(join, i)
    OBVIOUS
  <2>1. t \in Evens
    BY TakenAtEvens
  <2>2. /\ (span.start = t \/ span.start = first) /\ (span.end = t \/ span.end = last)
        /\ t <= span.start /\ span.end <= t
    BY <1>1, <2>1, ClippedIs DEF FrameSpan
  <2>3. span.start = t /\ span.end = t
    BY <1>2, <1>3, <2>2
  <2>4. Middle(span) = t
    BY <2>3 DEF Middle
  <2>5. span.start <= span.end /\ span.start <= t /\ t <= span.end
    BY <2>3
  <2> QED
    BY <2>4, <2>5, SpansOf
<1>5. CASE \E i \in 1..(Count(join) - 1) : TakenAt(join, i) < t /\ t < TakenAt(join, i + 1)
  <2> PICK i \in 1..(Count(join) - 1) : TakenAt(join, i) < t /\ t < TakenAt(join, i + 1)
    BY <1>5
  <2> PICK span : span = GapSpan(join, i)
    OBVIOUS
  <2>1. i \in 1..Count(join) /\ i + 1 \in 1..Count(join)
    BY TakenInOrder
  <2> PICK a \in Evens : a = TakenAt(join, i)
    BY <2>1, TakenAtEvens
  <2> PICK b \in Evens : b = TakenAt(join, i + 1)
    BY <2>1, TakenAtEvens
  <2>2. a \in Int /\ b \in Int /\ a < t /\ t < b
    BY EvensAreWhole
  <2>3. /\ span.start \in Evens /\ span.end \in Evens
        /\ (span.start = a \/ span.start = first) /\ (span.end = b \/ span.end = last)
        /\ a <= span.start /\ first <= span.start /\ span.end <= b /\ span.end <= last
    <3> PICK offset : offset = join.offset
      OBVIOUS
    <3>1. offset.shift \in Evens /\ offset.from \in Evens /\ offset.to \in Evens
      BY <1>1
    <3>2. span = Clock!Clipped(a, b, offset)
      BY Zenon DEF GapSpan
    <3>3. first = offset.from + offset.shift /\ last = offset.to + offset.shift
      OBVIOUS
    <3>4. /\ span.start \in Evens /\ span.end \in Evens
          /\ a <= span.start /\ offset.from + offset.shift <= span.start
          /\ (span.start = a \/ span.start = offset.from + offset.shift)
          /\ span.end <= b /\ span.end <= offset.to + offset.shift
          /\ (span.end = b \/ span.end = offset.to + offset.shift)
      BY <3>1, <3>2, SpanOfClipped
    <3> QED
      BY <3>3, <3>4
  <2>4. span.start \in Int /\ span.end \in Int
    BY <2>3, EvensAreWhole
  <2>5. span.start <= t /\ t <= span.end /\ span.start <= span.end
    BY <1>2, <1>3, <2>2, <2>3, <2>4
  <2> PICK m : m = Middle(span)
    OBVIOUS
  <2>6. /\ m \in Int /\ span.start <= m /\ m <= span.end
        /\ span.start < span.end => span.start < m /\ m < span.end
    BY <2>3, <2>5, MiddleIs DEF Middle
  <2>7. a < m /\ m < b
    BY <2>2, <2>3, <2>4, <2>5, <2>6
  <2>8. Within(join, m)
    BY <1>2, <2>3, <2>4, <2>6
  <2>9. join.offset.retained /\ TrackGoesOn(join, i) /\ Sees(join, i) /\ Sees(join, i + 1)
    BY <2>2, ShownBetween
  <2>10. Shown(join, m)
    BY <2>6, <2>7, <2>8, <2>9, ShownBetween
  <2> QED
    BY <2>5, <2>10, SpansOf
<1> QED
  BY <1>4, <1>5, ShownSomewhere

-----------------------------------------------------------------------------
(* What merging keeps.                                                     *)

SpansWithin(spans, first, last) ==
    /\ first \in Int /\ last \in Int
    /\ \A x \in spans : /\ x.start \in Int /\ x.end \in Int
                        /\ first <= x.start /\ x.start <= x.end /\ x.end <= last

Covers(span, t) == span.start <= t /\ t <= span.end

\* Where a stretch begins, the spans that belong to it, and where it ends.
StretchStarts(spans) ==
    {s.start : s \in {x \in spans : \A y \in spans : y.start < x.start => y.end < x.start}}
StretchFrom(spans, a) ==
    {x \in spans : a <= x.start /\ \A b \in StretchStarts(spans) : a < b => x.start < b}
StretchEnd(spans, a) == Clock!Max({x.end : x \in StretchFrom(spans, a)})

LEMMA MergeIs ==
    ASSUME NEW spans
    PROVE  Clock!Merge(spans) =
              {[start |-> a, end |-> StretchEnd(spans, a)] : a \in StretchStarts(spans)}
BY Zenon DEF Clock!Merge, StretchStarts, StretchFrom, StretchEnd

LEMMA StretchStartsAre ==
    ASSUME NEW spans, NEW first, NEW last, SpansWithin(spans, first, last), NEW a
    PROVE  a \in StretchStarts(spans) <=>
              \E x \in spans : /\ x.start = a /\ a \in Int
                               /\ \A y \in spans : y.start < a => y.end < a
BY DEF SpansWithin, StretchStarts

\* Every span belongs to a stretch.
LEMMA StretchOf ==
    ASSUME NEW spans, NEW first, NEW last, SpansWithin(spans, first, last), NEW x \in spans
    PROVE  \E a \in StretchStarts(spans) : x \in StretchFrom(spans, a)
<1>1. first \in Int /\ x.start \in Int /\ \A y \in spans : y.start \in Int /\ first <= y.start
  BY DEF SpansWithin
<1> DEFINE All == {y.start : y \in spans}
           Before == {a \in StretchStarts(spans) : a <= x.start}
<1>2. All \in SUBSET Int /\ All # {} /\ \A a \in All : first <= a
  BY <1>1
<1>3. E!Min(All) \in All /\ \A a \in All : E!Min(All) <= a
  <2> HIDE DEF All
  <2> QED
    BY <1>1, <1>2, MinIs
<1> PICK y \in spans : y.start = E!Min(All)
  BY <1>3
<1>4. \A z \in spans : y.start <= z.start
  BY <1>3
<1> HIDE DEF All
<1>5. y.start \in StretchStarts(spans) /\ y.start <= x.start
  <2>1. \A z \in spans : ~(z.start < y.start)
    BY <1>1, <1>4
  <2> QED
    BY <1>1, <1>4, <2>1, StretchStartsAre
<1>6. Before \in SUBSET Int /\ Before # {} /\ \A a \in Before : a <= x.start
  BY <1>5, StretchStartsAre
<1> PICK a : a = E!Max(Before)
  OBVIOUS
<1>7. a \in Before /\ \A b \in Before : b <= a
  <2> HIDE DEF Before
  <2> QED
    BY <1>1, <1>6, MaxIs
<1>8. a \in StretchStarts(spans) /\ a <= x.start /\ a \in Int
  BY <1>6, <1>7
<1>9. ASSUME NEW b \in StretchStarts(spans), a < b PROVE x.start < b
  <2>1. b \in Int
    BY StretchStartsAre
  <2>2. ~(b <= x.start)
    <3> SUFFICES ASSUME b <= x.start PROVE FALSE
      OBVIOUS
    <3>1. b <= a
      BY <1>7
    <3> QED
      BY <1>8, <1>9, <2>1, <3>1
  <2> QED
    BY <1>1, <2>1, <2>2
<1> HIDE DEF Before
<1> QED
  BY <1>8, <1>9 DEF StretchFrom

LEMMA StretchEndIs ==
    ASSUME NEW spans, NEW first, NEW last, SpansWithin(spans, first, last),
           NEW a \in StretchStarts(spans)
    PROVE  /\ StretchEnd(spans, a) \in Int
           /\ \E x \in StretchFrom(spans, a) : x.end = StretchEnd(spans, a)
           /\ \A x \in StretchFrom(spans, a) : x.end <= StretchEnd(spans, a)
<1> DEFINE Ends == {x.end : x \in StretchFrom(spans, a)}
<1>1. \A x \in StretchFrom(spans, a) : x \in spans
  BY DEF StretchFrom
<1>2. last \in Int /\ \A x \in StretchFrom(spans, a) : x.end \in Int /\ x.end <= last
  BY <1>1 DEF SpansWithin
<1>3. PICK x \in spans : x.start = a /\ a \in Int
  BY StretchStartsAre
<1>4. x \in StretchFrom(spans, a)
  BY <1>3 DEF StretchFrom
<1>5. Ends \in SUBSET Int /\ Ends # {} /\ \A e \in Ends : e <= last
  BY <1>2, <1>4
<1>6. E!Max(Ends) \in Ends /\ \A e \in Ends : e <= E!Max(Ends)
  <2> HIDE DEF Ends
  <2> QED
    BY <1>2, <1>5, MaxIs
<1>7. StretchEnd(spans, a) = E!Max(Ends)
  BY Zenon DEF StretchEnd, Clock!Max, E!Max
<1> QED
  BY <1>5, <1>6, <1>7

\* A stretch has no holes: its next span after one would have begun another.
LEMMA StretchIsCovered ==
    ASSUME NEW spans, NEW first, NEW last, SpansWithin(spans, first, last),
           NEW a \in StretchStarts(spans), NEW t \in Int, a <= t, t <= StretchEnd(spans, a)
    PROVE  \E x \in spans : Covers(x, t)
<1> SUFFICES ASSUME \A x \in spans : ~Covers(x, t) PROVE FALSE
  OBVIOUS
<1>1. \A x \in spans : x.start \in Int /\ x.end \in Int /\ first \in Int /\ last \in Int
  BY DEF SpansWithin
<1>2. \A x \in StretchFrom(spans, a) : x \in spans
  BY DEF StretchFrom
<1>3. a \in Int /\ \A y \in spans : y.start < a => y.end < a
  BY StretchStartsAre
<1>4. PICK g \in StretchFrom(spans, a) : g.end = StretchEnd(spans, a)
  BY StretchEndIs
<1>5. ASSUME NEW y \in spans PROVE t < y.start \/ y.end < t
  BY <1>1 DEF Covers
<1>6. t < g.start
  BY <1>1, <1>2, <1>4, <1>5
<1> DEFINE Later == {x.start : x \in {y \in StretchFrom(spans, a) : t < y.start}}
<1>7. Later \in SUBSET Int /\ Later # {} /\ \A z \in Later : t <= z
  BY <1>1, <1>2, <1>6
<1>8. E!Min(Later) \in Later /\ \A z \in Later : E!Min(Later) <= z
  <2> HIDE DEF Later
  <2> QED
    BY <1>7, MinIs
<1> PICK x \in StretchFrom(spans, a) : t < x.start /\ x.start = E!Min(Later)
  BY <1>8
<1>9. \A y \in StretchFrom(spans, a) : t < y.start => x.start <= y.start
  BY <1>8
<1> HIDE DEF Later
<1>10. x \in spans /\ x.start \in Int /\ a < x.start
       /\ \A b \in StretchStarts(spans) : a < b => x.start < b
  BY <1>1, <1>2, <1>3 DEF StretchFrom
<1>11. x.start \notin StretchStarts(spans)
  BY <1>10
<1>12. PICK y \in spans : y.start < x.start /\ ~(y.end < x.start)
  BY <1>10, <1>11, StretchStartsAre
<1>13. a <= y.start
  <2>1. ~(y.start < a)
    BY <1>1, <1>3, <1>10, <1>12
  <2> QED
    BY <1>1, <1>3, <2>1
<1>14. y \in StretchFrom(spans, a)
  <2>1. ASSUME NEW b \in StretchStarts(spans), a < b PROVE y.start < b
    <3>1. x.start < b /\ b \in Int
      BY <1>10, <2>1, StretchStartsAre
    <3> QED
      BY <1>1, <1>10, <1>12, <3>1
  <2> QED
    BY <1>13, <2>1 DEF StretchFrom
<1>15. ~(t < y.start)
  BY <1>1, <1>9, <1>10, <1>12, <1>14
<1> QED
  BY <1>1, <1>5, <1>10, <1>12, <1>15

LEMMA StretchesApart ==
    ASSUME NEW spans, NEW first, NEW last, SpansWithin(spans, first, last),
           NEW a \in StretchStarts(spans), NEW b \in StretchStarts(spans), a < b
    PROVE  StretchEnd(spans, a) < b
<1>1. PICK x \in StretchFrom(spans, a) : x.end = StretchEnd(spans, a)
  BY StretchEndIs
<1>2. x \in spans /\ x.start < b
  BY DEF StretchFrom
<1>3. \A y \in spans : y.start < b => y.end < b
  BY StretchStartsAre
<1> QED
  BY <1>1, <1>2, <1>3

LEMMA MergeKeeps ==
    ASSUME NEW spans, NEW first, NEW last, SpansWithin(spans, first, last)
    PROVE  /\ \A t \in Int : (\E x \in spans : Covers(x, t))
                                <=> \E m \in Clock!Merge(spans) : Covers(m, t)
           /\ \A m \in Clock!Merge(spans) : m.start \in Int /\ m.end \in Int
           /\ \A m, n \in Clock!Merge(spans) : m = n \/ m.end < n.start \/ n.end < m.start
<1>1. \A m \in Clock!Merge(spans) : \E a \in StretchStarts(spans) :
        m = [start |-> a, end |-> StretchEnd(spans, a)]
  BY MergeIs
<1>2. \A a \in StretchStarts(spans) : a \in Int /\ StretchEnd(spans, a) \in Int
  BY StretchStartsAre, StretchEndIs
<1>3. ASSUME NEW t \in Int, NEW x \in spans, Covers(x, t)
      PROVE  \E m \in Clock!Merge(spans) : Covers(m, t)
  <2> PICK a \in StretchStarts(spans) : x \in StretchFrom(spans, a)
    BY StretchOf
  <2>1. a <= x.start /\ x.end <= StretchEnd(spans, a)
    BY StretchEndIs DEF StretchFrom
  <2>2. x.start \in Int /\ x.end \in Int
    BY DEF SpansWithin
  <2> PICK e : e = StretchEnd(spans, a)
    OBVIOUS
  <2> PICK m \in Clock!Merge(spans) : m = [start |-> a, end |-> e]
    BY MergeIs
  <2>3. m.start = a /\ m.end = e
    OBVIOUS
  <2>4. a <= t /\ t <= e
    BY <1>2, <1>3, <2>1, <2>2 DEF Covers
  <2> QED
    BY <2>3, <2>4 DEF Covers
<1>4. ASSUME NEW t \in Int, NEW m \in Clock!Merge(spans), Covers(m, t)
      PROVE  \E x \in spans : Covers(x, t)
  <2> PICK a \in StretchStarts(spans) : m = [start |-> a, end |-> StretchEnd(spans, a)]
    BY <1>1
  <2>1. a <= t /\ t <= StretchEnd(spans, a)
    BY <1>4 DEF Covers
  <2> QED
    BY <2>1, StretchIsCovered
<1>5. ASSUME NEW m \in Clock!Merge(spans), NEW n \in Clock!Merge(spans)
      PROVE  m = n \/ m.end < n.start \/ n.end < m.start
  <2> PICK a \in StretchStarts(spans) : m = [start |-> a, end |-> StretchEnd(spans, a)]
    BY <1>1
  <2> PICK b \in StretchStarts(spans) : n = [start |-> b, end |-> StretchEnd(spans, b)]
    BY <1>1
  <2>1. a = b \/ a < b \/ b < a
    BY <1>2
  <2>2. CASE a = b
    BY <2>2
  <2>3. CASE a < b
    BY <2>3, StretchesApart
  <2>4. CASE b < a
    BY <2>4, StretchesApart
  <2> QED
    BY <2>1, <2>2, <2>3, <2>4
<1>6. \A m \in Clock!Merge(spans) : m.start \in Int /\ m.end \in Int
  BY <1>1, <1>2
<1> QED
  BY <1>3, <1>4, <1>5, <1>6

\* A provider's own channel never undoes the canonical mask.
LEMMA EveryChannelIsPointed ==
    ASSUME NEW camera, NEW channel, Clock!HasPoint(camera, channel)
    PROVE  Clock!HasPoint(camera, "landmarks")
BY DEF Clock!HasPoint

LEMMA GeometryIsPointed ==
    ASSUME NEW camera, ~Clock!HasPoint(camera, "landmarks")
    PROVE  ~(Clock!Geometry(camera) \in {"as seen", "between"})
<1>1. Clock!Geometry(camera) = "none" \/ Clock!Geometry(camera) = "missing"
  BY Zenon DEF Clock!Geometry
<1> QED
  BY <1>1

LEMMA CoverageOf ==
    ASSUME NEW join, Filmed(join), NEW instants \in SUBSET Int, NEW channels
    PROVE  Clock!CoversWhatItFinds(join, instants, channels)
<1> PICK spans : spans = Clock!Spans(join, "landmarks")
  OBVIOUS
<1> PICK coverage : coverage = Clock!Merge(spans)
  OBVIOUS
<1>1. coverage = Clock!Coverage(join)
  BY DEF Clock!Coverage
<1> PICK first : first = join.offset.from + join.offset.shift
  OBVIOUS
<1> PICK last : last = join.offset.to + join.offset.shift
  OBVIOUS
<1>2. SpansWithin(spans, first, last)
  <2>1. first \in Int /\ last \in Int
    BY TakenInOrder
  <2>2. \A x \in spans : /\ x.start \in Int /\ x.end \in Int
                         /\ first <= x.start /\ x.start <= x.end /\ x.end <= last
    BY SpanShows
  <2> QED
    BY <2>1, <2>2 DEF SpansWithin
<1>3. /\ \A t \in Int : (\E x \in spans : Covers(x, t)) <=> \E m \in coverage : Covers(m, t)
      /\ \A m \in coverage : m.start \in Int /\ m.end \in Int
      /\ \A m, n \in coverage : m = n \/ m.end < n.start \/ n.end < m.start
  BY <1>2, MergeKeeps
<1>4. ASSUME NEW t \in Int
      PROVE  (\E m \in coverage : t \in m.start .. m.end) <=> Shown(join, t)
  <2>1. (\E m \in coverage : t \in m.start .. m.end) <=> \E m \in coverage : Covers(m, t)
    BY <1>3 DEF Covers
  <2>2. (\E x \in spans : Covers(x, t)) <=> Shown(join, t)
    BY SpanShows, ShownIsSpanned DEF Covers
  <2> QED
    BY <1>3, <2>1, <2>2
<1> DEFINE Tells(t) ==
      LET camera == Clock!Camera(join, t)
          covered == \E span \in Clock!Coverage(join) : t \in span.start .. span.end
      IN  /\ covered <=> Clock!HasPoint(camera, "landmarks")
          /\ (\E channel \in channels : Clock!HasPoint(camera, channel)) => covered
          /\ Clock!Geometry(camera) \in {"as seen", "between"} => covered
<1>5. ASSUME NEW t \in instants PROVE Tells(t)
  <2> PICK camera : camera = Clock!Camera(join, t)
    OBVIOUS
  <2>1. t \in Int
    OBVIOUS
  <2>2. (\E m \in Clock!Coverage(join) : t \in m.start .. m.end) <=> Clock!HasPoint(camera, "landmarks")
    BY <1>1, <1>4, <2>1 DEF Shown
  <2>3. (\E channel \in channels : Clock!HasPoint(camera, channel)) => Clock!HasPoint(camera, "landmarks")
    <3> SUFFICES ASSUME NEW channel \in channels, Clock!HasPoint(camera, channel)
                 PROVE  Clock!HasPoint(camera, "landmarks")
      OBVIOUS
    <3> QED
      BY EveryChannelIsPointed
  <2>4. Clock!Geometry(camera) \in {"as seen", "between"} => Clock!HasPoint(camera, "landmarks")
    <3>1. ~Clock!HasPoint(camera, "landmarks") => ~(Clock!Geometry(camera) \in {"as seen", "between"})
      BY Zenon, GeometryIsPointed
    <3> QED
      BY <3>1
  <2> QED
    BY <2>2, <2>3, <2>4
<1> HIDE DEF Tells
<1>6. Clock!CoversWhatItFinds(join, instants, channels) <=>
        /\ \A t \in instants : Tells(t)
        /\ \A m, n \in Clock!Coverage(join) : m = n \/ m.end < n.start \/ n.end < m.start
  BY Zenon DEF Clock!CoversWhatItFinds, Tells
<1> QED
  BY <1>1, <1>3, <1>5, <1>6

-----------------------------------------------------------------------------
(***************************************************************************)
(* Artifacts and what they were made from.                                 *)
(***************************************************************************)

LEMMA InputIs ==
    ASSUME NEW a, NEW by, NEW x \in a.of, x.by = by, \A y \in a.of : y.by = by => y = x
    PROVE  Pub!Input(a, by) = x
BY DEF Pub!Input

LEMMA MadeIs ==
    ASSUME NEW by, NEW of, NEW config
    PROVE  /\ Pub!Made(by, of, config).by = by
           /\ Pub!Made(by, of, config).of = of
           /\ Pub!Made(by, of, config).config = config
BY DEF Pub!Made

\* What each kind of artifact is.
LEMMA OutsideAre ==
    ASSUME NEW a
    PROVE  /\ \A by : Pub!Given(a, by) => a.by = by /\ a.of = {}
           /\ Pub!IsWindows(a) => a.by = "windows" /\ \E s : Pub!Given(s, "source") /\ a.of = {s}
           /\ Pub!IsSync(a) => /\ a.by = "sync"
                               /\ \E s, k : /\ Pub!Given(s, "source") /\ Pub!Given(k, "sync key")
                                            /\ a.of = {s, k}
           /\ Pub!IsCalibration(a) =>
                /\ a.by = "calibration"
                /\ \E f : /\ Pub!Given(f, "file") /\ f.config \in DOMAIN Provision
                          /\ a.of = {f} /\ Pub!Input(a, "file") = f
<1>1. ASSUME NEW by, Pub!Given(a, by) PROVE a.by = by /\ a.of = {}
  BY <1>1 DEF Pub!Given, Pub!Made
<1>2. ASSUME Pub!IsWindows(a)
      PROVE  a.by = "windows" /\ \E s : Pub!Given(s, "source") /\ a.of = {s}
  <2> PICK s \in a.of : Pub!Given(s, "source") /\ a = Pub!Made("windows", {s}, a.config)
    BY <1>2 DEF Pub!IsWindows
  <2>1. a.by = "windows" /\ a.of = {s}
    BY DEF Pub!Made
  <2> QED
    BY <2>1
<1>3. ASSUME Pub!IsSync(a)
      PROVE  /\ a.by = "sync"
             /\ \E s, k : Pub!Given(s, "source") /\ Pub!Given(k, "sync key") /\ a.of = {s, k}
  <2>p. PICK s \in a.of, k \in a.of :
          /\ Pub!Given(s, "source") /\ Pub!Given(k, "sync key")
          /\ a = Pub!Made("sync", {s, k}, a.config)
    BY <1>3 DEF Pub!IsSync
  <2>1. a = Pub!Made("sync", {s, k}, a.config)
    BY <2>p
  <2>2. a.by = "sync" /\ a.of = {s, k}
    BY <2>1, MadeIs
  <2> QED
    BY <2>p, <2>2
<1>4. ASSUME Pub!IsCalibration(a)
      PROVE  /\ a.by = "calibration"
             /\ \E f : /\ Pub!Given(f, "file") /\ f.config \in DOMAIN Provision
                       /\ a.of = {f} /\ Pub!Input(a, "file") = f
  <2> PICK f \in a.of : /\ Pub!Given(f, "file") /\ f.config \in DOMAIN Provision
                        /\ a = Pub!Made("calibration", {f}, a.config)
    BY <1>4 DEF Pub!IsCalibration
  <2>1. a.by = "calibration" /\ a.of = {f}
    BY DEF Pub!Made
  <2>2. f.by = "file"
    BY DEF Pub!Given, Pub!Made
  <2>3. Pub!Input(a, "file") = f
    BY <2>1, <2>2, InputIs
  <2> QED
    BY <2>1, <2>3
<1> QED
  BY <1>1, <1>2, <1>3, <1>4

LEMMA AlignmentIs ==
    ASSUME NEW a, Pub!IsAlignment(a)
    PROVE  /\ a.by = "alignment"
           /\ \E w, s : /\ Pub!IsWindows(w) /\ Pub!IsSync(s) /\ a.of = {w, s}
                        /\ Pub!Input(a, "sync") = s
<1> PICK w \in a.of, s \in a.of :
      Pub!IsWindows(w) /\ Pub!IsSync(s) /\ a \in Pub!PublishAlignment(w, s)
  BY DEF Pub!IsAlignment
<1>1. a.by = "alignment" /\ a.of = {w, s}
  BY DEF Pub!PublishAlignment, Pub!Checked, Pub!Made
<1>2. w.by = "windows" /\ s.by = "sync"
  BY OutsideAre
<1>3. Pub!Input(a, "sync") = s
  BY <1>1, <1>2, InputIs
<1> QED
  BY <1>1, <1>3

LEMMA RawIs ==
    ASSUME NEW a, Pub!IsRaw(a)
    PROVE  /\ a.by = "raw"
           /\ \E c, x : /\ Pub!IsCalibration(c) /\ Pub!IsAlignment(x) /\ a.of = {c, x}
                        /\ Pub!SameSynchronization(c, x)
                        /\ Pub!Input(a, "alignment") = x
                        /\ Pub!CalibrationOf(a) = Pub!CalibrationId(c)
<1> PICK c \in a.of, x \in a.of :
      Pub!IsCalibration(c) /\ Pub!IsAlignment(x) /\ a \in Pub!PublishTriangulation(c, x)
  BY DEF Pub!IsRaw
<1>1. a.by = "raw" /\ a.of = {c, x} /\ Pub!SameSynchronization(c, x)
  BY DEF Pub!PublishTriangulation, Pub!Checked, Pub!Made
<1>2. c.by = "calibration" /\ x.by = "alignment"
  BY OutsideAre, AlignmentIs
<1>3. Pub!Input(a, "alignment") = x
  BY <1>1, <1>2, InputIs
<1>4. Pub!Input(a, "calibration") = c
  BY <1>1, <1>2, InputIs
<1>5. Pub!CalibrationOf(a) = Pub!CalibrationId(c)
  BY <1>1, <1>4 DEF Pub!CalibrationOf
<1> QED
  BY <1>1, <1>3, <1>5

\* Pose and motion keep the calibration of what they were fitted to.
LEMMA BodyIs ==
    ASSUME NEW a, Pub!IsMorphology(a)
    PROVE  a.by = "morphology" /\ \E raw : Pub!IsRaw(raw) /\ a.of = {raw}
<1> PICK raw \in a.of : Pub!IsRaw(raw) /\ a \in Pub!PublishMorphology(raw, a.config)
  BY DEF Pub!IsMorphology
<1>1. a.by = "morphology" /\ a.of = {raw}
  BY DEF Pub!PublishMorphology, Pub!Made
<1> QED
  BY <1>1

LEMMA BodyOfRaw ==
    ASSUME NEW raw, Pub!IsRaw(raw), NEW fit, NEW body \in Pub!PublishMorphology(raw, fit)
    PROVE  Pub!IsMorphology(body) /\ body.config = fit
<1>1. body.of = {raw} /\ body.config = fit
  BY DEF Pub!PublishMorphology, Pub!Made
<1> QED
  BY <1>1 DEF Pub!IsMorphology

LEMMA PoseIs ==
    ASSUME NEW a, Pub!IsPose(a)
    PROVE  /\ a.by = "pose"
           /\ \E raw, body : /\ Pub!IsRaw(raw) /\ Pub!IsMorphology(body) /\ body.of = {raw}
                             /\ a.of = {raw, body} /\ Pub!CalibrationOf(a) = Pub!CalibrationOf(raw)
<1> PICK raw \in a.of, body \in a.of :
      /\ Pub!IsRaw(raw) /\ body \in Pub!PublishMorphology(raw, a.config)
      /\ a \in Pub!PublishPose(raw, body, a.config)
  BY DEF Pub!IsPose
<1>1. a.by = "pose" /\ a.of = {raw, body} /\ body.by = "morphology" /\ body.of = {raw}
  BY DEF Pub!PublishPose, Pub!PublishMorphology, Pub!Made
<1>2. Pub!IsMorphology(body)
  BY BodyOfRaw
<1>3. raw.by = "raw"
  BY RawIs
<1>4. Pub!Input(a, "raw") = raw
  BY <1>1, <1>3, InputIs
<1>5. Pub!CalibrationOf(a) = Pub!CalibrationOf(raw)
  BY <1>1, <1>3, <1>4 DEF Pub!CalibrationOf
<1> QED
  BY <1>1, <1>2, <1>5

LEMMA MotionIs ==
    ASSUME NEW a, Pub!IsMotion(a)
    PROVE  /\ a.by = "motion"
           /\ \E raw, body, pose :
                /\ Pub!IsRaw(raw) /\ Pub!IsMorphology(body) /\ body.of = {raw}
                /\ Pub!IsPose(pose) /\ pose.of = {raw, body} /\ a.of = {pose, raw, body}
                /\ Pub!Input(a, "raw") = raw /\ Pub!Input(a, "morphology") = body
                /\ Pub!CalibrationOf(a) = Pub!CalibrationOf(raw)
<1>p. PICK raw \in a.of, like \in a.of :
        Pub!IsRaw(raw) /\ a \in Pub!PublishMotion(raw, like.config)
  BY DEF Pub!IsMotion
<1>f. PICK fit : fit = like.config
  OBVIOUS
<1>q. PICK pose : /\ pose \in UNION {Pub!PublishPose(raw, m, fit) : m \in Pub!PublishMorphology(raw, fit)}
                  /\ a = Pub!Made("motion", {pose} \cup pose.of, 0)
  BY <1>p, <1>f DEF Pub!PublishMotion
<1>b. PICK body : body \in Pub!PublishMorphology(raw, fit) /\ pose \in Pub!PublishPose(raw, body, fit)
  BY <1>q
<1>1. /\ a.by = "motion" /\ a.of = {pose} \cup pose.of
      /\ pose.by = "pose" /\ pose.of = {raw, body} /\ pose.config = fit
      /\ body.by = "morphology" /\ body.of = {raw}
  BY <1>q, <1>b DEF Pub!PublishPose, Pub!PublishMorphology, Pub!Made
<1>2. Pub!IsMorphology(body) /\ body.config = fit
  BY <1>p, <1>b, BodyOfRaw
<1>3. Pub!IsPose(pose)
  BY <1>p, <1>1, <1>b DEF Pub!IsPose
<1>4. raw.by = "raw"
  BY <1>p, RawIs
<1>5. a.of = {pose, raw, body} /\ raw \in a.of
  BY <1>1
<1>9. raw \in a.of /\ body \in a.of
      /\ \A y \in a.of : (y.by = "raw" => y = raw) /\ (y.by = "morphology" => y = body)
  BY <1>1, <1>4, <1>5
<1>6. Pub!Input(a, "raw") = raw
  BY <1>4, <1>9, InputIs
<1>7. Pub!Input(a, "morphology") = body
  BY <1>1, <1>9, InputIs
<1>8. Pub!CalibrationOf(a) = Pub!CalibrationOf(raw)
  BY <1>1, <1>4, <1>6 DEF Pub!CalibrationOf
<1> QED
  BY <1>p, <1>1, <1>2, <1>3, <1>5, <1>6, <1>7, <1>8

-----------------------------------------------------------------------------
(* What ground products are.                                               *)

LEMMA EarlierIs ==
    ASSUME NEW a
    PROVE  /\ a.by = "contacts" => Pub!Earlier(a) = a
           /\ a.by = "footprints" => Pub!Earlier(a) = Pub!Input(a, "contacts")
           /\ a.by = "pivots" => Pub!Earlier(a) = Pub!Input(a, "footprints")
           /\ a.by = "view" => Pub!Earlier(a) = Pub!Input(a, "pivots")
BY DEF Pub!Earlier, Pub!Copied

LEMMA GroundsAre ==
    ASSUME NEW a
    PROVE  Pub!IsGround(a) <=> \/ a.by = "contacts" \/ a.by = "footprints"
                               \/ a.by = "pivots" \/ a.by = "view"
<1>1. DOMAIN Pub!Copied = {"footprints", "pivots", "view"}
  BY DEF Pub!Copied
<1> QED
  BY <1>1 DEF Pub!IsGround

LEMMA BodyOfMotion ==
    ASSUME NEW m, Pub!IsMotion(m)
    PROVE  Pub!Input(m, "morphology") \in m.of /\ Pub!IsMorphology(Pub!Input(m, "morphology"))
BY MotionIs

LEMMA ContactsAre ==
    ASSUME NEW a, Pub!IsContacts(a)
    PROVE  /\ a.by = "contacts"
           /\ \E m, c : /\ Pub!IsMotion(m) /\ Pub!IsCalibration(c)
                        /\ m \in a.of /\ c \in a.of
                        /\ Pub!CalibrationOf(m) = Pub!CalibrationId(c)
                        /\ a.of \subseteq {m, c, Pub!Input(m, "morphology")}
                        /\ Pub!MotionOf(a) = m
<1>1. PICK m \in a.of, c \in a.of :
        /\ Pub!IsMotion(m) /\ Pub!IsCalibration(c)
        /\ \E body \in Pub!Bodies(m) : a \in Pub!PublishContacts(m, c, body)
  BY DEF Pub!IsContacts
<1>2. PICK body \in Pub!Bodies(m) : a \in Pub!PublishContacts(m, c, body)
  BY <1>1
<1>3. /\ Pub!CalibrationOf(m) = Pub!CalibrationId(c)
      /\ a.by = "contacts" /\ a.of = {m, c} \cup body
  BY <1>2 DEF Pub!PublishContacts, Pub!Checked, Pub!Made
<1>4. body \subseteq {Pub!Input(m, "morphology")}
  BY DEF Pub!Bodies
<1>5. m.by = "motion" /\ c.by = "calibration" /\ Pub!Input(m, "morphology").by = "morphology"
  BY <1>1, MotionIs, OutsideAre, BodyOfMotion, BodyIs
<1>6. a.of \subseteq {m, c, Pub!Input(m, "morphology")}
  BY <1>3, <1>4
<1>7. m \in a.of /\ \A y \in a.of : y.by = "motion" => y = m
  BY <1>5, <1>6
<1>8. Pub!Input(a, "motion") = m
  BY <1>5, <1>7, InputIs
<1>9. Pub!MotionOf(a) = m
  BY <1>3, <1>8, EarlierIs DEF Pub!MotionOf
<1> QED
  BY <1>1, <1>3, <1>6, <1>9

LEMMA FootprintsAre ==
    ASSUME NEW a, Pub!IsFootprints(a)
    PROVE  /\ a.by = "footprints"
           /\ \E m, g, c : /\ Pub!IsMotion(m) /\ Pub!IsContacts(g) /\ Pub!IsCalibration(c)
                           /\ g \in a.of /\ m \in g.of /\ c \in g.of
                           /\ a.of \subseteq {m, g, c, Pub!Input(m, "morphology")}
                           /\ Pub!Earlier(a) = g /\ Pub!MotionOf(a) = Pub!MotionOf(g)
<1>1. PICK m \in a.of, g \in a.of, c \in a.of :
        /\ Pub!IsMotion(m) /\ Pub!IsContacts(g) /\ Pub!IsCalibration(c)
        /\ \E body \in Pub!Bodies(m) : a \in Pub!PublishFootprints(m, g, c, body)
  BY DEF Pub!IsFootprints
<1>2. PICK body \in Pub!Bodies(m) : a \in Pub!PublishFootprints(m, g, c, body)
  BY <1>1
<1>3. m \in g.of /\ c \in g.of /\ a.by = "footprints" /\ a.of = {m, g, c} \cup body
  BY <1>2 DEF Pub!PublishFootprints, Pub!Checked, Pub!Made
<1>4. body \subseteq {Pub!Input(m, "morphology")}
  BY DEF Pub!Bodies
<1>5. /\ m.by = "motion" /\ g.by = "contacts" /\ c.by = "calibration"
      /\ Pub!Input(m, "morphology").by = "morphology"
  BY <1>1, MotionIs, ContactsAre, OutsideAre, BodyOfMotion, BodyIs
<1>6. a.of \subseteq {m, g, c, Pub!Input(m, "morphology")}
  BY <1>3, <1>4
<1>7. g \in a.of /\ \A y \in a.of : y.by = "contacts" => y = g
  BY <1>5, <1>6
<1>8. Pub!Input(a, "contacts") = g
  BY <1>5, <1>7, InputIs
<1>9. Pub!Earlier(a) = g /\ Pub!Earlier(g) = g
  BY <1>3, <1>5, <1>8, EarlierIs
<1>10. Pub!MotionOf(a) = Pub!MotionOf(g)
  BY <1>9 DEF Pub!MotionOf
<1> QED
  BY <1>1, <1>3, <1>6, <1>9, <1>10

LEMMA PivotsAre ==
    ASSUME NEW a, Pub!IsPivots(a)
    PROVE  /\ a.by = "pivots"
           /\ \E g : /\ Pub!IsFootprints(g) /\ a.of = {g}
                     /\ Pub!Earlier(a) = g /\ Pub!MotionOf(a) = Pub!MotionOf(g)
<1>1. PICK g \in a.of : Pub!IsFootprints(g) /\ a \in Pub!PublishPivots(g)
  BY DEF Pub!IsPivots
<1>2. a.by = "pivots" /\ a.of = {g}
  BY <1>1 DEF Pub!PublishPivots, Pub!Made
<1>3. PICK first : g.by = "footprints" /\ Pub!Earlier(g) = first /\ first.by = "contacts"
  BY <1>1, FootprintsAre, ContactsAre
<1>4. Pub!Input(a, "footprints") = g
  BY <1>2, <1>3, InputIs
<1>5. Pub!Earlier(a) = g /\ Pub!Earlier(first) = first
  BY <1>2, <1>3, <1>4, EarlierIs
<1>6. Pub!MotionOf(a) = Pub!MotionOf(g)
  BY <1>3, <1>5 DEF Pub!MotionOf
<1> QED
  BY <1>1, <1>2, <1>5, <1>6

LEMMA ViewIs ==
    ASSUME NEW a, Pub!IsView(a)
    PROVE  /\ a.by = "view"
           /\ \E m, c, p, g : /\ Pub!IsMotion(m) /\ Pub!IsCalibration(c)
                              /\ Pub!IsPivots(p) /\ p.of = {g} /\ Pub!IsFootprints(g)
                              /\ m \in g.of /\ c \in g.of /\ a.of = {m, c, p}
                              /\ Pub!Earlier(a) = p /\ Pub!MotionOf(a) = Pub!MotionOf(p)
<1>1. PICK m \in a.of, c \in a.of, p \in a.of :
        /\ Pub!IsMotion(m) /\ Pub!IsCalibration(c) /\ Pub!IsPivots(p)
        /\ a \in Pub!PublishGroundView(m, c, p)
  BY DEF Pub!IsView
<1>2. PICK g : p.by = "pivots" /\ Pub!IsFootprints(g) /\ p.of = {g} /\ Pub!Earlier(p) = g
  BY <1>1, PivotsAre
<1>3. PICK first : g.by = "footprints" /\ Pub!Earlier(g) = first /\ first.by = "contacts"
  BY <1>2, FootprintsAre, ContactsAre
<1>4. Pub!Input(p, "footprints") = g
  BY <1>2, <1>3, InputIs
<1>5. m \in g.of /\ c \in g.of /\ a.by = "view" /\ a.of = {m, c, p}
  BY <1>1, <1>4 DEF Pub!PublishGroundView, Pub!Checked, Pub!Made
<1>6. m.by = "motion" /\ c.by = "calibration"
  BY <1>1, MotionIs, OutsideAre
<1>7. p \in a.of /\ \A y \in a.of : y.by = "pivots" => y = p
  BY <1>2, <1>5, <1>6
<1>8. Pub!Input(a, "pivots") = p
  BY <1>2, <1>7, InputIs
<1>9. Pub!Earlier(a) = p /\ Pub!Earlier(first) = first
  BY <1>3, <1>5, <1>8, EarlierIs
<1>10. Pub!MotionOf(a) = Pub!MotionOf(p)
  BY <1>2, <1>3, <1>9 DEF Pub!MotionOf
<1> QED
  BY <1>1, <1>2, <1>5, <1>9, <1>10

LEMMA FloorsAre ==
    ASSUME NEW a, Pub!IsFloor(a)
    PROVE  Pub!IsGround(a) /\ Pub!IsMotion(Pub!MotionOf(a))
<1>1. ASSUME NEW x, Pub!IsContacts(x)
      PROVE  Pub!IsGround(x) /\ Pub!IsMotion(Pub!MotionOf(x))
  BY <1>1, ContactsAre, GroundsAre
<1>2. ASSUME NEW x, Pub!IsFootprints(x)
      PROVE  Pub!IsGround(x) /\ Pub!IsMotion(Pub!MotionOf(x))
  <2>1. PICK g : /\ x.by = "footprints" /\ Pub!IsContacts(g)
                 /\ Pub!MotionOf(x) = Pub!MotionOf(g)
    BY <1>2, FootprintsAre
  <2> QED
    BY <1>1, <2>1, GroundsAre
<1>3. ASSUME NEW x, Pub!IsPivots(x)
      PROVE  Pub!IsGround(x) /\ Pub!IsMotion(Pub!MotionOf(x))
  <2>1. PICK g : x.by = "pivots" /\ Pub!IsFootprints(g) /\ Pub!MotionOf(x) = Pub!MotionOf(g)
    BY <1>3, PivotsAre
  <2> QED
    BY <1>2, <2>1, GroundsAre
<1>4. ASSUME NEW x, Pub!IsView(x)
      PROVE  Pub!IsGround(x) /\ Pub!IsMotion(Pub!MotionOf(x))
  <2>1. PICK p : x.by = "view" /\ Pub!IsPivots(p) /\ Pub!MotionOf(x) = Pub!MotionOf(p)
    BY <1>4, ViewIs
  <2> QED
    BY <1>3, <2>1, GroundsAre
<1> QED
  BY <1>1, <1>2, <1>3, <1>4 DEF Pub!IsFloor

-----------------------------------------------------------------------------
(* What features, and what is found in them, are.                          *)

LEMMA FeaturesAre ==
    ASSUME NEW a, Pub!IsFeatures(a)
    PROVE  /\ a.by = "features"
           /\ \E m, g : /\ Pub!IsMotion(m) /\ Pub!IsFloor(g) /\ a.of = {m, g}
                        /\ Pub!MotionOf(g) = m
                        /\ Pub!Lineage(a) = [motion |-> m, ground |-> g]
<1>1. PICK m \in a.of, g \in a.of :
        Pub!IsMotion(m) /\ Pub!IsFloor(g) /\ a \in Pub!PublishFeatures(m, g)
  BY DEF Pub!IsFeatures
<1>2. Pub!MotionOf(g) = m /\ a.by = "features" /\ a.of = {m, g}
  BY <1>1 DEF Pub!PublishFeatures, Pub!Checked, Pub!Made
<1>3. m.by = "motion" /\ Pub!IsGround(g)
  BY <1>1, MotionIs, FloorsAre
<1>4. ~ Pub!IsGround(m) /\ g.by # "motion"
  BY <1>3, GroundsAre
<1>5. Pub!Input(a, "motion") = m
  BY <1>2, <1>3, <1>4, InputIs
<1>6. (CHOOSE x \in a.of : Pub!IsGround(x)) = g
  BY <1>2, <1>3, <1>4
<1>7. Pub!Lineage(a) = [motion |-> m, ground |-> g]
  BY <1>5, <1>6 DEF Pub!Lineage
<1> QED
  BY <1>1, <1>2, <1>7

LEMMA SegmentationIs ==
    ASSUME NEW a, Pub!IsSegmentation(a)
    PROVE  /\ a.by = "segmentation"
           /\ \E f : /\ Pub!IsFeatures(f) /\ a.of = {f} /\ Pub!FeaturesOf(a) = f
                     /\ Pub!LineageOf(a) = Pub!Lineage(f)
<1>1. PICK f \in a.of : Pub!IsFeatures(f) /\ a \in Pub!PublishSegmentation(f, a.config)
  BY DEF Pub!IsSegmentation
<1>2. a.by = "segmentation" /\ a.of = {f}
  BY <1>1 DEF Pub!PublishSegmentation, Pub!Made
<1>3. f.by = "features"
  BY <1>1, FeaturesAre
<1>4. Pub!FeaturesOf(a) = f
  BY <1>2, <1>3, InputIs DEF Pub!FeaturesOf
<1>5. Pub!LineageOf(a) = Pub!Lineage(f)
  BY <1>2, <1>4 DEF Pub!LineageOf
<1> QED
  BY <1>1, <1>2, <1>4, <1>5

LEMMA ArmsAre ==
    ASSUME NEW a, Pub!IsArms(a)
    PROVE  /\ a.by = "arms"
           /\ \E f, s, m : /\ Pub!IsFeatures(f) /\ Pub!IsSegmentation(s)
                           /\ m \in f.of /\ Pub!IsMotion(m) /\ Pub!FeaturesOf(s) = f
                           /\ a.of = {f, s, m}
                           /\ Pub!FeaturesOf(a) = f /\ Pub!SegmentationOf(a) = s
                           /\ Pub!LineageOf(a) = Pub!Lineage(f)
<1>1. PICK f \in a.of, s \in a.of, m \in a.of :
        /\ Pub!IsFeatures(f) /\ Pub!IsSegmentation(s) /\ Pub!IsMotion(m)
        /\ a \in Pub!PublishArms(f, s, m)
  BY DEF Pub!IsArms
<1>2. /\ m = Pub!Lineage(f).motion /\ Pub!FeaturesOf(s) = f
      /\ a.by = "arms" /\ a.of = {f, s, m}
  BY <1>1 DEF Pub!PublishArms, Pub!Checked, Pub!Made
<1>3. f.by = "features" /\ s.by = "segmentation" /\ m.by = "motion"
  BY <1>1, FeaturesAre, SegmentationIs, MotionIs
<1>4. PICK n, g : f.of = {n, g} /\ Pub!Lineage(f) = [motion |-> n, ground |-> g]
  BY <1>1, FeaturesAre
<1>5. m = n
  BY <1>2, <1>4
<1>6. Pub!FeaturesOf(a) = f
  BY <1>2, <1>3, InputIs DEF Pub!FeaturesOf
<1>7. Pub!SegmentationOf(a) = s
  BY <1>2, <1>3, InputIs DEF Pub!SegmentationOf
<1>8. Pub!Input(a, "motion") = m
  BY <1>2, <1>3, InputIs
<1>9. Pub!LineageOf(a) = [motion |-> m, ground |-> Pub!Lineage(f).ground]
  BY <1>2, <1>6, <1>8 DEF Pub!LineageOf
<1>10. Pub!LineageOf(a) = Pub!Lineage(f)
  BY <1>4, <1>5, <1>9
<1> QED
  BY <1>1, <1>2, <1>4, <1>5, <1>6, <1>7, <1>10

LEMMA LegsAre ==
    ASSUME NEW a, Pub!IsLegs(a)
    PROVE  /\ a.by = "legs"
           /\ \E f, g, s : /\ Pub!IsFeatures(f) /\ Pub!IsSegmentation(s)
                           /\ g \in f.of /\ Pub!IsFloor(g) /\ Pub!FeaturesOf(s) = f
                           /\ a.of = {f, g, s}
                           /\ Pub!FeaturesOf(a) = f /\ Pub!SegmentationOf(a) = s
                           /\ Pub!LineageOf(a) = Pub!Lineage(f)
<1>1. PICK f \in a.of, g \in a.of, s \in a.of :
        /\ Pub!IsFeatures(f) /\ Pub!IsFloor(g) /\ Pub!IsSegmentation(s)
        /\ a \in Pub!PublishLegs(f, g, s)
  BY DEF Pub!IsLegs
<1>2. /\ g = Pub!Lineage(f).ground /\ Pub!FeaturesOf(s) = f
      /\ a.by = "legs" /\ a.of = {f, g, s}
  BY <1>1 DEF Pub!PublishLegs, Pub!Checked, Pub!Made
<1>3. f.by = "features" /\ s.by = "segmentation" /\ Pub!IsGround(g)
  BY <1>1, FeaturesAre, SegmentationIs, FloorsAre
<1>4. PICK m, h : f.of = {m, h} /\ Pub!Lineage(f) = [motion |-> m, ground |-> h]
  BY <1>1, FeaturesAre
<1>5. g = h
  BY <1>2, <1>4
<1>6. ~ Pub!IsGround(f) /\ ~ Pub!IsGround(s) /\ g.by # "features" /\ g.by # "segmentation"
  BY <1>3, GroundsAre
<1>7. Pub!FeaturesOf(a) = f
  BY <1>2, <1>3, <1>6, InputIs DEF Pub!FeaturesOf
<1>8. Pub!SegmentationOf(a) = s
  BY <1>2, <1>3, <1>6, InputIs DEF Pub!SegmentationOf
<1>9. (CHOOSE x \in a.of : Pub!IsGround(x)) = g
  BY <1>2, <1>3, <1>6
<1>10. Pub!LineageOf(a) = [motion |-> Pub!Lineage(f).motion, ground |-> g]
  BY <1>2, <1>7, <1>9 DEF Pub!LineageOf
<1>11. Pub!LineageOf(a) = Pub!Lineage(f)
  BY <1>4, <1>5, <1>10
<1> QED
  BY <1>1, <1>2, <1>4, <1>5, <1>7, <1>8, <1>11

LEMMA SemanticsAre ==
    ASSUME NEW a, Pub!IsSemantics(a)
    PROVE  /\ a.by = "semantics"
           /\ \E f, s, x, y :
                /\ Pub!IsFeatures(f) /\ Pub!IsSegmentation(s) /\ Pub!IsArms(x) /\ Pub!IsLegs(y)
                /\ a.of = {f, s, x, y}
                /\ \A z \in {s, x, y} :
                    Pub!LineageOf(z) = Pub!Lineage(f) /\ Pub!FeaturesOf(z) = f
                /\ Pub!SegmentationOf(x) = s /\ Pub!SegmentationOf(y) = s
                /\ Pub!FeaturesOf(a) = f /\ Pub!SegmentationOf(a) = s
                /\ Pub!LineageOf(a) = Pub!Lineage(f)
<1>1. PICK f \in a.of, s \in a.of, x \in a.of, y \in a.of :
        /\ Pub!IsFeatures(f) /\ Pub!IsSegmentation(s) /\ Pub!IsArms(x) /\ Pub!IsLegs(y)
        /\ a \in Pub!PublishSemantics(f, s, x, y, a.config)
  BY DEF Pub!IsSemantics
<1>2. Pub!Exact(f, s, x, y) /\ a.by = "semantics" /\ a.of = {f, s, x, y}
  BY <1>1 DEF Pub!PublishSemantics, Pub!Checked, Pub!Made
<1>3. /\ \A z \in {s, x, y} : Pub!LineageOf(z) = Pub!Lineage(f) /\ Pub!FeaturesOf(z) = f
      /\ Pub!SegmentationOf(x) = s /\ Pub!SegmentationOf(y) = s
  BY <1>2 DEF Pub!Exact
<1>4. f.by = "features" /\ s.by = "segmentation" /\ x.by = "arms" /\ y.by = "legs"
  BY <1>1, FeaturesAre, SegmentationIs, ArmsAre, LegsAre
<1>5. Pub!FeaturesOf(a) = f
  BY <1>2, <1>4, InputIs DEF Pub!FeaturesOf
<1>6. Pub!SegmentationOf(a) = s
  BY <1>2, <1>4, InputIs DEF Pub!SegmentationOf
<1>7. Pub!LineageOf(a) = Pub!Lineage(f)
  BY <1>2, <1>5 DEF Pub!LineageOf
<1> QED
  BY <1>1, <1>2, <1>3, <1>5, <1>6, <1>7

-----------------------------------------------------------------------------
(* Everything that an artifact was made from is found within sixteen steps. *)

\* How many steps there may be above an artifact.
RankOf(by) ==
    CASE by = "windows" -> 1
      [] by = "sync" -> 1
      [] by = "calibration" -> 1
      [] by = "alignment" -> 2
      [] by = "raw" -> 3
      [] by = "morphology" -> 4
      [] by = "pose" -> 5
      [] by = "motion" -> 6
      [] by = "contacts" -> 7
      [] by = "footprints" -> 8
      [] by = "pivots" -> 9
      [] by = "view" -> 10
      [] by = "features" -> 11
      [] by = "segmentation" -> 12
      [] by = "arms" -> 13
      [] by = "legs" -> 13
      [] by = "semantics" -> 14
      [] OTHER -> 0

Outside(a) ==
    \/ Pub!Given(a, "source") \/ Pub!Given(a, "sync key") \/ Pub!Given(a, "file")
    \/ Pub!IsWindows(a) \/ Pub!IsSync(a) \/ Pub!IsCalibration(a)

Known(a) == Outside(a) \/ Pub!Published(a)

LEMMA RanksAre ==
    /\ RankOf("source") = 0 /\ RankOf("sync key") = 0 /\ RankOf("file") = 0
    /\ RankOf("windows") = 1 /\ RankOf("sync") = 1 /\ RankOf("calibration") = 1
    /\ RankOf("alignment") = 2 /\ RankOf("raw") = 3 /\ RankOf("morphology") = 4
    /\ RankOf("pose") = 5 /\ RankOf("motion") = 6 /\ RankOf("contacts") = 7
    /\ RankOf("footprints") = 8 /\ RankOf("pivots") = 9 /\ RankOf("view") = 10
    /\ RankOf("features") = 11 /\ RankOf("segmentation") = 12 /\ RankOf("arms") = 13
    /\ RankOf("legs") = 13 /\ RankOf("semantics") = 14
<1>1. /\ RankOf("source") = 0 /\ RankOf("sync key") = 0 /\ RankOf("file") = 0
      /\ RankOf("windows") = 1 /\ RankOf("sync") = 1 /\ RankOf("calibration") = 1
  BY DEF RankOf
<1>2. /\ RankOf("alignment") = 2 /\ RankOf("raw") = 3 /\ RankOf("morphology") = 4
      /\ RankOf("pose") = 5 /\ RankOf("motion") = 6 /\ RankOf("contacts") = 7
  BY DEF RankOf
<1>3. /\ RankOf("footprints") = 8 /\ RankOf("pivots") = 9 /\ RankOf("view") = 10
      /\ RankOf("features") = 11 /\ RankOf("segmentation") = 12 /\ RankOf("arms") = 13
      /\ RankOf("legs") = 13 /\ RankOf("semantics") = 14
  BY DEF RankOf
<1> QED
  BY <1>1, <1>2, <1>3

\* An artifact is made of what is known and lower.
MadeOfLower(a) ==
    /\ RankOf(a.by) \in 0..14
    /\ \A x \in a.of : Known(x) /\ RankOf(x.by) < RankOf(a.by)

LEMMA SetRests ==
    ASSUME NEW a, NEW n \in 0..14, RankOf(a.by) = n,
           \A x \in a.of : Known(x) /\ RankOf(x.by) < n
    PROVE  MadeOfLower(a)
BY DEF MadeOfLower

LEMMA GivenIs ==
    ASSUME NEW a
    PROVE  /\ Pub!Given(a, "source") => Known(a) /\ RankOf(a.by) = 0 /\ a.of = {}
           /\ Pub!Given(a, "sync key") => Known(a) /\ RankOf(a.by) = 0 /\ a.of = {}
           /\ Pub!Given(a, "file") => Known(a) /\ RankOf(a.by) = 0 /\ a.of = {}
<1>1. /\ Pub!Given(a, "source") => a.by = "source" /\ a.of = {}
      /\ Pub!Given(a, "sync key") => a.by = "sync key" /\ a.of = {}
      /\ Pub!Given(a, "file") => a.by = "file" /\ a.of = {}
  BY OutsideAre
<1> QED
  BY <1>1, RanksAre DEF Known, Outside

LEMMA OutsideRests ==
    ASSUME NEW a, Outside(a)
    PROVE  MadeOfLower(a)
<1>1. CASE Pub!Given(a, "source") \/ Pub!Given(a, "sync key") \/ Pub!Given(a, "file")
  <2>1. a.of = {} /\ RankOf(a.by) = 0
    BY <1>1, GivenIs
  <2> QED
    BY <2>1, SetRests
<1>2. CASE Pub!IsWindows(a)
  <2>1. PICK s : a.by = "windows" /\ Pub!Given(s, "source") /\ a.of = {s}
    BY <1>2, OutsideAre
  <2>2. RankOf(a.by) = 1 /\ Known(s) /\ RankOf(s.by) = 0
    BY <2>1, RanksAre, GivenIs
  <2> QED
    BY <2>1, <2>2, SetRests
<1>3. CASE Pub!IsSync(a)
  <2>1. PICK s, k : /\ a.by = "sync" /\ a.of = {s, k}
                    /\ Pub!Given(s, "source") /\ Pub!Given(k, "sync key")
    BY <1>3, OutsideAre
  <2>2. RankOf(a.by) = 1 /\ Known(s) /\ RankOf(s.by) = 0 /\ Known(k) /\ RankOf(k.by) = 0
    BY <2>1, RanksAre, GivenIs
  <2>3. \A x \in a.of : Known(x) /\ RankOf(x.by) = 0
    BY <2>1, <2>2
  <2> QED
    BY <2>2, <2>3, SetRests
<1>4. CASE Pub!IsCalibration(a)
  <2>1. PICK f : a.by = "calibration" /\ Pub!Given(f, "file") /\ a.of = {f}
    BY <1>4, OutsideAre
  <2>2. RankOf(a.by) = 1 /\ Known(f) /\ RankOf(f.by) = 0
    BY <2>1, RanksAre, GivenIs
  <2> QED
    BY <2>1, <2>2, SetRests
<1> QED
  BY <1>1, <1>2, <1>3, <1>4 DEF Outside

LEMMA HeightsAre ==
    ASSUME NEW a
    PROVE  /\ Pub!IsWindows(a) => Known(a) /\ RankOf(a.by) = 1
           /\ Pub!IsSync(a) => Known(a) /\ RankOf(a.by) = 1
           /\ Pub!IsCalibration(a) => Known(a) /\ RankOf(a.by) = 1
           /\ Pub!IsAlignment(a) => Known(a) /\ RankOf(a.by) = 2
           /\ Pub!IsRaw(a) => Known(a) /\ RankOf(a.by) = 3
           /\ Pub!IsMorphology(a) => Known(a) /\ RankOf(a.by) = 4
           /\ Pub!IsPose(a) => Known(a) /\ RankOf(a.by) = 5
           /\ Pub!IsMotion(a) => Known(a) /\ RankOf(a.by) = 6
           /\ Pub!IsContacts(a) => Known(a) /\ RankOf(a.by) = 7
           /\ Pub!IsFootprints(a) => Known(a) /\ RankOf(a.by) = 8
           /\ Pub!IsPivots(a) => Known(a) /\ RankOf(a.by) = 9
           /\ Pub!IsView(a) => Known(a) /\ RankOf(a.by) = 10
           /\ Pub!IsFeatures(a) => Known(a) /\ RankOf(a.by) = 11
           /\ Pub!IsSegmentation(a) => Known(a) /\ RankOf(a.by) = 12
           /\ Pub!IsArms(a) => Known(a) /\ RankOf(a.by) = 13
           /\ Pub!IsLegs(a) => Known(a) /\ RankOf(a.by) = 13
           /\ Pub!IsSemantics(a) => Known(a) /\ RankOf(a.by) = 14
<1>1. /\ Pub!IsWindows(a) => Known(a) /\ RankOf(a.by) = 1
      /\ Pub!IsSync(a) => Known(a) /\ RankOf(a.by) = 1
      /\ Pub!IsCalibration(a) => Known(a) /\ RankOf(a.by) = 1
  <2>1. /\ Pub!IsWindows(a) => a.by = "windows"
        /\ Pub!IsSync(a) => a.by = "sync"
        /\ Pub!IsCalibration(a) => a.by = "calibration"
    BY OutsideAre
  <2> QED
    BY <2>1, RanksAre DEF Known, Outside
<1>2. /\ Pub!IsAlignment(a) => Known(a) /\ RankOf(a.by) = 2
      /\ Pub!IsRaw(a) => Known(a) /\ RankOf(a.by) = 3
      /\ Pub!IsMorphology(a) => Known(a) /\ RankOf(a.by) = 4
      /\ Pub!IsPose(a) => Known(a) /\ RankOf(a.by) = 5
      /\ Pub!IsMotion(a) => Known(a) /\ RankOf(a.by) = 6
  <2>1. /\ Pub!IsAlignment(a) => a.by = "alignment"
        /\ Pub!IsRaw(a) => a.by = "raw"
        /\ Pub!IsMorphology(a) => a.by = "morphology"
        /\ Pub!IsPose(a) => a.by = "pose"
        /\ Pub!IsMotion(a) => a.by = "motion"
    BY AlignmentIs, RawIs, BodyIs, PoseIs, MotionIs
  <2> QED
    BY <2>1, RanksAre DEF Known, Pub!Published
<1>3. /\ Pub!IsContacts(a) => Known(a) /\ RankOf(a.by) = 7
      /\ Pub!IsFootprints(a) => Known(a) /\ RankOf(a.by) = 8
      /\ Pub!IsPivots(a) => Known(a) /\ RankOf(a.by) = 9
      /\ Pub!IsView(a) => Known(a) /\ RankOf(a.by) = 10
  <2>1. /\ Pub!IsContacts(a) => a.by = "contacts"
        /\ Pub!IsFootprints(a) => a.by = "footprints"
        /\ Pub!IsPivots(a) => a.by = "pivots"
        /\ Pub!IsView(a) => a.by = "view"
    BY ContactsAre, FootprintsAre, PivotsAre, ViewIs
  <2> QED
    BY <2>1, RanksAre DEF Known, Pub!Published, Pub!IsFloor
<1>4. /\ Pub!IsFeatures(a) => Known(a) /\ RankOf(a.by) = 11
      /\ Pub!IsSegmentation(a) => Known(a) /\ RankOf(a.by) = 12
      /\ Pub!IsArms(a) => Known(a) /\ RankOf(a.by) = 13
      /\ Pub!IsLegs(a) => Known(a) /\ RankOf(a.by) = 13
      /\ Pub!IsSemantics(a) => Known(a) /\ RankOf(a.by) = 14
  <2>1. /\ Pub!IsFeatures(a) => a.by = "features"
        /\ Pub!IsSegmentation(a) => a.by = "segmentation"
        /\ Pub!IsArms(a) => a.by = "arms"
        /\ Pub!IsLegs(a) => a.by = "legs"
        /\ Pub!IsSemantics(a) => a.by = "semantics"
    BY FeaturesAre, SegmentationIs, ArmsAre, LegsAre, SemanticsAre
  <2> QED
    BY <2>1, RanksAre DEF Known, Pub!Published
<1> QED
  BY <1>1, <1>2, <1>3, <1>4

LEMMA FloorIsBelow ==
    ASSUME NEW a, Pub!IsFloor(a)
    PROVE  Known(a) /\ RankOf(a.by) \in 0..10
BY HeightsAre DEF Pub!IsFloor

LEMMA PublishedRests ==
    ASSUME NEW a, Pub!Published(a)
    PROVE  MadeOfLower(a)
<1>1. CASE Pub!IsAlignment(a)
  <2>1. PICK w, s : Pub!IsWindows(w) /\ Pub!IsSync(s) /\ a.of = {w, s}
    BY <1>1, AlignmentIs
  <2> QED
    BY <1>1, <2>1, HeightsAre, SetRests
<1>2. CASE Pub!IsRaw(a)
  <2>1. PICK c, x : Pub!IsCalibration(c) /\ Pub!IsAlignment(x) /\ a.of = {c, x}
    BY <1>2, RawIs
  <2> QED
    BY <1>2, <2>1, HeightsAre, SetRests
<1>3. CASE Pub!IsMorphology(a)
  <2>1. PICK raw : Pub!IsRaw(raw) /\ a.of = {raw}
    BY <1>3, BodyIs
  <2> QED
    BY <1>3, <2>1, HeightsAre, SetRests
<1>4. CASE Pub!IsPose(a)
  <2>1. PICK raw, body : Pub!IsRaw(raw) /\ Pub!IsMorphology(body) /\ a.of = {raw, body}
    BY <1>4, PoseIs
  <2> QED
    BY <1>4, <2>1, HeightsAre, SetRests
<1>5. CASE Pub!IsMotion(a)
  <2>1. PICK raw, body, pose :
          /\ Pub!IsRaw(raw) /\ Pub!IsMorphology(body) /\ Pub!IsPose(pose)
          /\ a.of = {pose, raw, body}
    BY <1>5, MotionIs
  <2> QED
    BY <1>5, <2>1, HeightsAre, SetRests
<1>6. CASE Pub!IsContacts(a)
  <2>1. PICK m, c : /\ Pub!IsMotion(m) /\ Pub!IsCalibration(c)
                    /\ a.of \subseteq {m, c, Pub!Input(m, "morphology")}
    BY <1>6, ContactsAre
  <2>2. Pub!IsMorphology(Pub!Input(m, "morphology"))
    BY <2>1, BodyOfMotion
  <2> QED
    BY <1>6, <2>1, <2>2, HeightsAre, SetRests
<1>7. CASE Pub!IsFootprints(a)
  <2>1. PICK m, g, c : /\ Pub!IsMotion(m) /\ Pub!IsContacts(g) /\ Pub!IsCalibration(c)
                       /\ a.of \subseteq {m, g, c, Pub!Input(m, "morphology")}
    BY <1>7, FootprintsAre
  <2>2. Pub!IsMorphology(Pub!Input(m, "morphology"))
    BY <2>1, BodyOfMotion
  <2> QED
    BY <1>7, <2>1, <2>2, HeightsAre, SetRests
<1>8. CASE Pub!IsPivots(a)
  <2>1. PICK g : Pub!IsFootprints(g) /\ a.of = {g}
    BY <1>8, PivotsAre
  <2> QED
    BY <1>8, <2>1, HeightsAre, SetRests
<1>9. CASE Pub!IsView(a)
  <2>1. PICK m, c, p : /\ Pub!IsMotion(m) /\ Pub!IsCalibration(c) /\ Pub!IsPivots(p)
                       /\ a.of = {m, c, p}
    BY <1>9, ViewIs
  <2> QED
    BY <1>9, <2>1, HeightsAre, SetRests
<1>10. CASE Pub!IsFeatures(a)
  <2>1. PICK m, g : Pub!IsMotion(m) /\ Pub!IsFloor(g) /\ a.of = {m, g}
    BY <1>10, FeaturesAre
  <2> QED
    BY <1>10, <2>1, HeightsAre, FloorIsBelow, SetRests
<1>11. CASE Pub!IsSegmentation(a)
  <2>1. PICK f : Pub!IsFeatures(f) /\ a.of = {f}
    BY <1>11, SegmentationIs
  <2> QED
    BY <1>11, <2>1, HeightsAre, SetRests
<1>12. CASE Pub!IsArms(a)
  <2>1. PICK f, s, m : /\ Pub!IsFeatures(f) /\ Pub!IsSegmentation(s) /\ Pub!IsMotion(m)
                       /\ a.of = {f, s, m}
    BY <1>12, ArmsAre
  <2> QED
    BY <1>12, <2>1, HeightsAre, SetRests
<1>13. CASE Pub!IsLegs(a)
  <2>1. PICK f, g, s : /\ Pub!IsFeatures(f) /\ Pub!IsSegmentation(s) /\ Pub!IsFloor(g)
                       /\ a.of = {f, g, s}
    BY <1>13, LegsAre
  <2>2. Known(g) /\ RankOf(g.by) \in 0..10
    BY <2>1, FloorIsBelow
  <2>3. /\ RankOf(a.by) = 13
        /\ Known(f) /\ RankOf(f.by) = 11 /\ Known(s) /\ RankOf(s.by) = 12
    BY <1>13, <2>1, HeightsAre
  <2> QED
    BY <2>1, <2>2, <2>3, SetRests
<1>14. CASE Pub!IsSemantics(a)
  <2>1. PICK f, s, x, y : /\ Pub!IsFeatures(f) /\ Pub!IsSegmentation(s)
                          /\ Pub!IsArms(x) /\ Pub!IsLegs(y) /\ a.of = {f, s, x, y}
    BY <1>14, SemanticsAre
  <2> QED
    BY <1>14, <2>1, HeightsAre, SetRests
<1>15. Pub!IsFloor(a) => \/ Pub!IsContacts(a) \/ Pub!IsFootprints(a)
                         \/ Pub!IsPivots(a) \/ Pub!IsView(a)
  BY DEF Pub!IsFloor
<1> QED
  BY <1>1, <1>2, <1>3, <1>4, <1>5, <1>6, <1>7, <1>8, <1>9, <1>10, <1>11, <1>12, <1>13, <1>14,
     <1>15 DEF Pub!Published

LEMMA KnownRests ==
    ASSUME NEW a, Known(a)
    PROVE  MadeOfLower(a)
BY OutsideRests, PublishedRests DEF Known

-----------------------------------------------------------------------------
(* The bundle of an artifact and all it was made from.                     *)

Closed(S) == \A x \in S : x.of \subseteq S

\* Either what an artifact was made of is there, or it is at most so high.
Settled(S, n) == \A x \in S : Known(x) /\ (x.of \subseteq S \/ RankOf(x.by) <= n)

LEMMA BackSettles ==
    ASSUME NEW S, NEW n \in Int, Settled(S, n)
    PROVE  Settled(Pub!Back(S), n - 1)
<1>1. \A x \in Pub!Back(S) : x \in S \/ \E y \in S : x \in y.of
  BY DEF Pub!Back
<1>2. S \subseteq Pub!Back(S) /\ \A y \in S : y.of \subseteq Pub!Back(S)
  BY SMTT(30) DEF Pub!Back
<1>3. ASSUME NEW x \in S
      PROVE  Known(x) /\ x.of \subseteq Pub!Back(S)
  BY <1>2 DEF Settled
<1>4. ASSUME NEW y \in S, NEW x \in y.of, x \notin S
      PROVE  Known(x) /\ RankOf(x.by) <= n - 1
  <2>1. Known(y) /\ RankOf(y.by) <= n
    BY <1>4 DEF Settled
  <2>2. RankOf(y.by) \in 0..14 /\ Known(x) /\ RankOf(x.by) < RankOf(y.by)
    BY <1>4, <2>1, KnownRests DEF MadeOfLower
  <2>3. RankOf(x.by) \in 0..14
    BY <2>2, KnownRests DEF MadeOfLower
  <2> QED
    BY <2>1, <2>2, <2>3
<1> QED
  BY <1>1, <1>3, <1>4 DEF Settled

\* Four times.
Four(S) == Pub!Back(Pub!Back(Pub!Back(Pub!Back(S))))

LEMMA AboveIs ==
    ASSUME NEW a
    PROVE  Pub!Above(a) = Four(Four(Four(Four({a}))))
BY DEF Pub!Above, Four

LEMMA FourSettle ==
    ASSUME NEW S, NEW n \in Int, Settled(S, n)
    PROVE  Settled(Four(S), n - 4)
<1>1. PICK R : R = Pub!Back(S) /\ Settled(R, n - 1)
  BY BackSettles
<1>2. PICK B : B = Pub!Back(R) /\ Settled(B, n - 2)
  <2>1. Settled(Pub!Back(R), (n - 1) - 1)
    BY <1>1, BackSettles
  <2> QED
    BY <2>1
<1>3. PICK C : C = Pub!Back(B) /\ Settled(C, n - 3)
  <2>1. Settled(Pub!Back(B), (n - 2) - 1)
    BY <1>2, BackSettles
  <2> QED
    BY <2>1
<1>4. Settled(Pub!Back(C), n - 4)
  <2>1. Settled(Pub!Back(C), (n - 3) - 1)
    BY <1>3, BackSettles
  <2> QED
    BY <2>1
<1> QED
  BY <1>1, <1>2, <1>3, <1>4 DEF Four

LEMMA BackIsLeast ==
    ASSUME NEW S, NEW W, S \subseteq W, Closed(W)
    PROVE  S \subseteq Pub!Back(S) /\ Pub!Back(S) \subseteq W
BY DEF Pub!Back, Closed

LEMMA FourAreLeast ==
    ASSUME NEW S, NEW W, S \subseteq W, Closed(W)
    PROVE  S \subseteq Four(S) /\ Four(S) \subseteq W
<1>1. PICK R : R = Pub!Back(S) /\ S \subseteq R /\ R \subseteq W
  BY BackIsLeast
<1>2. PICK B : B = Pub!Back(R) /\ R \subseteq B /\ B \subseteq W
  BY <1>1, BackIsLeast
<1>3. PICK C : C = Pub!Back(B) /\ B \subseteq C /\ C \subseteq W
  BY <1>2, BackIsLeast
<1>4. C \subseteq Pub!Back(C) /\ Pub!Back(C) \subseteq W
  BY <1>3, BackIsLeast
<1> QED
  BY <1>1, <1>2, <1>3, <1>4 DEF Four

\* All that an artifact was made from is no more than a closed set that it is in.
LEMMA AboveIsLeast ==
    ASSUME NEW a, NEW W, a \in W, Closed(W)
    PROVE  a \in Pub!Above(a) /\ Pub!Above(a) \subseteq W
<1>1. {a} \subseteq W
  OBVIOUS
<1>2. PICK R : R = Four({a}) /\ {a} \subseteq R /\ R \subseteq W
  BY <1>1, FourAreLeast
<1>3. PICK B : B = Four(R) /\ R \subseteq B /\ B \subseteq W
  BY <1>2, FourAreLeast
<1>4. PICK C : C = Four(B) /\ B \subseteq C /\ C \subseteq W
  BY <1>3, FourAreLeast
<1>5. C \subseteq Four(C) /\ Four(C) \subseteq W
  BY <1>4, FourAreLeast
<1>6. Pub!Above(a) = Four(C)
  BY <1>2, <1>3, <1>4, AboveIs
<1> QED
  BY <1>2, <1>3, <1>4, <1>5, <1>6

\* And it is closed itself.
LEMMA AboveIsClosed ==
    ASSUME NEW a, Known(a)
    PROVE  Closed(Pub!Above(a)) /\ \A x \in Pub!Above(a) : Known(x)
<1>1. Settled({a}, 14)
  <2>1. RankOf(a.by) \in 0..14
    BY KnownRests DEF MadeOfLower
  <2> QED
    BY <2>1 DEF Settled
<1>2. PICK R : R = Four({a}) /\ Settled(R, 10)
  <2>1. Settled(Four({a}), 14 - 4)
    BY <1>1, FourSettle
  <2> QED
    BY <2>1
<1>3. PICK B : B = Four(R) /\ Settled(B, 6)
  <2>1. Settled(Four(R), 10 - 4)
    BY <1>2, FourSettle
  <2> QED
    BY <2>1
<1>4. PICK C : C = Four(B) /\ Settled(C, 2)
  <2>1. Settled(Four(B), 6 - 4)
    BY <1>3, FourSettle
  <2> QED
    BY <2>1
<1>5. PICK D : D = Four(C) /\ Settled(D, -2)
  <2>1. Settled(Four(C), 2 - 4)
    BY <1>4, FourSettle
  <2> QED
    BY <2>1
<1>6. Pub!Above(a) = D
  BY <1>2, <1>3, <1>4, <1>5, AboveIs
<1>7. ASSUME NEW x \in D
      PROVE  Known(x) /\ x.of \subseteq D
  <2>1. Known(x) /\ (x.of \subseteq D \/ RankOf(x.by) <= -2)
    BY <1>5 DEF Settled
  <2>2. RankOf(x.by) \in 0..14
    BY <2>1, KnownRests DEF MadeOfLower
  <2> QED
    BY <2>1, <2>2
<1> QED
  BY <1>6, <1>7 DEF Closed

-----------------------------------------------------------------------------
(* R past: artifacts with all they were made from, of one clock, one motion *)
(* and so on.                                                               *)

OneIn(S, by) == \A x, y \in S : x.by = by /\ y.by = by => x = y
Lacks(S, by) == \A x \in S : x.by # by

OneHistory(S) ==
    /\ Closed(S)
    /\ OneIn(S, "alignment") /\ OneIn(S, "motion")
    /\ OneIn(S, "features") /\ OneIn(S, "segmentation")
    /\ \A c \in S : c.by = "calibration" => Pub!IsCalibration(c)
    /\ \A c, d \in S : c.by = "calibration" /\ d.by = "calibration" =>
        Pub!CalibrationId(c) = Pub!CalibrationId(d)
    /\ \A c, x \in S : c.by = "calibration" /\ x.by = "alignment" =>
        Pub!SameSynchronization(c, x)

\* What is made of what has a past has one, if it is not a second of its kind.
LEMMA PastGrows ==
    ASSUME NEW S, OneHistory(S), NEW a, a.of \subseteq S,
           a.by # "alignment", a.by # "calibration",
           a.by = "motion" => Lacks(S, "motion"),
           a.by = "features" => Lacks(S, "features"),
           a.by = "segmentation" => Lacks(S, "segmentation")
    PROVE  /\ OneHistory(S \cup {a}) /\ a \in S \cup {a}
           /\ \A by : a.by # by /\ Lacks(S, by) => Lacks(S \cup {a}, by)
<1>1. Closed(S \cup {a})
  BY DEF OneHistory, Closed
<1>2. /\ OneIn(S \cup {a}, "alignment") /\ OneIn(S \cup {a}, "motion")
      /\ OneIn(S \cup {a}, "features") /\ OneIn(S \cup {a}, "segmentation")
  BY DEF OneHistory, OneIn, Lacks
<1>3. \A c \in S \cup {a} : (c.by = "calibration" \/ c.by = "alignment") => c \in S
  OBVIOUS
<1>4. /\ \A c \in S \cup {a} : c.by = "calibration" => Pub!IsCalibration(c)
      /\ \A c, d \in S \cup {a} : c.by = "calibration" /\ d.by = "calibration" =>
          Pub!CalibrationId(c) = Pub!CalibrationId(d)
      /\ \A c, x \in S \cup {a} : c.by = "calibration" /\ x.by = "alignment" =>
          Pub!SameSynchronization(c, x)
  BY <1>3 DEF OneHistory
<1> QED
  BY <1>1, <1>2, <1>4 DEF OneHistory, Lacks

\* The same of another copy of the calibration.
LEMMA LinksFollowIds ==
    ASSUME NEW c, NEW d, Pub!IsCalibration(c), Pub!IsCalibration(d),
           Pub!CalibrationId(c) = Pub!CalibrationId(d)
    PROVE  Pub!Links(c) = Pub!Links(d)
<1>1. PICK f : f.config \in DOMAIN Provision /\ Pub!Input(c, "file") = f
  BY OutsideAre
<1>2. PICK g : g.config \in DOMAIN Provision /\ Pub!Input(d, "file") = g
  BY OutsideAre
<1>3. /\ Pub!CalibrationId(c) = Provision[f.config].id
      /\ Pub!CalibrationId(d) = Provision[g.config].id
      /\ Pub!Links(c) = Provision[f.config].sync
      /\ Pub!Links(d) = Provision[g.config].sync
  BY <1>1, <1>2 DEF Pub!CalibrationId, Pub!Links
<1>4. \A m, n \in DOMAIN Provision :
        Provision[m].id = Provision[n].id => Provision[m].sync = Provision[n].sync
  BY InputAssumption
<1>5. Provision[f.config].id = Provision[g.config].id
  BY <1>3
<1>6. Provision[f.config].sync = Provision[g.config].sync
  BY <1>1, <1>2, <1>4, <1>5
<1> QED
  BY <1>3, <1>6

LEMMA PastGrowsACopy ==
    ASSUME NEW S, OneHistory(S), NEW e, Pub!IsCalibration(e),
           NEW c \in S, c.by = "calibration", Pub!CalibrationId(c) = Pub!CalibrationId(e)
    PROVE  /\ OneHistory(S \cup e.of \cup {e}) /\ S \subseteq S \cup e.of \cup {e}
           /\ e \in S \cup e.of \cup {e}
           /\ \A by : by # "calibration" /\ by # "file" /\ Lacks(S, by) =>
                Lacks(S \cup e.of \cup {e}, by)
<1>1. PICK f : e.by = "calibration" /\ Pub!Given(f, "file") /\ e.of = {f}
  BY OutsideAre
<1>2. f.by = "file" /\ f.of = {}
  BY <1>1, OutsideAre
<1>3. PICK W : W = S \cup {f}
  OBVIOUS
<1>4. OneHistory(W) /\ S \subseteq W /\ \A by : by # "file" /\ Lacks(S, by) => Lacks(W, by)
  BY <1>2, <1>3, PastGrows
<1>5. Closed(W \cup {e})
  BY <1>1, <1>3, <1>4 DEF OneHistory, Closed
<1>6. /\ OneIn(W \cup {e}, "alignment") /\ OneIn(W \cup {e}, "motion")
      /\ OneIn(W \cup {e}, "features") /\ OneIn(W \cup {e}, "segmentation")
  BY <1>1, <1>4 DEF OneHistory, OneIn
<1>7. \A d \in W \cup {e} : d.by = "calibration" =>
        Pub!IsCalibration(d) /\ Pub!CalibrationId(d) = Pub!CalibrationId(e)
  BY <1>3, <1>4 DEF OneHistory
<1>8. \A d, x \in W \cup {e} : d.by = "calibration" /\ x.by = "alignment" =>
        Pub!SameSynchronization(d, x)
  <2>1. Pub!Links(e) = Pub!Links(c)
    BY LinksFollowIds DEF OneHistory
  <2>2. \A x \in W : x.by = "alignment" => Pub!SameSynchronization(c, x)
    BY <1>3, <1>4 DEF OneHistory
  <2>3. \A x \in W : x.by = "alignment" => Pub!SameSynchronization(e, x)
    BY <2>1, <2>2 DEF Pub!SameSynchronization
  <2>4. \A x \in W \cup {e} : x.by = "alignment" => x \in W
    BY <1>1
  <2> QED
    BY <1>4, <2>3, <2>4 DEF OneHistory
<1>9. OneHistory(W \cup {e})
  BY <1>5, <1>6, <1>7, <1>8 DEF OneHistory
<1>10. S \cup e.of \cup {e} = W \cup {e}
  BY <1>1, <1>3
<1>11. \A by : by # "calibration" /\ by # "file" /\ Lacks(S, by) => Lacks(W \cup {e}, by)
  BY <1>1, <1>4 DEF Lacks
<1> QED
  BY <1>9, <1>10, <1>11

\* What is in the past of a raw reconstruction, a motion, and so on.
Calibrated(S, id) ==
    /\ \E c \in S : c.by = "calibration"
    /\ \A c \in S : c.by = "calibration" => Pub!CalibrationId(c) = id

Early(a, S) ==
    /\ a \in S /\ OneHistory(S) /\ Lacks(S, "features") /\ Lacks(S, "segmentation")

LEMMA RawHasPast ==
    ASSUME NEW raw, Pub!IsRaw(raw)
    PROVE  \E S : /\ Early(raw, S) /\ Lacks(S, "motion")
                  /\ Calibrated(S, Pub!CalibrationOf(raw))
<1>1. PICK c, x : /\ raw.by = "raw" /\ Pub!IsCalibration(c) /\ Pub!IsAlignment(x)
                  /\ raw.of = {c, x} /\ Pub!SameSynchronization(c, x)
                  /\ Pub!CalibrationOf(raw) = Pub!CalibrationId(c)
  BY RawIs
<1>2. PICK w, s : x.by = "alignment" /\ Pub!IsWindows(w) /\ Pub!IsSync(s) /\ x.of = {w, s}
  BY <1>1, AlignmentIs
<1>3. PICK one : w.by = "windows" /\ Pub!Given(one, "source") /\ w.of = {one}
  BY <1>2, OutsideAre
<1>4. PICK two, k : /\ s.by = "sync" /\ Pub!Given(two, "source") /\ Pub!Given(k, "sync key")
                    /\ s.of = {two, k}
  <2>1. Pub!IsSync(s)
    BY <1>2
  <2> QED
    BY <2>1, Zenon, OutsideAre
<1>5. PICK f : c.by = "calibration" /\ Pub!Given(f, "file") /\ c.of = {f}
  BY <1>1, OutsideAre
<1>6. /\ one.by = "source" /\ one.of = {} /\ two.by = "source" /\ two.of = {}
      /\ k.by = "sync key" /\ k.of = {} /\ f.by = "file" /\ f.of = {}
  <2>1. one.by = "source" /\ one.of = {}
    BY <1>3, OutsideAre
  <2>2. two.by = "source" /\ two.of = {}
    BY <1>4, OutsideAre
  <2>3. k.by = "sync key" /\ k.of = {}
    BY <1>4, OutsideAre
  <2>4. f.by = "file" /\ f.of = {}
    BY <1>5, OutsideAre
  <2> QED
    BY <2>1, <2>2, <2>3, <2>4
<1>7. PICK S : S = {one, two, k, f, w, s, c, x}
  OBVIOUS
<1>8. /\ \A y \in S : /\ y.by = "alignment" => y = x
                      /\ y.by = "calibration" => y = c
      /\ c \in S /\ x \in S
  BY <1>2, <1>3, <1>4, <1>5, <1>6, <1>7
<1>9. Lacks(S, "motion") /\ Lacks(S, "features") /\ Lacks(S, "segmentation")
  BY <1>2, <1>3, <1>4, <1>5, <1>6, <1>7 DEF Lacks
<1>10. Closed(S)
  BY <1>2, <1>3, <1>4, <1>5, <1>6, <1>7 DEF Closed
<1>11. OneHistory(S)
  <2>1. OneIn(S, "alignment")
    BY <1>8 DEF OneIn
  <2>2. OneIn(S, "motion") /\ OneIn(S, "features") /\ OneIn(S, "segmentation")
    BY <1>9 DEF OneIn, Lacks
  <2> QED
    BY <1>1, <1>8, <1>10, <2>1, <2>2 DEF OneHistory
<1>12. Calibrated(S, Pub!CalibrationOf(raw))
  BY <1>1, <1>5, <1>8 DEF Calibrated
<1>13. PICK W : W = S \cup {raw}
  OBVIOUS
<1>14. /\ OneHistory(W) /\ raw \in W
       /\ Lacks(W, "motion") /\ Lacks(W, "features") /\ Lacks(W, "segmentation")
  <2>1. raw.of \subseteq S
    BY <1>1, <1>8
  <2> QED
    BY <1>1, <1>9, <1>11, <1>13, <2>1, PastGrows
<1>15. Calibrated(W, Pub!CalibrationOf(raw))
  BY <1>1, <1>12, <1>13 DEF Calibrated
<1> QED
  BY <1>14, <1>15 DEF Early

LEMMA AlignmentHasPast ==
    ASSUME NEW x, Pub!IsAlignment(x)
    PROVE  \E S : x \in S /\ OneHistory(S)
<1>1. PICK w, s : x.by = "alignment" /\ Pub!IsWindows(w) /\ Pub!IsSync(s) /\ x.of = {w, s}
  BY AlignmentIs
<1>2. PICK one : w.by = "windows" /\ Pub!Given(one, "source") /\ w.of = {one}
  BY <1>1, OutsideAre
<1>3. PICK two, k : /\ s.by = "sync" /\ Pub!Given(two, "source") /\ Pub!Given(k, "sync key")
                    /\ s.of = {two, k}
  <2>1. Pub!IsSync(s)
    BY <1>1
  <2> QED
    BY <2>1, Zenon, OutsideAre
<1>4. /\ one.by = "source" /\ one.of = {} /\ two.by = "source" /\ two.of = {}
      /\ k.by = "sync key" /\ k.of = {}
  <2>1. one.by = "source" /\ one.of = {}
    BY <1>2, OutsideAre
  <2>2. two.by = "source" /\ two.of = {}
    BY <1>3, OutsideAre
  <2>3. k.by = "sync key" /\ k.of = {}
    BY <1>3, OutsideAre
  <2> QED
    BY <2>1, <2>2, <2>3
<1>5. PICK S : S = {one, two, k, w, s, x}
  OBVIOUS
<1>6. \A y \in S : y.by = "alignment" => y = x
  BY <1>1, <1>2, <1>3, <1>4, <1>5
<1>7. /\ Lacks(S, "motion") /\ Lacks(S, "features") /\ Lacks(S, "segmentation")
      /\ Lacks(S, "calibration")
  BY <1>1, <1>2, <1>3, <1>4, <1>5 DEF Lacks
<1>8. Closed(S)
  BY <1>1, <1>2, <1>3, <1>4, <1>5 DEF Closed
<1>9. OneHistory(S)
  BY <1>6, <1>7, <1>8 DEF OneHistory, OneIn, Lacks
<1> QED
  BY <1>5, <1>9

LEMMA EarlyGrows ==
    ASSUME NEW b, NEW S, Early(b, S), NEW a, a.of \subseteq S,
           a.by # "alignment", a.by # "calibration", a.by # "features", a.by # "segmentation",
           a.by = "motion" => Lacks(S, "motion")
    PROVE  /\ Early(a, S \cup {a})
           /\ a.by # "motion" /\ Lacks(S, "motion") => Lacks(S \cup {a}, "motion")
           /\ \A id : Calibrated(S, id) => Calibrated(S \cup {a}, id)
<1>1. /\ OneHistory(S \cup {a}) /\ a \in S \cup {a}
      /\ \A by : a.by # by /\ Lacks(S, by) => Lacks(S \cup {a}, by)
  BY PastGrows DEF Early
<1>2. \A id : Calibrated(S, id) => Calibrated(S \cup {a}, id)
  BY DEF Calibrated
<1> QED
  BY <1>1, <1>2 DEF Early

LEMMA BodyHasPast ==
    ASSUME NEW raw, Pub!IsRaw(raw), NEW body, Pub!IsMorphology(body), body.of = {raw}
    PROVE  \E S : /\ Early(body, S) /\ Lacks(S, "motion") /\ raw \in S
                  /\ Calibrated(S, Pub!CalibrationOf(raw))
<1>1. PICK S : /\ Early(raw, S) /\ Lacks(S, "motion")
               /\ Calibrated(S, Pub!CalibrationOf(raw))
  BY RawHasPast
<1>2. body.by = "morphology" /\ body.of \subseteq S /\ raw \in S
  BY <1>1, BodyIs DEF Early
<1>3. /\ Early(body, S \cup {body}) /\ Lacks(S \cup {body}, "motion")
      /\ Calibrated(S \cup {body}, Pub!CalibrationOf(raw))
  BY <1>1, <1>2, EarlyGrows
<1> QED
  BY <1>2, <1>3

LEMMA PoseHasPast ==
    ASSUME NEW raw, NEW body, NEW pose, Pub!IsRaw(raw), Pub!IsMorphology(body), body.of = {raw},
           pose.by = "pose", pose.of = {raw, body}
    PROVE  \E S : /\ Early(pose, S) /\ Lacks(S, "motion") /\ raw \in S /\ body \in S
                  /\ Calibrated(S, Pub!CalibrationOf(raw))
<1>1. PICK S : /\ Early(body, S) /\ Lacks(S, "motion") /\ raw \in S
               /\ Calibrated(S, Pub!CalibrationOf(raw))
  BY BodyHasPast
<1>2. pose.of \subseteq S /\ body \in S
  BY <1>1 DEF Early
<1>3. /\ Early(pose, S \cup {pose}) /\ Lacks(S \cup {pose}, "motion")
      /\ Calibrated(S \cup {pose}, Pub!CalibrationOf(raw))
  BY <1>1, <1>2, EarlyGrows
<1> QED
  BY <1>1, <1>2, <1>3

LEMMA MotionHasPast ==
    ASSUME NEW m, Pub!IsMotion(m)
    PROVE  \E S : Early(m, S) /\ Calibrated(S, Pub!CalibrationOf(m))
<1>1. PICK raw, body, pose :
        /\ m.by = "motion" /\ Pub!IsRaw(raw) /\ Pub!IsMorphology(body) /\ body.of = {raw}
        /\ Pub!IsPose(pose) /\ pose.of = {raw, body} /\ m.of = {pose, raw, body}
        /\ Pub!CalibrationOf(m) = Pub!CalibrationOf(raw)
  BY MotionIs
<1>2. pose.by = "pose"
  BY <1>1, PoseIs
<1>3. PICK S : /\ Early(pose, S) /\ Lacks(S, "motion") /\ raw \in S /\ body \in S
               /\ Calibrated(S, Pub!CalibrationOf(raw))
  BY <1>1, <1>2, PoseHasPast
<1>4. m.of \subseteq S
  BY <1>1, <1>3 DEF Early
<1>5. Early(m, S \cup {m}) /\ Calibrated(S \cup {m}, Pub!CalibrationOf(raw))
  BY <1>1, <1>3, <1>4, EarlyGrows
<1> QED
  BY <1>1, <1>5

LEMMA ContactsHavePast ==
    ASSUME NEW a, Pub!IsContacts(a)
    PROVE  \E S : Early(a, S)
<1>1. PICK m, c : /\ a.by = "contacts" /\ Pub!IsMotion(m) /\ Pub!IsCalibration(c)
                  /\ Pub!CalibrationOf(m) = Pub!CalibrationId(c)
                  /\ a.of \subseteq {m, c, Pub!Input(m, "morphology")}
  BY ContactsAre
<1>2. PICK S : Early(m, S) /\ Calibrated(S, Pub!CalibrationOf(m))
  BY <1>1, MotionHasPast
<1>3. PICK d \in S : d.by = "calibration" /\ Pub!CalibrationId(d) = Pub!CalibrationId(c)
  BY <1>1, <1>2 DEF Calibrated
<1>4. PICK W : W = S \cup c.of \cup {c}
  OBVIOUS
<1>5. /\ OneHistory(W) /\ S \subseteq W /\ c \in W
      /\ Lacks(W, "features") /\ Lacks(W, "segmentation")
  BY <1>1, <1>2, <1>3, <1>4, PastGrowsACopy DEF Early
<1>6. m \in W /\ Pub!Input(m, "morphology") \in W
  BY <1>1, <1>2, <1>5, BodyOfMotion DEF Early, OneHistory, Closed
<1>7. Early(m, W) /\ a.of \subseteq W
  BY <1>1, <1>5, <1>6 DEF Early
<1>8. Early(a, W \cup {a})
  BY <1>1, <1>7, EarlyGrows
<1> QED
  BY <1>8

LEMMA FootprintsHavePast ==
    ASSUME NEW a, Pub!IsFootprints(a)
    PROVE  \E S : Early(a, S)
<1>1. PICK m, g, c : /\ a.by = "footprints" /\ Pub!IsMotion(m) /\ Pub!IsContacts(g)
                     /\ m \in g.of /\ c \in g.of
                     /\ a.of \subseteq {m, g, c, Pub!Input(m, "morphology")}
  BY FootprintsAre
<1>2. PICK S : Early(g, S)
  BY <1>1, ContactsHavePast
<1>3. g \in S /\ m \in S /\ c \in S
  BY <1>1, <1>2 DEF Early, OneHistory, Closed
<1>4. Pub!Input(m, "morphology") \in S
  BY <1>1, <1>2, <1>3, BodyOfMotion DEF Early, OneHistory, Closed
<1>5. a.of \subseteq S
  BY <1>1, <1>3, <1>4
<1>6. Early(a, S \cup {a})
  BY <1>1, <1>2, <1>5, EarlyGrows
<1> QED
  BY <1>6

LEMMA PivotsHavePast ==
    ASSUME NEW a, Pub!IsPivots(a)
    PROVE  \E S : Early(a, S)
<1>1. PICK g : a.by = "pivots" /\ Pub!IsFootprints(g) /\ a.of = {g}
  BY PivotsAre
<1>2. PICK S : Early(g, S)
  BY <1>1, FootprintsHavePast
<1>3. a.of \subseteq S
  BY <1>1, <1>2 DEF Early
<1>4. Early(a, S \cup {a})
  BY <1>1, <1>2, <1>3, EarlyGrows
<1> QED
  BY <1>4

LEMMA ViewHasPast ==
    ASSUME NEW a, Pub!IsView(a)
    PROVE  \E S : Early(a, S)
<1>1. /\ a.by = "view"
      /\ \E m, c, p, g : /\ Pub!IsMotion(m) /\ Pub!IsCalibration(c)
                         /\ Pub!IsPivots(p) /\ p.of = {g} /\ Pub!IsFootprints(g)
                         /\ m \in g.of /\ c \in g.of /\ a.of = {m, c, p}
                         /\ Pub!Earlier(a) = p /\ Pub!MotionOf(a) = Pub!MotionOf(p)
  BY Zenon, ViewIs
<1>m. PICK m, c, p, g : /\ Pub!IsPivots(p) /\ p.of = {g}
                        /\ m \in g.of /\ c \in g.of /\ a.of = {m, c, p}
  BY <1>1
<1>2. PICK S : Early(p, S)
  BY <1>m, PivotsHavePast
<1>3. p \in S /\ g \in S
  BY <1>1, <1>m, <1>2 DEF Early, OneHistory, Closed
<1>4. a.of \subseteq S
  BY <1>1, <1>m, <1>2, <1>3 DEF Early, OneHistory, Closed
<1>5. Early(a, S \cup {a})
  BY <1>1, <1>m, <1>2, <1>4, EarlyGrows
<1> QED
  BY <1>5

LEMMA FloorHasPast ==
    ASSUME NEW a, Pub!IsFloor(a)
    PROVE  \E S : Early(a, S)
BY ContactsHavePast, FootprintsHavePast, PivotsHavePast, ViewHasPast DEF Pub!IsFloor

\* The motion of a ground product is in every closed set that it is in.
LEMMA MotionIsAbove ==
    ASSUME NEW S, Closed(S), NEW a \in S, Pub!IsFloor(a)
    PROVE  Pub!MotionOf(a) \in S
<1>1. ASSUME NEW x \in S, Pub!IsContacts(x) PROVE Pub!MotionOf(x) \in S
  BY <1>1, ContactsAre DEF Closed
<1>2. ASSUME NEW x \in S, Pub!IsFootprints(x) PROVE Pub!MotionOf(x) \in S
  <2>1. PICK g : Pub!IsContacts(g) /\ g \in x.of /\ Pub!MotionOf(x) = Pub!MotionOf(g)
    BY <1>2, FootprintsAre
  <2>2. g \in S
    BY <2>1 DEF Closed
  <2> QED
    BY <1>1, <2>1, <2>2
<1>3. ASSUME NEW x \in S, Pub!IsPivots(x) PROVE Pub!MotionOf(x) \in S
  <2>1. PICK g : Pub!IsFootprints(g) /\ x.of = {g} /\ Pub!MotionOf(x) = Pub!MotionOf(g)
    BY <1>3, PivotsAre
  <2>2. g \in S
    BY <2>1 DEF Closed
  <2> QED
    BY <1>2, <2>1, <2>2
<1>4. ASSUME NEW x \in S, Pub!IsView(x) PROVE Pub!MotionOf(x) \in S
  <2>1. \E m, c, p, g : /\ Pub!IsMotion(m) /\ Pub!IsCalibration(c)
                        /\ Pub!IsPivots(p) /\ p.of = {g} /\ Pub!IsFootprints(g)
                        /\ m \in g.of /\ c \in g.of /\ x.of = {m, c, p}
                        /\ Pub!Earlier(x) = p /\ Pub!MotionOf(x) = Pub!MotionOf(p)
    BY <1>4, Zenon, ViewIs
  <2>2. PICK m, c, p : /\ Pub!IsPivots(p) /\ x.of = {m, c, p}
                       /\ Pub!MotionOf(x) = Pub!MotionOf(p)
    BY <2>1
  <2>3. p \in S
    BY <2>2 DEF Closed
  <2> QED
    BY <1>3, <2>2, <2>3
<1> QED
  BY <1>1, <1>2, <1>3, <1>4 DEF Pub!IsFloor

LEMMA FeaturesHavePast ==
    ASSUME NEW a, Pub!IsFeatures(a)
    PROVE  \E S : a \in S /\ OneHistory(S) /\ Lacks(S, "segmentation")
<1>1. PICK m, g : /\ a.by = "features" /\ Pub!IsFloor(g) /\ a.of = {m, g}
                  /\ Pub!MotionOf(g) = m
  BY FeaturesAre
<1>2. PICK S : Early(g, S)
  BY <1>1, FloorHasPast
<1>3. g \in S /\ Closed(S)
  BY <1>2 DEF Early, OneHistory
<1>4. a.of \subseteq S
  BY <1>1, <1>3, MotionIsAbove
<1>5. OneHistory(S \cup {a}) /\ a \in S \cup {a} /\ Lacks(S \cup {a}, "segmentation")
  BY <1>1, <1>2, <1>4, PastGrows DEF Early
<1> QED
  BY <1>5

LEMMA SegmentationHasPast ==
    ASSUME NEW a, Pub!IsSegmentation(a)
    PROVE  \E S : a \in S /\ OneHistory(S)
<1>1. PICK f : a.by = "segmentation" /\ Pub!IsFeatures(f) /\ a.of = {f}
  BY SegmentationIs
<1>2. PICK S : f \in S /\ OneHistory(S) /\ Lacks(S, "segmentation")
  BY <1>1, FeaturesHavePast
<1>3. OneHistory(S \cup {a}) /\ a \in S \cup {a}
  BY <1>1, <1>2, PastGrows
<1> QED
  BY <1>3

\* The features of a segmentation are in every closed set that it is in, and
\* so is what arms and legs are made of.
LEMMA ArmsAreAbove ==
    ASSUME NEW S, Closed(S), NEW s \in S, Pub!IsSegmentation(s),
           NEW a, Pub!IsArms(a) \/ Pub!IsLegs(a), Pub!SegmentationOf(a) = s
    PROVE  a.of \subseteq S /\ Pub!FeaturesOf(a) = Pub!FeaturesOf(s)
           /\ Pub!FeaturesOf(s) \in S /\ (a.by = "arms" \/ a.by = "legs")
<1>1. PICK f : s.of = {f} /\ Pub!FeaturesOf(s) = f
  BY SegmentationIs
<1>2. f \in S /\ f.of \subseteq S
  BY <1>1 DEF Closed
<1>3. CASE Pub!IsArms(a)
  <2>1. PICK h, t, m : /\ a.by = "arms" /\ m \in h.of /\ Pub!FeaturesOf(t) = h
                       /\ a.of = {h, t, m}
                       /\ Pub!FeaturesOf(a) = h /\ Pub!SegmentationOf(a) = t
    BY <1>3, ArmsAre
  <2>2. t = s /\ h = f
    BY <1>1, <2>1
  <2> QED
    BY <1>1, <1>2, <2>1, <2>2
<1>4. CASE Pub!IsLegs(a)
  <2>1. PICK h, g, t : /\ a.by = "legs" /\ g \in h.of /\ Pub!FeaturesOf(t) = h
                       /\ a.of = {h, g, t}
                       /\ Pub!FeaturesOf(a) = h /\ Pub!SegmentationOf(a) = t
    BY <1>4, LegsAre
  <2>2. t = s /\ h = f
    BY <1>1, <2>1
  <2> QED
    BY <1>1, <1>2, <2>1, <2>2
<1> QED
  BY <1>3, <1>4

LEMMA LimbsHavePast ==
    ASSUME NEW S, OneHistory(S), NEW s \in S, Pub!IsSegmentation(s),
           NEW a, Pub!IsArms(a) \/ Pub!IsLegs(a), Pub!SegmentationOf(a) = s
    PROVE  a \in S \cup {a} /\ OneHistory(S \cup {a})
<1>1. a.of \subseteq S /\ (a.by = "arms" \/ a.by = "legs")
  BY ArmsAreAbove DEF OneHistory
<1> QED
  BY <1>1, PastGrows

LEMMA SegmentationOfLimbs ==
    ASSUME NEW a, Pub!IsArms(a) \/ Pub!IsLegs(a)
    PROVE  \E s : Pub!IsSegmentation(s) /\ Pub!SegmentationOf(a) = s
BY ArmsAre, LegsAre

LEMMA SemanticsHavePast ==
    ASSUME NEW a, Pub!IsSemantics(a)
    PROVE  \E S : a \in S /\ OneHistory(S)
<1>1. PICK f, s, x, y :
        /\ a.by = "semantics" /\ Pub!IsSegmentation(s) /\ Pub!IsArms(x) /\ Pub!IsLegs(y)
        /\ a.of = {f, s, x, y} /\ \A z \in {s, x, y} : Pub!FeaturesOf(z) = f
        /\ Pub!SegmentationOf(x) = s /\ Pub!SegmentationOf(y) = s
  BY SemanticsAre
<1>2. PICK S : s \in S /\ OneHistory(S)
  BY <1>1, SegmentationHasPast
<1>3. PICK W : W = S \cup {x} /\ OneHistory(W)
  BY <1>1, <1>2, LimbsHavePast
<1>4. PICK U : U = W \cup {y} /\ OneHistory(U)
  BY <1>1, <1>2, <1>3, LimbsHavePast
<1>5. f \in S
  BY <1>1, <1>2, ArmsAreAbove DEF OneHistory
<1>6. a.of \subseteq U
  BY <1>1, <1>2, <1>3, <1>4, <1>5
<1>7. OneHistory(U \cup {a}) /\ a \in U \cup {a}
  BY <1>1, <1>4, <1>6, PastGrows
<1> QED
  BY <1>7

LEMMA ProductsHavePast ==
    ASSUME NEW a, Pub!Published(a)
    PROVE  \E S : a \in S /\ OneHistory(S)
<1>1. CASE Pub!IsAlignment(a)
  BY <1>1, AlignmentHasPast
<1>2. CASE Pub!IsRaw(a)
  BY <1>2, RawHasPast DEF Early
<1>3. CASE Pub!IsMorphology(a)
  <2>1. PICK raw : Pub!IsRaw(raw) /\ a.of = {raw}
    BY <1>3, BodyIs
  <2> QED
    BY <1>3, <2>1, BodyHasPast DEF Early
<1>4. CASE Pub!IsPose(a)
  <2>1. PICK raw, body : /\ a.by = "pose" /\ Pub!IsRaw(raw) /\ Pub!IsMorphology(body)
                         /\ body.of = {raw} /\ a.of = {raw, body}
    BY <1>4, PoseIs
  <2> QED
    BY <2>1, PoseHasPast DEF Early
<1>5. CASE Pub!IsMotion(a)
  BY <1>5, MotionHasPast DEF Early
<1>6. CASE Pub!IsFloor(a)
  BY <1>6, FloorHasPast DEF Early
<1>7. CASE Pub!IsFeatures(a)
  BY <1>7, FeaturesHavePast
<1>8. CASE Pub!IsSegmentation(a)
  BY <1>8, SegmentationHasPast
<1>9. CASE Pub!IsArms(a) \/ Pub!IsLegs(a)
  <2>1. PICK s : Pub!IsSegmentation(s) /\ Pub!SegmentationOf(a) = s
    BY <1>9, SegmentationOfLimbs
  <2>2. PICK S : s \in S /\ OneHistory(S)
    BY <2>1, SegmentationHasPast
  <2>3. a \in S \cup {a} /\ OneHistory(S \cup {a})
    BY <1>9, <2>1, <2>2, LimbsHavePast
  <2> QED
    BY <2>3
<1>10. CASE Pub!IsSemantics(a)
  BY <1>10, SemanticsHavePast
<1> QED
  BY <1>1, <1>2, <1>3, <1>4, <1>5, <1>6, <1>7, <1>8, <1>9, <1>10 DEF Pub!Published

\* R clock, a motion, one set of features and one calibration.
LEMMA PastIsOne ==
    ASSUME NEW a, NEW S, a \in S, OneHistory(S)
    PROVE  Pub!OnePast(a)
<1>1. PICK R : R = Pub!Above(a)
  OBVIOUS
<1>2. R \subseteq S
  BY <1>1, AboveIsLeast DEF OneHistory
<1>3. \A x, y \in R : x.by = "alignment" /\ y.by = "alignment" => x = y
  BY <1>2 DEF OneHistory, OneIn
<1>4. Pub!AtMostOne(Pub!Clocks(a))
  BY <1>1, <1>3 DEF Pub!AtMostOne, Pub!Clocks
<1>5. \A by \in {"motion", "features", "segmentation"} :
        Pub!AtMostOne({x \in R : x.by = by})
  BY <1>2 DEF OneHistory, OneIn, Pub!AtMostOne
<1>6. PICK U : U = {x \in R : x.by = "calibration"}
  OBVIOUS
<1>7. Pub!AtMostOne({Pub!CalibrationId(c) : c \in U})
  BY <1>2, <1>6 DEF OneHistory, Pub!AtMostOne
<1>8. ASSUME NEW c \in U, NEW clock \in Pub!Clocks(a), Pub!Links(c) # None
      PROVE  Pub!SyncId(clock) = Pub!Links(c)
  <2>1. PICK x \in R : x.by = "alignment" /\ clock = Pub!Input(x, "sync")
    BY <1>1 DEF Pub!Clocks
  <2>2. Pub!SameSynchronization(c, x)
    BY <1>2, <1>6, <2>1 DEF OneHistory
  <2> QED
    BY <1>8, <2>1, <2>2 DEF Pub!SameSynchronization
<1> QED
  BY <1>1, <1>4, <1>5, <1>6, <1>7, <1>8 DEF Pub!OnePast

-----------------------------------------------------------------------------
(* What the exported references say is so of every closed set.             *)

LEMMA KindsAre ==
    ASSUME NEW a, Known(a)
    PROVE  /\ a.by = "alignment" => Pub!IsAlignment(a)
           /\ a.by = "raw" => Pub!IsRaw(a)
           /\ a.by = "pose" => Pub!IsPose(a)
           /\ a.by = "motion" => Pub!IsMotion(a)
           /\ Pub!IsGround(a) => Pub!IsFloor(a)
           /\ a.by = "features" => Pub!IsFeatures(a)
           /\ a.by = "segmentation" => Pub!IsSegmentation(a)
           /\ a.by = "arms" => Pub!IsArms(a)
           /\ a.by = "legs" => Pub!IsLegs(a)
           /\ a.by = "semantics" => Pub!IsSemantics(a)
<1> PICK n : n = RankOf(a.by)
  OBVIOUS
<1>1. /\ Outside(a) => n = 0 \/ n = 1
      /\ Pub!IsAlignment(a) => n = 2 /\ a.by = "alignment"
      /\ Pub!IsRaw(a) => n = 3 /\ a.by = "raw"
      /\ Pub!IsMorphology(a) => n = 4 /\ a.by = "morphology"
      /\ Pub!IsPose(a) => n = 5 /\ a.by = "pose"
      /\ Pub!IsMotion(a) => n = 6 /\ a.by = "motion"
  <2>0. /\ Pub!Given(a, "source") => n = 0
        /\ Pub!Given(a, "sync key") => n = 0
        /\ Pub!Given(a, "file") => n = 0
    BY GivenIs
  <2>h. /\ Pub!IsWindows(a) => n = 1
        /\ Pub!IsSync(a) => n = 1
        /\ Pub!IsCalibration(a) => n = 1
    BY HeightsAre
  <2>1. Outside(a) => n = 0 \/ n = 1
    BY <2>0, <2>h DEF Outside
  <2> QED
    BY <2>1, HeightsAre, AlignmentIs, RawIs, BodyIs, PoseIs, MotionIs
<1>2. Pub!IsFloor(a) => n \in 7..10
  BY HeightsAre DEF Pub!IsFloor
<1>3. /\ Pub!IsFeatures(a) => n = 11
      /\ Pub!IsSegmentation(a) => n = 12
      /\ Pub!IsArms(a) => n = 13 /\ a.by = "arms"
      /\ Pub!IsLegs(a) => n = 13 /\ a.by = "legs"
      /\ Pub!IsSemantics(a) => n = 14
  BY HeightsAre, ArmsAre, LegsAre
<1>4. /\ a.by = "alignment" => n = 2 /\ a.by # "arms" /\ a.by # "legs"
      /\ a.by = "raw" => n = 3
      /\ a.by = "pose" => n = 5
      /\ a.by = "motion" => n = 6
      /\ Pub!IsGround(a) => n \in 7..10
  <2>1. (a.by = "contacts" \/ a.by = "footprints" \/ a.by = "pivots" \/ a.by = "view") =>
          n = 7 \/ n = 8 \/ n = 9 \/ n = 10
    <3>1. /\ a.by = "contacts" => n = 7
          /\ a.by = "footprints" => n = 8
          /\ a.by = "pivots" => n = 9
          /\ a.by = "view" => n = 10
      BY RanksAre
    <3> QED
      BY <3>1
  <2>2. Pub!IsGround(a) => n \in 7..10
    BY <2>1, GroundsAre
  <2> QED
    BY <2>2, RanksAre
<1>5. /\ a.by = "features" => n = 11
      /\ a.by = "segmentation" => n = 12
      /\ a.by = "arms" => n = 13 /\ a.by # "legs"
      /\ a.by = "legs" => n = 13 /\ a.by # "arms"
      /\ a.by = "semantics" => n = 14
  BY RanksAre
<1>6. \/ Outside(a) \/ Pub!IsAlignment(a) \/ Pub!IsRaw(a) \/ Pub!IsMorphology(a)
      \/ Pub!IsPose(a) \/ Pub!IsMotion(a) \/ Pub!IsFloor(a) \/ Pub!IsFeatures(a)
      \/ Pub!IsSegmentation(a) \/ Pub!IsArms(a) \/ Pub!IsLegs(a) \/ Pub!IsSemantics(a)
  BY DEF Known, Pub!Published
<1> QED
  BY <1>1, <1>2, <1>3, <1>4, <1>5, <1>6

LEMMA MotionIsCalibrated ==
    ASSUME NEW S, Closed(S), NEW m \in S, Pub!IsRaw(m) \/ Pub!IsPose(m) \/ Pub!IsMotion(m)
    PROVE  Pub!HasCalibration(S, m)
<1>1. ASSUME NEW raw \in S, Pub!IsRaw(raw)
      PROVE  \E c \in S : c.by = "calibration" /\ Pub!CalibrationId(c) = Pub!CalibrationOf(raw)
  <2>1. PICK c, x : /\ Pub!IsCalibration(c) /\ raw.of = {c, x}
                    /\ Pub!CalibrationOf(raw) = Pub!CalibrationId(c)
    BY <1>1, RawIs
  <2>2. c \in S /\ c.by = "calibration"
    BY <2>1, OutsideAre DEF Closed
  <2> QED
    BY <2>1, <2>2
<1>2. CASE Pub!IsRaw(m)
  BY <1>1, <1>2 DEF Pub!HasCalibration
<1>3. CASE Pub!IsPose(m)
  <2>1. PICK raw, body : /\ Pub!IsRaw(raw) /\ m.of = {raw, body}
                         /\ Pub!CalibrationOf(m) = Pub!CalibrationOf(raw)
    BY <1>3, PoseIs
  <2>2. raw \in S
    BY <2>1 DEF Closed
  <2> QED
    BY <1>1, <2>1, <2>2 DEF Pub!HasCalibration
<1>4. CASE Pub!IsMotion(m)
  <2>1. PICK raw, body, pose : /\ Pub!IsRaw(raw) /\ m.of = {pose, raw, body}
                               /\ Pub!CalibrationOf(m) = Pub!CalibrationOf(raw)
    BY <1>4, MotionIs
  <2>2. raw \in S
    BY <2>1 DEF Closed
  <2> QED
    BY <1>1, <2>1, <2>2 DEF Pub!HasCalibration
<1> QED
  BY <1>2, <1>3, <1>4

LEMMA GeometryIsValid ==
    ASSUME NEW S, Closed(S), NEW a \in S, Known(a)
    PROVE  Pub!ValidGeometry(S, a)
<1>1. ASSUME a.by = "alignment" PROVE Pub!Input(a, "sync") \in S
  <2>1. Pub!IsAlignment(a)
    BY <1>1, KindsAre
  <2>2. PICK w, s : a.of = {w, s} /\ Pub!Input(a, "sync") = s
    BY <2>1, AlignmentIs
  <2> QED
    BY <2>2 DEF Closed
<1>2. ASSUME a.by \in Pub!Reconstructions PROVE Pub!HasCalibration(S, a)
  <2>1. Pub!IsRaw(a) \/ Pub!IsPose(a) \/ Pub!IsMotion(a)
    BY <1>2, KindsAre DEF Pub!Reconstructions
  <2> QED
    BY <2>1, MotionIsCalibrated
<1>3. ASSUME Pub!IsGround(a)
      PROVE  Pub!MotionOf(a) \in S /\ Pub!HasCalibration(S, Pub!MotionOf(a))
  <2>1. Pub!IsFloor(a)
    BY <1>3, KindsAre
  <2>2. Pub!MotionOf(a) \in S /\ Pub!IsMotion(Pub!MotionOf(a))
    BY <2>1, MotionIsAbove, FloorsAre
  <2> QED
    BY <2>2, MotionIsCalibrated
<1> QED
  BY <1>1, <1>2, <1>3 DEF Pub!ValidGeometry

LEMMA LineageIsThere ==
    ASSUME NEW S, Closed(S), NEW f \in S, Pub!IsFeatures(f)
    PROVE  /\ Pub!Lineage(f).motion \in S /\ Pub!Lineage(f).ground \in S
           /\ Pub!MotionOf(Pub!Lineage(f).ground) = Pub!Lineage(f).motion
           /\ Pub!LineageOf(f) = Pub!Lineage(f)
<1>1. PICK m, g : /\ f.by = "features" /\ f.of = {m, g} /\ Pub!MotionOf(g) = m
                  /\ Pub!Lineage(f) = [motion |-> m, ground |-> g]
  BY FeaturesAre
<1>2. Pub!Lineage(f).motion = m /\ Pub!Lineage(f).ground = g
  BY <1>1
<1>3. Pub!LineageOf(f) = Pub!Lineage(f)
  BY <1>1 DEF Pub!LineageOf
<1>4. m \in S /\ g \in S
  BY <1>1 DEF Closed
<1> QED
  BY <1>1, <1>2, <1>3, <1>4

LEMMA LineageIsValid ==
    ASSUME NEW S, Closed(S), NEW a \in S, Known(a), a.by \in Pub!Parsed
    PROVE  Pub!ValidLineage(S, a)
<1>1. \/ Pub!IsFeatures(a) \/ Pub!IsSegmentation(a) \/ Pub!IsArms(a)
      \/ Pub!IsLegs(a) \/ Pub!IsSemantics(a)
  BY KindsAre DEF Pub!Parsed
<1>2. CASE Pub!IsFeatures(a)
  <2>1. a.by = "features"
    BY <1>2, FeaturesAre
  <2> QED
    BY <1>2, <2>1, LineageIsThere DEF Pub!ValidLineage
<1>3. CASE Pub!IsSegmentation(a)
  <2>1. PICK f : /\ a.by = "segmentation" /\ Pub!IsFeatures(f) /\ a.of = {f}
                 /\ Pub!FeaturesOf(a) = f /\ Pub!LineageOf(a) = Pub!Lineage(f)
    BY <1>3, SegmentationIs
  <2>2. f \in S
    BY <2>1 DEF Closed
  <2> QED
    BY <2>1, <2>2, LineageIsThere DEF Pub!ValidLineage
<1>4. ASSUME NEW f, NEW s, NEW by, by = "arms" \/ by = "legs", a.by = by,
             Pub!IsFeatures(f), Pub!IsSegmentation(s), f \in a.of, Pub!FeaturesOf(s) = f,
             Pub!FeaturesOf(a) = f, Pub!SegmentationOf(a) = s,
             Pub!LineageOf(a) = Pub!Lineage(f)
      PROVE  Pub!ValidLineage(S, a)
  <2>1. f \in S
    BY <1>4 DEF Closed
  <2>2. Pub!LineageOf(s) = Pub!Lineage(f)
    BY <1>4, SegmentationIs
  <2>3. a.by # "semantics"
    BY <1>4
  <2> QED
    BY <1>4, <2>1, <2>2, <2>3, LineageIsThere DEF Pub!ValidLineage
<1>5. CASE Pub!IsArms(a)
  <2>1. PICK f, s, m : /\ a.by = "arms" /\ Pub!IsFeatures(f) /\ Pub!IsSegmentation(s)
                       /\ Pub!FeaturesOf(s) = f /\ a.of = {f, s, m}
                       /\ Pub!FeaturesOf(a) = f /\ Pub!SegmentationOf(a) = s
                       /\ Pub!LineageOf(a) = Pub!Lineage(f)
    BY <1>5, ArmsAre
  <2>2. f \in a.of
    BY <2>1
  <2> QED
    BY <1>4, <2>1, <2>2
<1>6. CASE Pub!IsLegs(a)
  <2>1. PICK f, g, s : /\ a.by = "legs" /\ Pub!IsFeatures(f) /\ Pub!IsSegmentation(s)
                       /\ Pub!FeaturesOf(s) = f /\ a.of = {f, g, s}
                       /\ Pub!FeaturesOf(a) = f /\ Pub!SegmentationOf(a) = s
                       /\ Pub!LineageOf(a) = Pub!Lineage(f)
    BY <1>6, LegsAre
  <2>2. f \in a.of
    BY <2>1
  <2> QED
    BY <1>4, <2>1, <2>2
<1>7. CASE Pub!IsSemantics(a)
  <2>1. PICK f, s, x, y :
          /\ a.by = "semantics" /\ Pub!IsFeatures(f) /\ Pub!IsSegmentation(s)
          /\ a.of = {f, s, x, y}
          /\ \A z \in {s, x, y} : Pub!LineageOf(z) = Pub!Lineage(f) /\ Pub!FeaturesOf(z) = f
          /\ Pub!SegmentationOf(x) = s /\ Pub!SegmentationOf(y) = s
          /\ Pub!FeaturesOf(a) = f /\ Pub!SegmentationOf(a) = s
          /\ Pub!LineageOf(a) = Pub!Lineage(f)
    BY <1>7, SemanticsAre
  <2>2. f \in S /\ f.by = "features" /\ s.by = "segmentation"
    BY <2>1, FeaturesAre, SegmentationIs DEF Closed
  <2>3. Pub!LineageOf(f) = Pub!Lineage(f)
    BY <2>1, <2>2, LineageIsThere
  <2>4. ASSUME NEW z \in a.of
        PROVE  /\ Pub!LineageOf(z) = Pub!LineageOf(a)
               /\ z.by # "features" => Pub!FeaturesOf(z) = Pub!FeaturesOf(a)
               /\ z.by \in {"arms", "legs"} => Pub!SegmentationOf(z) = Pub!SegmentationOf(a)
    BY <2>1, <2>2, <2>3
  <2> QED
    BY <2>1, <2>2, <2>4, LineageIsThere DEF Pub!ValidLineage
<1> QED
  BY <1>1, <1>2, <1>3, <1>5, <1>6, <1>7

-----------------------------------------------------------------------------
(* Of every input that is legal.                                           *)

\* Whatever the parsers propose of an execution, for any number of proposals that
\* meet their own contracts: the hierarchy is one that the contract of semantics
\* accepts, at every moment every track is in an action and in a phase of it, no
\* event of a track is lost, and no leg's action is cut at the edges
\* (reconstruction/semantics/core.py:106-383, contracts/models.py:981-1076).
THEOREM NoHolesInHierarchy == Legal => HierarchyHasNoHoles
  BY NothingIsLeftOut DEF Legal, HierarchyHasNoHoles

\* The coverage that is published with the queries of a camera is where they
\* find points, and it is found at every instant: whatever frames, tracks,
\* masks, gaps and limits of validity the camera has (sync/alignment.py).
THEOREM CoverageIsAlwaysFound ==
    Legal => CoversWhatItFinds
<1> SUFFICES ASSUME Legal, subject = "alignment" PROVE Clock!CoversWhatItFinds(input, Moments, Channels)
  BY DEF CoversWhatItFinds
<1>1. Filmed(input) /\ Moments \in SUBSET Int
  BY InputAssumption DEF Legal
<1> QED
  BY <1>1, CoverageOf

\* Whatever is handed to the publishers: what they publish has one clock, one
\* motion, one set of features, one segmentation and one calibration, bound
\* to no other clock (the artifact.py modules of reconstruction/), and what
\* validate_bundle (contracts/models.py) asks of the exported references holds.
THEOREM EveryProductHasOnePast == Legal => OnePast
<1> SUFFICES ASSUME Legal, subject = "publishers"
             PROVE  Pub!OnePast(input) /\ Pub!ExportsWhole(input)
  BY DEF OnePast
<1>1. Pub!Published(input)
  BY DEF Legal
<1>2. Pub!OnePast(input)
  BY <1>1, ProductsHavePast, PastIsOne
<1>3. Closed(Pub!Above(input)) /\ \A x \in Pub!Above(input) : Known(x)
  BY <1>1, AboveIsClosed DEF Known
<1>4. ASSUME NEW x \in Pub!Above(input)
      PROVE  /\ Pub!ValidGeometry(Pub!Above(input), x)
             /\ x.by \in Pub!Parsed => Pub!ValidLineage(Pub!Above(input), x)
  BY <1>3, GeometryIsValid, LineageIsValid
<1>5. Pub!ExportsWhole(input)
  BY <1>4 DEF Pub!ExportsWhole, Pub!ValidBundle
<1> QED
  BY <1>2, <1>5

=============================================================================
