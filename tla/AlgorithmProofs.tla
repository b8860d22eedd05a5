--------------------------- MODULE AlgorithmProofs ---------------------------
(***************************************************************************)
(* What the clock of several sources, the tracker, the automata of a foot, *)
(* the physical events, the steps of an execution and the actions of arms  *)
(* and legs promise, for inputs of any length.  Most read their samples in *)
(* order, so what they compute is a recursive function on 0..n: the first  *)
(* lemmas show that there is one, and induction is always over the least   *)
(* sample at which something fails.                                        *)
(***************************************************************************)
EXTENDS Algorithms, FiniteSets, FiniteSetTheorems, NaturalsInduction,
        WellFoundedInduction, TLAPS

-----------------------------------------------------------------------------
(* Recursion over the samples.                                             *)

LEMMA Least ==
    ASSUME NEW S \in SUBSET Nat, S # {}
    PROVE  \E x \in S : \A y \in S : x <= y
<1> DEFINE R == {ss \in Nat \X Nat : ss[1] < ss[2]}
<1>1. IsWellFoundedOn(R, Nat)
  BY NatLessThanWellFounded, Zenon DEF OpToRel
<1> HIDE DEF R
<1>2. PICK x \in S : \A y \in S : <<y, x>> \notin R
  BY <1>1, WFMin
<1>3. \A y \in S : ~(y < x)
  BY <1>2 DEF R
<1> QED
  BY <1>2, <1>3

\* What holds of the sample m and passes on from each one to the next holds of
\* all up to n.
LEMMA SampleInduction ==
    ASSUME NEW m \in Nat, NEW n \in Nat, NEW S, m \in S,
           \A i \in m..n : i \in S /\ i < n => i + 1 \in S
    PROVE  m..n \subseteq S
<1> DEFINE Missing == {i \in m..n : i \notin S}
<1>1. SUFFICES ASSUME Missing # {} PROVE FALSE
  OBVIOUS
<1>2. PICK x \in Missing : \A y \in Missing : x <= y
  <2>1. Missing \in SUBSET Nat
    OBVIOUS
  <2> HIDE DEF Missing
  <2> QED
    BY <1>1, <2>1, Least
<1>3. x # m /\ x - 1 \in m..n /\ x - 1 < n /\ (x - 1) + 1 = x /\ ~(x <= x - 1)
  OBVIOUS
<1>4. x - 1 \in S
  BY <1>2, <1>3
<1> QED
  BY <1>3, <1>4

IsComputed(V, init, n, step) ==
    \E h \in [0..n -> V] : h[0] = init /\ \A i \in 1..n : h[i] = step[<<i, h[i - 1]>>]

\* A recursion over the samples has a value at each of them.
LEMMA Recursion ==
    ASSUME NEW V, NEW init \in V, NEW n \in Nat, NEW step \in [(1..n) \X V -> V]
    PROVE  IsComputed(V, init, n, step)
<1> DEFINE H(m) == {h \in [0..m -> V] : h[0] = init /\ \A i \in 1..m : h[i] = step[<<i, h[i - 1]>>]}
           S == {m \in 0..n : H(m) # {}}
<1>1. 0 \in S
  <2>1. [i \in 0..0 |-> init] \in H(0)
    OBVIOUS
  <2> QED
    BY <2>1
<1>2. ASSUME NEW m \in 0..n, m \in S, m < n PROVE m + 1 \in S
  <2>1. PICK h \in H(m) : TRUE
    BY <1>2
  <2> DEFINE k == [i \in 0..(m + 1) |-> IF i <= m THEN h[i] ELSE step[<<m + 1, h[m]>>]]
  <2>2. <<m + 1, h[m]>> \in (1..n) \X V
    BY <1>2, <2>1
  <2>3. k \in [0..(m + 1) -> V] /\ k[0] = init
    BY <2>1, <2>2
  <2>4. ASSUME NEW i \in 1..(m + 1) PROVE k[i] = step[<<i, k[i - 1]>>]
    BY <2>1, SMTT(30)
  <2>5. k \in H(m + 1)
    BY <2>3, <2>4
  <2>6. m + 1 \in 0..n
    BY <1>2
  <2> HIDE DEF H
  <2> QED
    BY <2>5, <2>6
<1>3. n \in S
  <2> HIDE DEF S
  <2>1. 0..n \subseteq S
    BY <1>1, <1>2, SampleInduction
  <2> QED
    BY <2>1
<1> QED
  BY <1>3 DEF IsComputed

\* Rows in order are in order at any distance.
LEMMA TimesGrow ==
    ASSUME NEW rows, Len(rows) \in Nat, InOrder(rows), \A i \in 1..Len(rows) : rows[i].t \in Int
    PROVE  \A i, j \in 1..Len(rows) : i <= j => rows[i].t <= rows[j].t
<1>1. SUFFICES ASSUME NEW i \in 1..Len(rows), NEW j \in 1..Len(rows), i <= j
               PROVE  rows[i].t <= rows[j].t
  OBVIOUS
<1> DEFINE S == {k \in i..j : rows[i].t <= rows[k].t}
<1>2. i \in S
  BY <1>1
<1>3. ASSUME NEW k \in i..j, k \in S, k < j PROVE k + 1 \in S
  <2>1. k + 1 \in i..j /\ k + 1 \in 2..Len(rows) /\ (k + 1) - 1 = k /\ k \in 1..Len(rows)
    BY <1>1, <1>3
  <2>2. rows[k].t < rows[k + 1].t
    BY <2>1 DEF InOrder
  <2>3. rows[k].t \in Int /\ rows[k + 1].t \in Int /\ rows[i].t \in Int
    BY <1>1, <2>1
  <2> QED
    BY <1>3, <2>1, <2>2, <2>3
<1>4. i..j \subseteq S
  <2>1. i \in Nat /\ j \in Nat
    BY <1>1
  <2> HIDE DEF S
  <2> QED
    BY <1>2, <1>3, <2>1, SampleInduction
<1>5. j \in i..j
  BY <1>1
<1> QED
  BY <1>4, <1>5

-----------------------------------------------------------------------------
(***************************************************************************)
(* The tracker.                                                            *)
(***************************************************************************)

\* A tracker that follows somebody has seen a frame since.
Trackers ==
    {tracker \in [anchor : People \cup {None}, anchorTime : Int \cup {None},
                  trusted : People \cup {None}, last : Int \cup {None}] :
        tracker.anchor # None =>
            tracker.anchorTime \in Int /\ tracker.last \in Int /\ tracker.anchorTime <= tracker.last}

Outcomes == [tracker : Trackers, person : People \cup {None}, wrists : SUBSET T!Sides]

LEMMA ElementsAreTyped ==
    ASSUME NEW Values, NEW s \in Seq(Values)
    PROVE  Len(s) \in Nat /\ DOMAIN s = 1..Len(s) /\ \A i \in DOMAIN s : s[i] \in Values
  OBVIOUS

LEMMA PeopleAreTyped ==
    ASSUME NEW frame \in Frames
    PROVE  /\ Len(frame.people) \in Nat /\ DOMAIN frame.people = 1..Len(frame.people)
           /\ \A i \in DOMAIN frame.people : frame.people[i] \in People
           /\ frame.t \in Int
<1>1. frame.people \in Seq(People) /\ frame.t \in Int
  BY DEF Frames
<1> QED
  BY <1>1, ElementsAreTyped

\* Of the people in a frame one at most is chosen.
LEMMA OneIsChosen ==
    ASSUME NEW tracker \in Trackers, NEW frame \in Frames, NEW config \in TrackingConfigs,
           NEW i \in T!Chosen(tracker, frame, config), NEW j \in T!Chosen(tracker, frame, config),
           i \in DOMAIN frame.people, j \in DOMAIN frame.people
    PROVE  i = j
<1>1. DOMAIN frame.people = 1..Len(frame.people) /\ Len(frame.people) \in Nat
  BY PeopleAreTyped
<1>2. \A k \in DOMAIN frame.people : frame.people[k].size \in Nat
  BY PeopleAreTyped DEF People
<1>3. CASE frame.operator # None
  BY <1>3 DEF T!Chosen
<1>4. CASE frame.operator = None /\ tracker.anchor = None
  <2>1. T!Largest(frame.people, i, config) /\ T!Largest(frame.people, j, config)
    BY <1>4 DEF T!Chosen
  <2>2. \A k \in {i, j} : \A n \in DOMAIN frame.people \ {k} :
           \/ frame.people[n].size < frame.people[k].size
           \/ frame.people[n].size = frame.people[k].size /\ k < n
    BY <2>1 DEF T!Largest
  <2> QED
    BY <1>1, <1>2, <2>2
<1>5. CASE frame.operator = None /\ tracker.anchor # None
  <2>1. tracker.anchor \in People
    BY <1>5 DEF Trackers
  <2>2. ASSUME NEW k \in DOMAIN frame.people
        PROVE  T!Cost(tracker.anchor, frame.people[k]) \in Int
    <3>1. frame.people[k] \in People
      BY PeopleAreTyped
    <3>2. tracker.anchor.place \in Int /\ frame.people[k].place \in Int
      BY <2>1, <3>1 DEF People
    <3> QED
      BY <3>2 DEF T!Cost, T!Abs
  <2>3. config.margin \in Nat \ {0}
    BY DEF TrackingConfigs
  <2>4. T!Closest(tracker.anchor, frame.people, i, config)
        /\ T!Closest(tracker.anchor, frame.people, j, config)
    BY <1>5 DEF T!Chosen
  <2>5. \A x \in {i, j} : \A k \in DOMAIN frame.people \ {x} :
           T!Cost(tracker.anchor, frame.people[k]) - T!Cost(tracker.anchor, frame.people[x])
               >= config.margin
    BY <2>4 DEF T!Closest
  <2>6. PICK x \in Int : x = T!Cost(tracker.anchor, frame.people[i])
    BY <2>2
  <2>7. PICK y \in Int : y = T!Cost(tracker.anchor, frame.people[j])
    BY <2>2
  <2>8. i # j => y - x >= config.margin /\ x - y >= config.margin
    BY <2>5, <2>6, <2>7
  <2> QED
    BY <2>3, <2>8
<1> QED
  BY <1>3, <1>4, <1>5

Noting(tracker, t) == [anchor |-> tracker.anchor, anchorTime |-> tracker.anchorTime,
                       trusted |-> tracker.trusted, last |-> t]

LEMMA NotingIs ==
    ASSUME NEW tracker \in Trackers, NEW t \in Int
    PROVE  /\ [tracker EXCEPT !.last = t] = Noting(tracker, t)
           /\ (tracker.last # None => tracker.last <= t) => Noting(tracker, t) \in Trackers
<1>1. tracker \in [anchor : People \cup {None}, anchorTime : Int \cup {None},
                  trusted : People \cup {None}, last : Int \cup {None}]
  BY DEF Trackers
<1>2. [tracker EXCEPT !.last = t] = Noting(tracker, t)
  BY <1>1 DEF Noting
<1>3. ASSUME tracker.last # None => tracker.last <= t PROVE Noting(tracker, t) \in Trackers
  <2>1. ASSUME tracker.anchor # None
        PROVE  tracker.anchorTime \in Int /\ tracker.anchorTime <= t
    <3>1. tracker.anchorTime \in Int /\ tracker.last \in Int /\ tracker.anchorTime <= tracker.last
      BY <2>1 DEF Trackers
    <3>2. tracker.last # None
      BY <3>1, InputAssumption
    <3> QED
      BY <1>3, <3>1, <3>2
  <2> QED
    BY <1>1, <2>1 DEF Noting, Trackers
<1> QED
  BY <1>2, <1>3

\* The three outcomes of a call: it raises, selects nobody, or selects a person who
\* was chosen.
LEMMA ObserveIs ==
    ASSUME NEW tracker \in Trackers, NEW frame \in Frames, NEW config \in TrackingConfigs,
           NEW r, r = T!Observe(tracker, frame, config)
    PROVE  \/ /\ tracker.last # None /\ frame.t < tracker.last
              /\ r = [tracker |-> tracker, person |-> None, wrists |-> {}]
           \/ /\ ~(tracker.last # None /\ frame.t < tracker.last)
              /\ r = [tracker |-> Noting(tracker, frame.t), person |-> None, wrists |-> {}]
           \/ /\ ~(tracker.last # None /\ frame.t < tracker.last)
              /\ \E n \in DOMAIN frame.people :
                   /\ n \in T!Chosen(tracker, frame, config)
                   /\ r = [tracker |-> [anchor |-> frame.people[n], anchorTime |-> frame.t,
                                        trusted |-> T!Trusted(tracker, frame.people[n], config),
                                        last |-> frame.t],
                           person |-> frame.people[n],
                           wrists |-> T!Published(tracker, frame.people[n], config)]
<1> DEFINE chosen == T!Chosen(tracker, frame, config)
           late == tracker.last # None /\ frame.t < tracker.last
           nobody == [tracker |-> [tracker EXCEPT !.last = frame.t], person |-> None, wrists |-> {}]
           n == CHOOSE i \in chosen : TRUE
           found == [tracker |-> [anchor |-> frame.people[n], anchorTime |-> frame.t,
                                  trusted |-> T!Trusted(tracker, frame.people[n], config),
                                  last |-> frame.t],
                     person |-> frame.people[n],
                     wrists |-> T!Published(tracker, frame.people[n], config)]
<1>1. r = IF late THEN [nobody EXCEPT !.tracker = tracker]
          ELSE IF chosen \cap DOMAIN frame.people = {} THEN nobody
          ELSE found
  BY Zenon DEF T!Observe
<1>0. frame.t \in Int
  BY PeopleAreTyped
<1>2. [nobody EXCEPT !.tracker = tracker] = [tracker |-> tracker, person |-> None, wrists |-> {}]
  OBVIOUS
<1>3. ASSUME chosen \cap DOMAIN frame.people # {} PROVE n \in chosen /\ n \in DOMAIN frame.people
  <2>1. frame.operator # None => chosen = {frame.operator}
    BY DEF T!Chosen
  <2>2. frame.operator = None => chosen \subseteq DOMAIN frame.people
    BY DEF T!Chosen
  <2>3. n \in chosen
    <3> HIDE DEF chosen
    <3> QED
      BY <1>3
  <2> HIDE DEF chosen, n
  <2> QED
    BY <1>3, <2>1, <2>2, <2>3
<1> HIDE DEF chosen, late, n, nobody, found
<1>4. CASE late
  BY <1>1, <1>2, <1>4 DEF late
<1>5. CASE ~late /\ chosen \cap DOMAIN frame.people = {}
  BY <1>0, <1>1, <1>5, NotingIs DEF late, nobody
<1>6. CASE ~late /\ chosen \cap DOMAIN frame.people # {}
  BY <1>1, <1>3, <1>6 DEF late, found, chosen
<1> QED
  BY <1>4, <1>5, <1>6

LEMMA ObserveIsTyped ==
    ASSUME NEW tracker \in Trackers, NEW frame \in Frames, NEW config \in TrackingConfigs
    PROVE  T!Observe(tracker, frame, config) \in Outcomes
<1> DEFINE r == T!Observe(tracker, frame, config)
<1> SUFFICES r \in Outcomes
  OBVIOUS
<1> HIDE DEF r
<1>1. frame.t \in Int
  BY PeopleAreTyped
<1>2. CASE r = [tracker |-> tracker, person |-> None, wrists |-> {}]
  BY <1>2 DEF Outcomes
<1>3. CASE /\ ~(tracker.last # None /\ frame.t < tracker.last)
           /\ r = [tracker |-> Noting(tracker, frame.t), person |-> None, wrists |-> {}]
  <2>1. tracker.last # None => tracker.last <= frame.t
    BY <1>1, <1>3 DEF Trackers
  <2>2. Noting(tracker, frame.t) \in Trackers
    BY <1>1, <2>1, NotingIs
  <2> QED
    BY <1>3, <2>2 DEF Outcomes
<1>4. ASSUME NEW n \in DOMAIN frame.people,
             r = [tracker |-> [anchor |-> frame.people[n], anchorTime |-> frame.t,
                               trusted |-> T!Trusted(tracker, frame.people[n], config),
                               last |-> frame.t],
                  person |-> frame.people[n],
                  wrists |-> T!Published(tracker, frame.people[n], config)]
      PROVE  r \in Outcomes
  <2>1. frame.people[n] \in People
    BY PeopleAreTyped
  <2>2. T!Published(tracker, frame.people[n], config) \in SUBSET T!Sides
    BY <2>1 DEF T!Published, People
  <2>3. T!Trusted(tracker, frame.people[n], config) \in People \cup {None}
    BY <2>1 DEF T!Trusted, Trackers
  <2>4. r.tracker \in Trackers
    BY <1>1, <1>4, <2>1, <2>3 DEF Trackers
  <2> QED
    BY <1>4, <2>1, <2>2, <2>4 DEF Outcomes
<1> QED
  BY <1>2, <1>3, <1>4, ObserveIs DEF r

\* A run is what observing the frames one after the other makes of it.
LEMMA RunUnfolds ==
    ASSUME NEW frames \in Videos, NEW config \in TrackingConfigs
    PROVE  LET o == T!Run(frames, config) IN
           /\ o \in [0..Len(frames) -> Outcomes]
           /\ o[0].tracker = T!Fresh
           /\ \A i \in 1..Len(frames) : o[i] = T!Observe(o[i - 1].tracker, frames[i], config)
<1> DEFINE n == Len(frames)
           first == [tracker |-> T!Fresh, person |-> None, wrists |-> {}]
           step == [x \in (1..n) \X Outcomes |-> T!Observe(x[2].tracker, frames[x[1]], config)]
           Body(o) == [i \in 0..n |-> IF i = 0 THEN first
                                      ELSE T!Observe(o[i - 1].tracker, frames[i], config)]
<1>0. n \in Nat
  BY DEF Videos
<1>1. first \in Outcomes
  BY DEF Outcomes, Trackers, T!Fresh
<1>2. ASSUME NEW i \in 1..n, NEW o \in Outcomes
      PROVE  T!Observe(o.tracker, frames[i], config) \in Outcomes
  <2>1. o.tracker \in Trackers /\ frames[i] \in Frames
    <3>1. o.tracker \in Trackers
      BY DEF Outcomes
    <3>2. frames[i] \in Frames
      BY ElementsAreTyped DEF Videos
    <3> QED
      BY <3>1, <3>2
  <2> QED
    BY <2>1, ObserveIsTyped
<1>3. step \in [(1..n) \X Outcomes -> Outcomes]
  BY <1>2
<1>4. IsComputed(Outcomes, first, n, step)
  <2> HIDE DEF n, first, step
  <2> QED
    BY <1>0, <1>1, <1>3, Recursion
<1>5. PICK h \in [0..n -> Outcomes] : h[0] = first /\ \A i \in 1..n : h[i] = step[<<i, h[i - 1]>>]
  BY <1>4 DEF IsComputed
<1>6. ASSUME NEW i \in 1..n PROVE h[i] = T!Observe(h[i - 1].tracker, frames[i], config)
  <2>1. h[i - 1] \in Outcomes
    BY <1>0, <1>5
  <2> QED
    BY <2>1, <1>5
<1>7. h = Body(h)
  <2> HIDE DEF n, first
  <2> QED
    BY <1>0, <1>5, <1>6
<1>8. T!Run(frames, config) = CHOOSE o : o = Body(o)
  BY DEF T!Run
<1> DEFINE o == T!Run(frames, config)
<1>9. o = Body(o)
  <2> HIDE DEF Body, o
  <2> QED
    BY <1>7, <1>8 DEF o
<1> HIDE DEF o
<1>10. DOMAIN o = 0..n /\ o[0] = first
  BY <1>9, <1>0
<1>11. \A i \in 1..n : o[i] = T!Observe(o[i - 1].tracker, frames[i], config)
  BY <1>9, <1>0
<1>12. 0..n \subseteq {i \in 0..n : o[i] \in Outcomes}
  <2> DEFINE S == {i \in 0..n : o[i] \in Outcomes}
  <2>1. 0 \in S
    <3> HIDE DEF n, first
    <3>1. 0 \in 0..n
      BY <1>0
    <3> QED
      BY <3>1, <1>1, <1>10
  <2>2. ASSUME NEW i \in 0..n, i \in S, i < n PROVE i + 1 \in S
    <3>1. i + 1 \in 1..n /\ (i + 1) - 1 = i
      BY <1>0, <2>2
    <3>2. o[i + 1] = T!Observe(o[i].tracker, frames[i + 1], config)
      BY <3>1, <1>11
    <3> QED
      BY <3>1, <3>2, <1>2, <2>2
  <2> HIDE DEF S
  <2>3. 0..n \subseteq S
    BY <1>0, <2>1, <2>2, SampleInduction
  <2> QED
    BY <2>3 DEF S
<1>13. o \in [0..n -> Outcomes]
  <2>1. o = [i \in 0..n |-> o[i]]
    <3> HIDE DEF n, first
    <3> QED
    BY <1>9
  <2> QED
    BY <2>1, <1>12
<1> QED
  BY <1>10, <1>11, <1>13 DEF o

\* What a frame leaves in the tracker, by whom it selects and publishes.
LEMMA ObserveKeeps ==
    ASSUME NEW tracker \in Trackers, NEW frame \in Frames, NEW config \in TrackingConfigs,
           None \notin People, NEW r, r = T!Observe(tracker, frame, config)
    PROVE  /\ r.person = None =>
                /\ r.tracker.anchor = tracker.anchor
                /\ r.tracker.anchorTime = tracker.anchorTime
                /\ r.tracker.trusted = tracker.trusted
                /\ r.wrists = {}
           /\ r.person # None =>
                /\ r.person \in People
                /\ r.tracker.anchor = r.person /\ r.tracker.anchorTime = frame.t
                /\ r.tracker.trusted = T!Trusted(tracker, r.person, config)
                /\ r.wrists = T!Published(tracker, r.person, config)
                /\ tracker.anchor # None =>
                     /\ tracker.anchorTime <= frame.t
                     /\ frame.operator = None =>
                          /\ ~(frame.t - tracker.anchorTime > config.gap)
                          /\ \E n \in DOMAIN frame.people :
                               /\ frame.people[n] = r.person
                               /\ T!Closest(tracker.anchor, frame.people, n, config)
<1>1. CASE r.person = None
  <2>1. \/ r = [tracker |-> tracker, person |-> None, wrists |-> {}]
        \/ r = [tracker |-> Noting(tracker, frame.t), person |-> None, wrists |-> {}]
    BY <1>1, ObserveIs, PeopleAreTyped
  <2> QED
    BY <1>1, <2>1 DEF Noting
<1>2. CASE r.person # None
  <2>1. /\ ~(tracker.last # None /\ frame.t < tracker.last)
        /\ \E n \in DOMAIN frame.people :
             /\ n \in T!Chosen(tracker, frame, config)
             /\ r = [tracker |-> [anchor |-> frame.people[n], anchorTime |-> frame.t,
                                  trusted |-> T!Trusted(tracker, frame.people[n], config),
                                  last |-> frame.t],
                     person |-> frame.people[n],
                     wrists |-> T!Published(tracker, frame.people[n], config)]
    BY <1>2, ObserveIs
  <2>2. PICK n \in DOMAIN frame.people :
             /\ n \in T!Chosen(tracker, frame, config)
             /\ r = [tracker |-> [anchor |-> frame.people[n], anchorTime |-> frame.t,
                                  trusted |-> T!Trusted(tracker, frame.people[n], config),
                                  last |-> frame.t],
                     person |-> frame.people[n],
                     wrists |-> T!Published(tracker, frame.people[n], config)]
    BY <2>1
  <2>3. frame.people[n] \in People /\ frame.t \in Int
    BY PeopleAreTyped
  <2>4. ASSUME tracker.anchor # None
        PROVE  /\ tracker.anchorTime <= frame.t
               /\ frame.operator = None =>
                    /\ ~(frame.t - tracker.anchorTime > config.gap)
                    /\ T!Closest(tracker.anchor, frame.people, n, config)
    <3>1. tracker.anchorTime \in Int /\ tracker.last \in Int /\ tracker.anchorTime <= tracker.last
      BY <2>4 DEF Trackers
    <3>2. tracker.last # None
      BY <3>1, InputAssumption
    <3>3. tracker.anchorTime <= frame.t
      BY <2>1, <2>3, <3>1, <3>2
    <3>4. frame.operator = None =>
                    /\ ~(frame.t - tracker.anchorTime > config.gap)
                    /\ T!Closest(tracker.anchor, frame.people, n, config)
      BY <2>2, <2>4 DEF T!Chosen
    <3> QED
      BY <3>3, <3>4
  <2>5. r.person = frame.people[n] /\ r.tracker.anchor = frame.people[n]
        /\ r.tracker.anchorTime = frame.t
        /\ r.tracker.trusted = T!Trusted(tracker, frame.people[n], config)
        /\ r.wrists = T!Published(tracker, frame.people[n], config)
    BY <2>2
  <2> QED
    BY <1>2, <2>3, <2>4, <2>5
<1> QED
  BY <1>1, <1>2

\* Whoever the tracker follows after frame i, it follows until it selects again;
\* the wrists it trusts, until it publishes two again.
LEMMA TrackerRemembers ==
    ASSUME NEW frames \in Videos, NEW config \in TrackingConfigs, None \notin People,
           NEW o, o = T!Run(frames, config), NEW i \in 1..Len(frames), NEW j \in i..Len(frames)
    PROVE  /\ (\A k \in (i + 1)..j : o[k].person = None) =>
                /\ o[j].tracker.anchor = o[i].tracker.anchor
                /\ o[j].tracker.anchorTime = o[i].tracker.anchorTime
           /\ (\A k \in (i + 1)..j : o[k].wrists # T!Sides) =>
                o[j].tracker.trusted = o[i].tracker.trusted
<1>1. Len(frames) \in Nat
  BY ElementsAreTyped DEF Videos
<1>2. ASSUME NEW k \in i..j, k < j
      PROVE  /\ k + 1 \in 1..Len(frames) /\ (k + 1) - 1 = k /\ frames[k + 1] \in Frames
             /\ o[k].tracker \in Trackers
             /\ o[k + 1] = T!Observe(o[k].tracker, frames[k + 1], config)
  <2>1. k \in 0..Len(frames) /\ k + 1 \in 1..Len(frames) /\ (k + 1) - 1 = k
    BY <1>1, <1>2
  <2>2. frames[k + 1] \in Frames
    BY <2>1, ElementsAreTyped DEF Videos
  <2>3. o[k] \in Outcomes
    BY <2>1, RunUnfolds
  <2> QED
    BY <2>1, <2>2, <2>3, RunUnfolds DEF Outcomes
<1>3. ASSUME \A k \in (i + 1)..j : o[k].person = None
      PROVE  /\ o[j].tracker.anchor = o[i].tracker.anchor
             /\ o[j].tracker.anchorTime = o[i].tracker.anchorTime
  <2> DEFINE S == {k \in i..j : /\ o[k].tracker.anchor = o[i].tracker.anchor
                                /\ o[k].tracker.anchorTime = o[i].tracker.anchorTime}
  <2>1. i \in S /\ i \in Nat /\ j \in Nat
    BY <1>1
  <2>2. ASSUME NEW k \in i..j, k \in S, k < j PROVE k + 1 \in S
    <3>1. o[k + 1].person = None /\ k + 1 \in i..j
      BY <1>3, <2>2, <1>1
    <3> QED
      BY <3>1, <1>2, <2>2, ObserveKeeps
  <2> HIDE DEF S
  <2>3. i..j \subseteq S
    BY <2>1, <2>2, SampleInduction
  <2>4. j \in S
    BY <2>3, <2>1
  <2> QED
    BY <2>4 DEF S
<1>4. ASSUME \A k \in (i + 1)..j : o[k].wrists # T!Sides
      PROVE  o[j].tracker.trusted = o[i].tracker.trusted
  <2> DEFINE S == {k \in i..j : o[k].tracker.trusted = o[i].tracker.trusted}
  <2>1. i \in S /\ i \in Nat /\ j \in Nat
    BY <1>1
  <2>2. ASSUME NEW k \in i..j, k \in S, k < j PROVE k + 1 \in S
    <3>1. o[k + 1].wrists # T!Sides /\ k + 1 \in i..j
      BY <1>4, <2>2, <1>1
    <3>2. o[k + 1].tracker.trusted = o[k].tracker.trusted
      <4>1. CASE o[k + 1].person = None
        BY <4>1, <1>2, <2>2, ObserveKeeps
      <4>2. CASE o[k + 1].person # None
        <5>1. T!Published(o[k].tracker, o[k + 1].person, config) # T!Sides
          BY <4>2, <3>1, <1>2, <2>2, ObserveKeeps
        <5> QED
          BY <4>2, <5>1, <1>2, <2>2, ObserveKeeps DEF T!Trusted
      <4> QED
        BY <4>1, <4>2
    <3> QED
      BY <3>1, <3>2, <2>2
  <2> HIDE DEF S
  <2>3. i..j \subseteq S
    BY <2>1, <2>2, SampleInduction
  <2>4. j \in S
    BY <2>3, <2>1
  <2> QED
    BY <2>4 DEF S
<1> QED
  BY <1>3, <1>4

\* In a video of any length, with any people in its frames and any configuration:
\* consecutive frames that publish both wrists have them crossed only if some were
\* too faint to be compared and the configuration publishes as faint ones; without
\* an operator, the practitioner goes on from their last selection
\* (pose/stream.py).
LEMMA SidesAreKeptApart ==
    ASSUME NEW frames \in Videos, NEW config \in TrackingConfigs, None \notin People
    PROVE  T!SidesNeverCross(frames, config)
<1> DEFINE o == T!Run(frames, config)
           Both == {i \in DOMAIN frames : o[i].wrists = T!Sides}
           Seen == {i \in DOMAIN frames : o[i].person # None}
<1>1. Len(frames) \in Nat /\ DOMAIN frames = 1..Len(frames)
  BY ElementsAreTyped DEF Videos
<1>2. ASSUME NEW i \in DOMAIN frames
      PROVE  /\ frames[i] \in Frames /\ o[i - 1].tracker \in Trackers
             /\ o[i] = T!Observe(o[i - 1].tracker, frames[i], config)
  <2>1. i \in 1..Len(frames) /\ i - 1 \in 0..Len(frames)
    BY <1>1
  <2>2. frames[i] \in Frames
    BY ElementsAreTyped DEF Videos
  <2>3. o[i - 1] \in Outcomes
    BY <2>1, RunUnfolds
  <2> QED
    BY <2>1, <2>2, <2>3, RunUnfolds DEF Outcomes
<1> HIDE DEF o
<1>3. ASSUME NEW i \in Both
      PROVE  /\ o[i].person \in People
             /\ o[i].tracker.trusted = o[i].person
             /\ ~T!Ambiguous(o[i - 1].tracker, o[i].person)
             /\ \A s \in T!Sides : o[i].person.score[s] >= config.score
  <2>1. o[i].wrists # {}
    BY DEF T!Sides
  <2>2. o[i].person # None
    BY <2>1, <1>2, ObserveKeeps
  <2>3. /\ o[i].person \in People
        /\ o[i].tracker.trusted = T!Trusted(o[i - 1].tracker, o[i].person, config)
        /\ o[i].wrists = T!Published(o[i - 1].tracker, o[i].person, config)
    BY <2>2, <1>2, ObserveKeeps
  <2>4. T!Published(o[i - 1].tracker, o[i].person, config) = T!Sides
    BY <2>3
  <2> QED
    BY <2>1, <2>3, <2>4 DEF T!Trusted, T!Published
<1>4. ASSUME NEW i \in Both, NEW j \in Both, i < j, \A k \in Both : k <= i \/ k >= j,
             T!Crossed(o[i].person, o[j].person)
      PROVE  /\ config.score < T!Least
             /\ ~T!Compared(o[i].person) \/ ~T!Compared(o[j].person)
  <2>1. i \in 1..Len(frames) /\ j - 1 \in i..Len(frames) /\ j \in Int
    BY <1>1, <1>4
  <2>2. \A k \in (i + 1)..(j - 1) : o[k].wrists # T!Sides
    <3>1. SUFFICES ASSUME NEW k \in (i + 1)..(j - 1), o[k].wrists = T!Sides PROVE FALSE
      OBVIOUS
    <3>2. k \in DOMAIN frames /\ ~(k <= i) /\ ~(k >= j)
      BY <2>1, <1>1
    <3> QED
      BY <3>1, <3>2, <1>4
  <2>3. o[j - 1].tracker.trusted = o[i].tracker.trusted
    <3>1. \A m : m = o => m = T!Run(frames, config)
      BY DEF o
    <3> HIDE DEF Both, Seen
    <3> QED
      BY <2>1, <2>2, <3>1, TrackerRemembers
  <2>4. o[j - 1].tracker.trusted = o[i].person /\ o[i].person # None
    BY <2>3, <1>3
  <2>5. ~T!Compared(o[i].person) \/ ~T!Compared(o[j].person)
    BY <2>4, <1>3, <1>4 DEF T!Ambiguous
  <2>6. ASSUME NEW person \in People, ~T!Compared(person),
               \A s \in T!Sides : person.score[s] >= config.score
        PROVE  config.score < T!Least
    <3>1. PICK s \in T!Sides : ~(person.score[s] >= T!Least)
      BY <2>6 DEF T!Compared
    <3>2. person.score[s] \in Int /\ config.score \in Int
      BY DEF People, TrackingConfigs
    <3>3. person.score[s] >= config.score
      BY <2>6
    <3> QED
      BY <3>1, <3>2, <3>3 DEF T!Least
  <2> QED
    BY <2>5, <2>6, <1>3
<1>5. ASSUME NEW i \in Seen, NEW j \in Seen, i < j, \A k \in Seen : k <= i \/ k >= j
      PROVE  /\ frames[i].t <= frames[j].t
             /\ frames[j].operator = None =>
                  /\ frames[j].t - frames[i].t <= config.gap
                  /\ \E n \in DOMAIN frames[j].people :
                       /\ frames[j].people[n] = o[j].person
                       /\ T!Closest(o[i].person, frames[j].people, n, config)
  <2>1. i \in 1..Len(frames) /\ j - 1 \in i..Len(frames) /\ j \in Int
    BY <1>1, <1>5
  <2>2. \A k \in (i + 1)..(j - 1) : o[k].person = None
    <3>1. SUFFICES ASSUME NEW k \in (i + 1)..(j - 1), o[k].person # None PROVE FALSE
      OBVIOUS
    <3>2. k \in DOMAIN frames /\ ~(k <= i) /\ ~(k >= j)
      BY <2>1, <1>1
    <3> QED
      BY <3>1, <3>2, <1>5
  <2>3. /\ o[i].tracker.anchor = o[i].person /\ o[i].person # None
        /\ o[i].tracker.anchorTime = frames[i].t
    BY <1>2, ObserveKeeps
  <2>4. /\ o[j - 1].tracker.anchor = o[i].person
        /\ o[j - 1].tracker.anchorTime = frames[i].t
    BY <2>1, <2>2, <2>3, TrackerRemembers DEF o
  <2>5. /\ frames[i].t <= frames[j].t
        /\ frames[j].operator = None =>
             /\ ~(frames[j].t - frames[i].t > config.gap)
             /\ \E n \in DOMAIN frames[j].people :
                  /\ frames[j].people[n] = o[j].person
                  /\ T!Closest(o[i].person, frames[j].people, n, config)
    <3>1. o[j].person # None /\ o[j - 1].tracker.anchor # None
      BY <2>3, <2>4
    <3> QED
      BY <2>4, <3>1, <1>2, ObserveKeeps
  <2>6. frames[i].t \in Int /\ frames[j].t \in Int /\ config.gap \in Int
    BY <1>2 DEF Frames, TrackingConfigs
  <2>7. frames[j].operator = None => frames[j].t - frames[i].t <= config.gap
    BY <2>5, <2>6
  <2> QED
    BY <2>5, <2>7
<1> QED
  BY <1>4, <1>5 DEF T!SidesNeverCross, o
-----------------------------------------------------------------------------
(***************************************************************************)
(* A foot.                                                                 *)
(***************************************************************************)

LEMMA RowsAreTyped ==
    ASSUME NEW rows \in Motions
    PROVE  /\ Len(rows) \in Nat /\ DOMAIN rows = 1..Len(rows)
           /\ \A i \in DOMAIN rows :
                /\ rows[i].t \in Int /\ rows[i].yaw \in Int /\ rows[i].source \in Evidence
                /\ rows[i].blur \in Nat
                /\ \A p \in F!Parts : rows[i].height[p] \in Int \cup {None}
           /\ \A i \in 2..Len(rows) : rows[i - 1].t < rows[i].t
<1>1. rows \in Seq(Samples) /\ \A i \in 2..Len(rows) : rows[i - 1].t < rows[i].t
  BY DEF Motions, InOrder
<1>2. Len(rows) \in Nat /\ DOMAIN rows = 1..Len(rows) /\ \A i \in DOMAIN rows : rows[i] \in Samples
  BY <1>1, ElementsAreTyped
<1>3. \A r \in Samples : /\ r.t \in Int /\ r.yaw \in Int /\ r.source \in Evidence
                         /\ r.blur \in Nat
                         /\ \A p \in F!Parts : r.height[p] \in Int \cup {None}
  BY DEF Samples
<1> QED
  BY <1>1, <1>2, <1>3

LEMMA ThresholdsAreTyped ==
    ASSUME NEW config \in FootConfigs
    PROVE  /\ config.gap \in Int /\ config.enter \in Int /\ config.leave \in Int
           /\ config.enterSpeed \in Int /\ config.leaveSpeed \in Int
           /\ config.contact \in Int /\ config.air \in Int
           /\ config.enterAngle \in Nat /\ config.leaveAngle \in Int /\ config.still \in Nat \ {0}
           /\ config.enterTurn \in Int /\ config.leaveTurn \in Int /\ config.quiet \in Int
           /\ config.enter <= config.leave /\ config.enterSpeed <= config.leaveSpeed
           /\ config.enterAngle <= config.leaveAngle /\ config.leaveTurn <= config.enterTurn
  BY DEF FootConfigs

LEMMA ProductGrows ==
    ASSUME NEW x \in Int, NEW y \in Int, NEW d \in Nat, x <= y
    PROVE  x * d <= y * d
  OBVIOUS

\* A stretch without a gap that the next row continues.
LEMMA JoinedGrows ==
    ASSUME NEW rows \in Motions, NEW config \in FootConfigs, NEW i \in 2..Len(rows),
           NEW j \in 1..(i - 1), F!Joined(rows, j, i - 1, config), ~F!Gap(rows, i, config)
    PROVE  F!Joined(rows, j, i, config)
<1>1. \A m \in DOMAIN rows : rows[m].t \in Int
  BY RowsAreTyped
<1>2. i \in DOMAIN rows /\ i - 1 \in DOMAIN rows /\ i > 1 /\ config.gap \in Int
  BY RowsAreTyped, ThresholdsAreTyped
<1>3. rows[i].t - rows[i - 1].t <= config.gap
  BY <1>1, <1>2 DEF F!Gap
<1>4. \A m \in (j + 1)..i : m \in (j + 1)..(i - 1) \/ m = i
  OBVIOUS
<1> QED
  BY <1>3, <1>4 DEF F!Joined

-----------------------------------------------------------------------------
(* Contact.                                                                *)

States == {"contact", "no_contact", "unknown"}

\* The two tests of a row.
Touches(rows, i, low, speed, config) ==
    \E p \in F!Measured(rows, i, config) :
        F!Abs(rows[i].height[p]) <= low /\ F!Slow(rows, i, p, speed, config)

Lifted(rows, i, high, config) ==
    F!Measured(rows, i, config) = F!Parts /\ \A p \in F!Parts : rows[i].height[p] > high

LEMMA CandidateIs ==
    ASSUME NEW rows, NEW i, NEW config
    PROVE  /\ F!Candidate(rows, i, "unknown", config) =
                IF Touches(rows, i, config.enter, config.enterSpeed, config) THEN "contact"
                ELSE IF Lifted(rows, i, config.leave, config) THEN "no_contact" ELSE "unknown"
           /\ F!Candidate(rows, i, "contact", config) =
                IF Touches(rows, i, config.leave, config.leaveSpeed, config) THEN "contact"
                ELSE IF Lifted(rows, i, config.leave, config) THEN "no_contact" ELSE "unknown"
           /\ F!Candidate(rows, i, "no_contact", config) =
                IF Touches(rows, i, config.enter, config.enterSpeed, config) THEN "contact"
                ELSE IF Lifted(rows, i, config.enter, config) THEN "no_contact" ELSE "unknown"
  BY Zenon DEF F!Candidate, Touches, Lifted

\* Hysteresis: what makes a state candidate against another one makes it so from
\* nothing, and what does so from nothing keeps it.
LEMMA EnteringKeeps ==
    ASSUME NEW rows \in Motions, NEW config \in FootConfigs, None \notin Int,
           NEW i \in DOMAIN rows, NEW stable \in States, NEW x \in States, x # "unknown"
    PROVE  /\ F!Candidate(rows, i, stable, config) = x /\ x # stable =>
                F!Candidate(rows, i, "unknown", config) = x
           /\ F!Candidate(rows, i, "unknown", config) = x => F!Candidate(rows, i, x, config) = x
<1>1. \A p \in F!Measured(rows, i, config) : p \in F!Parts /\ rows[i].height[p] \in Int
  BY RowsAreTyped DEF F!Measured
<1>2. Touches(rows, i, config.enter, config.enterSpeed, config) =>
        Touches(rows, i, config.leave, config.leaveSpeed, config)
  <2>1. SUFFICES ASSUME NEW p \in F!Measured(rows, i, config),
                        F!Abs(rows[i].height[p]) <= config.enter,
                        F!Slow(rows, i, p, config.enterSpeed, config)
                 PROVE  /\ F!Abs(rows[i].height[p]) <= config.leave
                        /\ F!Slow(rows, i, p, config.leaveSpeed, config)
    BY DEF Touches
  <2>2. F!Abs(rows[i].height[p]) <= config.leave
    BY <1>1, <2>1, ThresholdsAreTyped DEF F!Abs
  <2>3. i \in 2..Len(rows) /\ i - 1 \in DOMAIN rows /\ rows[i - 1].height[p] # None
    BY <2>1, RowsAreTyped DEF F!Slow
  <2>4. rows[i - 1].height[p] \in Int
    BY <1>1, <2>3, RowsAreTyped
  <2>5. rows[i].t - rows[i - 1].t \in Nat
    BY <2>3, RowsAreTyped
  <2>6. config.enterSpeed * (rows[i].t - rows[i - 1].t) <= config.leaveSpeed * (rows[i].t - rows[i - 1].t)
    BY <2>5, ThresholdsAreTyped, ProductGrows
  <2>7. F!Abs(rows[i].height[p] - rows[i - 1].height[p]) \in Int
    BY <1>1, <2>4 DEF F!Abs
  <2>8. /\ config.enterSpeed * (rows[i].t - rows[i - 1].t) \in Int
        /\ config.leaveSpeed * (rows[i].t - rows[i - 1].t) \in Int
    BY <2>5, ThresholdsAreTyped
  <2>9. F!Abs(rows[i].height[p] - rows[i - 1].height[p]) <= config.leaveSpeed * (rows[i].t - rows[i - 1].t)
    <3>1. F!Abs(rows[i].height[p] - rows[i - 1].height[p]) <= config.enterSpeed * (rows[i].t - rows[i - 1].t)
      BY <2>1 DEF F!Slow
    <3> DEFINE a == F!Abs(rows[i].height[p] - rows[i - 1].height[p])
               b == config.enterSpeed * (rows[i].t - rows[i - 1].t)
               c == config.leaveSpeed * (rows[i].t - rows[i - 1].t)
    <3> HIDE DEF a, b, c
    <3>2. a \in Int /\ b \in Int /\ c \in Int /\ a <= b /\ b <= c
      BY <3>1, <2>6, <2>7, <2>8 DEF a, b, c
    <3>3. a <= c
      BY <3>2
    <3> QED
      BY <3>3 DEF a, c
  <2> QED
    BY <2>1, <2>2, <2>9 DEF F!Slow
<1>3. Lifted(rows, i, config.leave, config) =>
        /\ Lifted(rows, i, config.enter, config)
        /\ \A speed : ~Touches(rows, i, config.enter, speed, config)
  BY <1>1, ThresholdsAreTyped DEF Lifted, Touches, F!Abs
<1>4. CASE x = "contact"
  BY <1>2, <1>4, CandidateIs DEF States
<1>5. CASE x = "no_contact"
  BY <1>2, <1>3, <1>5, CandidateIs DEF States
<1> QED
  BY <1>4, <1>5 DEF States

LEMMA CandidateIsTyped ==
    ASSUME NEW rows, NEW i, NEW config, NEW stable \in States
    PROVE  F!Candidate(rows, i, stable, config) \in States
  BY CandidateIs DEF States
Contacts == [stable : States, pending : States, since : Int, state : States]

\* For as long as it takes, up to row k, rows spoke for x on new evidence.
Spoke(rows, j, k, x, config) ==
    \A n \in j..k : F!Candidate(rows, n, "unknown", config) = x /\ (n > j => ~F!Stale(rows, n))

Lasting(x, config) == IF x = "contact" THEN config.contact ELSE config.air

\* The evidence that ContactIsEarned asks for.
Earned(rows, contact, i, x, config) ==
    \E j \in 1..i : \E k \in j..i :
        /\ rows[k].t - rows[j].t >= Lasting(x, config)
        /\ F!Joined(rows, j, i, config)
        /\ Spoke(rows, j, k, x, config)
        /\ \A n \in k..i : contact[n] \in {x, "unknown"} /\ F!Candidate(rows, n, x, config) # "unknown"

\* Rows have spoken for x since a time, without a gap.
Pends(rows, i, x, since, config) ==
    \E j \in 1..i :
        since = rows[j].t /\ F!Joined(rows, j, i, config) /\ Spoke(rows, j, i, x, config)

\* What the automaton remembers after row i.
ContactIsSound(rows, contact, i, s, config) ==
    /\ s.state \in {"unknown", s.stable}
    /\ s.stable # "unknown" => Earned(rows, contact, i, s.stable, config)
    /\ s.pending # "unknown" => Pends(rows, i, s.pending, s.since, config)

LEMMA FeltIsTyped ==
    ASSUME NEW rows \in Motions, NEW config, NEW i \in DOMAIN rows, NEW s \in Contacts
    PROVE  F!Felt(s, rows, i, config) \in Contacts
<1> DEFINE was == IF F!Gap(rows, i, config) THEN F!Forgotten ELSE s
           seen == F!Candidate(rows, i, was.stable, config)
           since == IF was.pending = seen THEN was.since ELSE rows[i].t
<1>1. F!Forgotten \in Contacts
  BY DEF F!Forgotten, Contacts, States
<1>2. was \in Contacts
  BY <1>1
<1> HIDE DEF was
<1>3. was.stable \in States /\ was.since \in Int
  BY <1>2 DEF Contacts
<1>4. seen \in States
  BY <1>3, CandidateIsTyped
<1>5. since \in Int
  BY <1>3, RowsAreTyped
<1> HIDE DEF seen, since
<1>6. "unknown" \in States
  BY DEF States
<1>7. [was EXCEPT !.pending = "unknown", !.state = seen] \in Contacts
  BY <1>2, <1>4, <1>6 DEF Contacts
<1>8. [was EXCEPT !.pending = "unknown", !.state = "unknown"] \in Contacts
  BY <1>2, <1>6 DEF Contacts
<1>9. [stable |-> seen, pending |-> "unknown", since |-> 0, state |-> seen] \in Contacts
  BY <1>4, <1>6 DEF Contacts
<1>10. [was EXCEPT !.pending = seen, !.since = since, !.state = "unknown"] \in Contacts
  BY <1>2, <1>4, <1>5, <1>6 DEF Contacts
<1> QED
  BY <1>1, <1>7, <1>8, <1>9, <1>10, Zenon DEF F!Felt, was, seen, since

LEMMA EarnedStays ==
    ASSUME NEW rows \in Motions, NEW config \in FootConfigs, NEW contact,
           NEW i \in 2..Len(rows), NEW x, Earned(rows, contact, i - 1, x, config),
           ~F!Gap(rows, i, config), contact[i] \in {x, "unknown"},
           F!Candidate(rows, i, x, config) # "unknown"
    PROVE  Earned(rows, contact, i, x, config)
<1>1. PICK j \in 1..(i - 1) : \E k \in j..(i - 1) :
        /\ rows[k].t - rows[j].t >= Lasting(x, config)
        /\ F!Joined(rows, j, i - 1, config)
        /\ Spoke(rows, j, k, x, config)
        /\ \A n \in k..(i - 1) : contact[n] \in {x, "unknown"}
                              /\ F!Candidate(rows, n, x, config) # "unknown"
  BY DEF Earned
<1>2. PICK k \in j..(i - 1) :
        /\ rows[k].t - rows[j].t >= Lasting(x, config)
        /\ F!Joined(rows, j, i - 1, config)
        /\ Spoke(rows, j, k, x, config)
        /\ \A n \in k..(i - 1) : contact[n] \in {x, "unknown"}
                              /\ F!Candidate(rows, n, x, config) # "unknown"
  BY <1>1
<1>3. F!Joined(rows, j, i, config)
  BY <1>2, JoinedGrows
<1>4. \A n \in k..i : n \in k..(i - 1) \/ n = i
  BY <1>2
<1>5. j \in 1..i /\ k \in j..i
  BY <1>2
<1>6. \A n \in k..i : contact[n] \in {x, "unknown"} /\ F!Candidate(rows, n, x, config) # "unknown"
  BY <1>2, <1>4
<1> QED
  BY <1>2, <1>3, <1>5, <1>6 DEF Earned

LEMMA JoinedAlone ==
    ASSUME NEW rows, NEW config, NEW i \in Nat
    PROVE  F!Joined(rows, i, i, config)
  BY DEF F!Joined

LEMMA FeltKeeps ==
    ASSUME NEW rows \in Motions, NEW config \in FootConfigs, None \notin Int,
           NEW contact, NEW i \in DOMAIN rows, NEW s \in Contacts,
           ContactIsSound(rows, contact, i - 1, s, config),
           NEW r, r = F!Felt(s, rows, i, config), contact[i] = r.state
    PROVE  ContactIsSound(rows, contact, i, r, config)
<1> DEFINE was == IF F!Gap(rows, i, config) THEN F!Forgotten ELSE s
           seen == F!Candidate(rows, i, was.stable, config)
           since == IF was.pending = seen THEN was.since ELSE rows[i].t
<1>0. i \in 1..Len(rows) /\ Len(rows) \in Nat
  BY RowsAreTyped
<1>1. was \in Contacts
  BY DEF F!Forgotten, Contacts, States
<1>2. ContactIsSound(rows, contact, i - 1, was, config)
  BY DEF ContactIsSound, F!Forgotten
<1>3. was.stable # "unknown" \/ was.pending # "unknown" => ~F!Gap(rows, i, config)
  BY DEF F!Forgotten
<1>4. r = IF seen = "unknown" THEN F!Forgotten
          ELSE IF seen = was.stable THEN [was EXCEPT !.pending = "unknown", !.state = seen]
          ELSE IF F!Stale(rows, i) /\ ~F!Gap(rows, i, config)
          THEN [was EXCEPT !.pending = "unknown", !.state = "unknown"]
          ELSE IF rows[i].t - since >= Lasting(seen, config)
          THEN [stable |-> seen, pending |-> "unknown", since |-> 0, state |-> seen]
          ELSE [was EXCEPT !.pending = seen, !.since = since, !.state = "unknown"]
  BY DEF F!Felt, Lasting
<1> HIDE DEF was
<1>5. was.stable \in States /\ was.pending \in States /\ was.state \in States /\ was.since \in Int
  BY <1>1 DEF Contacts
<1>6. seen \in States
  BY <1>5, CandidateIsTyped
<1>7. seen = F!Candidate(rows, i, was.stable, config)
  OBVIOUS
<1> HIDE DEF seen
\* What stays stable was earned already.
<1>8. ASSUME was.stable # "unknown", seen # "unknown", contact[i] \in {was.stable, "unknown"}
      PROVE  Earned(rows, contact, i, was.stable, config)
  <2>1. Earned(rows, contact, i - 1, was.stable, config)
    BY <1>2, <1>8 DEF ContactIsSound
  <2>2. i - 1 # 0
    BY <2>1 DEF Earned
  <2>3. i \in 2..Len(rows)
    BY <2>2, <1>0
  <2> QED
    BY <2>1, <2>3, <1>3, <1>7, <1>8, EarnedStays
\* Rows have spoken for what is seen since then.
<1>9. ASSUME seen # "unknown", seen # was.stable, ~(F!Stale(rows, i) /\ ~F!Gap(rows, i, config))
      PROVE  Pends(rows, i, seen, since, config)
  <2>1. F!Candidate(rows, i, "unknown", config) = seen
    BY <1>5, <1>6, <1>7, <1>9, EnteringKeeps
  <2>2. CASE was.pending = seen
    <3>1. Pends(rows, i - 1, seen, since, config) /\ ~F!Gap(rows, i, config) /\ ~F!Stale(rows, i)
      BY <2>2, <1>2, <1>3, <1>9 DEF ContactIsSound
    <3>2. PICK j \in 1..(i - 1) : since = rows[j].t /\ F!Joined(rows, j, i - 1, config)
                                   /\ Spoke(rows, j, i - 1, seen, config)
      BY <3>1 DEF Pends
    <3>3. i \in 2..Len(rows) /\ j \in 1..i
      BY <3>2, <1>0
    <3>4. F!Joined(rows, j, i, config)
      BY <3>1, <3>2, <3>3, JoinedGrows
    <3>5. \A n \in j..i : n \in j..(i - 1) \/ n = i
      BY <3>3
    <3>6. Spoke(rows, j, i, seen, config)
      BY <3>1, <3>2, <3>5, <2>1 DEF Spoke
    <3> QED
      BY <3>2, <3>3, <3>4, <3>6 DEF Pends
  <2>3. CASE was.pending # seen
    <3>1. since = rows[i].t /\ i \in 1..i /\ F!Joined(rows, i, i, config)
      BY <2>3, <1>0, JoinedAlone
    <3>2. Spoke(rows, i, i, seen, config)
      BY <1>0, <2>1 DEF Spoke
    <3> QED
      BY <3>1, <3>2 DEF Pends
  <2> QED
    BY <2>2, <2>3
<1> HIDE DEF since
<1>10. CASE seen = "unknown"
  BY <1>4, <1>10 DEF ContactIsSound, F!Forgotten
<1>11. CASE seen # "unknown" /\ seen = was.stable
  <2>1. r.state = seen /\ r.stable = seen /\ r.pending = "unknown"
    BY <1>1, <1>4, <1>11 DEF Contacts
  <2>2. Earned(rows, contact, i, seen, config)
    BY <2>1, <1>8, <1>11
  <2> QED
    BY <2>1, <2>2 DEF ContactIsSound
<1>12. CASE seen # "unknown" /\ seen # was.stable
  <2>1. CASE F!Stale(rows, i) /\ ~F!Gap(rows, i, config)
    <3>1. r.state = "unknown" /\ r.stable = was.stable /\ r.pending = "unknown"
      BY <1>1, <1>4, <1>12, <2>1 DEF Contacts
    <3>2. was.stable # "unknown" => Earned(rows, contact, i, was.stable, config)
      BY <3>1, <1>8, <1>12
    <3> QED
      BY <3>1, <3>2 DEF ContactIsSound
  <2>2. CASE ~(F!Stale(rows, i) /\ ~F!Gap(rows, i, config)) /\ rows[i].t - since >= Lasting(seen, config)
    <3>1. r.state = seen /\ r.stable = seen /\ r.pending = "unknown"
      BY <1>4, <1>12, <2>2
    <3>2. PICK j \in 1..i : since = rows[j].t /\ F!Joined(rows, j, i, config)
                             /\ Spoke(rows, j, i, seen, config)
      BY <1>9, <1>12, <2>2 DEF Pends
    <3>3. F!Candidate(rows, i, "unknown", config) = seen
      BY <3>2, <1>0 DEF Spoke
    <3>4. F!Candidate(rows, i, seen, config) # "unknown"
      BY <3>3, <1>6, <1>12, EnteringKeeps DEF States
    <3>5. i \in j..i /\ \A n \in i..i : n = i
      BY <3>2, <1>0
    <3>6. Earned(rows, contact, i, seen, config)
      BY <3>1, <3>2, <3>4, <3>5, <2>2 DEF Earned
    <3> QED
      BY <3>1, <3>6 DEF ContactIsSound
  <2>3. CASE ~(F!Stale(rows, i) /\ ~F!Gap(rows, i, config)) /\ ~(rows[i].t - since >= Lasting(seen, config))
    <3>1. r.state = "unknown" /\ r.stable = was.stable /\ r.pending = seen /\ r.since = since
      BY <1>1, <1>4, <1>12, <2>3 DEF Contacts
    <3>2. was.stable # "unknown" => Earned(rows, contact, i, was.stable, config)
      BY <3>1, <1>8, <1>12
    <3>3. Pends(rows, i, seen, since, config)
      BY <1>9, <1>12, <2>3
    <3> QED
      BY <3>1, <3>2, <3>3 DEF ContactIsSound
  <2> QED
    BY <2>1, <2>2, <2>3
<1> QED
  BY <1>10, <1>11, <1>12

\* Every row's contact is what the automaton makes of it.
LEMMA ContactsUnfold ==
    ASSUME NEW rows \in Motions, NEW config
    PROVE  \E c \in [0..Len(rows) -> Contacts] :
             /\ c[0] = F!Forgotten
             /\ \A i \in 1..Len(rows) : c[i] = F!Felt(c[i - 1], rows, i, config)
             /\ F!Contacts(rows, config) = [i \in DOMAIN rows |-> c[i].state]
<1> DEFINE n == Len(rows)
           first == F!Forgotten
           step == [x \in (1..n) \X Contacts |-> F!Felt(x[2], rows, x[1], config)]
           Body(c) == [i \in 0..n |-> IF i = 0 THEN first ELSE F!Felt(c[i - 1], rows, i, config)]
<1>0. n \in Nat /\ DOMAIN rows = 1..n
  BY RowsAreTyped
<1>1. first \in Contacts
  BY DEF F!Forgotten, Contacts, States
<1>2. \A i \in 1..n : \A s \in Contacts : F!Felt(s, rows, i, config) \in Contacts
  BY <1>0, FeltIsTyped
<1>3. step \in [(1..n) \X Contacts -> Contacts]
  BY <1>2
<1>4. IsComputed(Contacts, first, n, step)
  <2> HIDE DEF n, first, step
  <2> QED
    BY <1>0, <1>1, <1>3, Recursion
<1>5. PICK h \in [0..n -> Contacts] : h[0] = first /\ \A i \in 1..n : h[i] = step[<<i, h[i - 1]>>]
  BY <1>4 DEF IsComputed
<1>6. ASSUME NEW i \in 1..n PROVE h[i] = F!Felt(h[i - 1], rows, i, config)
  <2>1. h[i - 1] \in Contacts
    BY <1>0, <1>5
  <2> QED
    BY <2>1, <1>5
<1>7. h = Body(h)
  <2> HIDE DEF n, first
  <2> QED
    BY <1>0, <1>5, <1>6
<1> DEFINE c == CHOOSE c : c = Body(c)
<1>8. F!Contacts(rows, config) = [i \in DOMAIN rows |-> c[i].state]
  BY DEF F!Contacts
<1>9. c = Body(c)
  <2> HIDE DEF Body
  <2> QED
    BY <1>7
<1> HIDE DEF c
<1>10. DOMAIN c = 0..n /\ c[0] = first
  BY <1>9, <1>0
<1>11. \A i \in 1..n : c[i] = F!Felt(c[i - 1], rows, i, config)
  BY <1>9, <1>0
<1>12. ASSUME NEW i \in 0..n PROVE c[i] \in Contacts
  <2> DEFINE S == {m \in 0..n : c[m] \in Contacts}
  <2>1. 0 \in S
    <3> HIDE DEF n, first
    <3>1. 0 \in 0..n
      BY <1>0
    <3> QED
      BY <3>1, <1>1, <1>10
  <2>2. ASSUME NEW m \in 0..n, m \in S, m < n PROVE m + 1 \in S
    <3>1. m + 1 \in 1..n /\ (m + 1) - 1 = m
      BY <1>0, <2>2
    <3> QED
      BY <3>1, <1>11, <1>2, <2>2
  <2> HIDE DEF S
  <2>3. 0..n \subseteq S
    BY <1>0, <2>1, <2>2, SampleInduction
  <2> QED
    BY <2>3 DEF S
<1>13. c \in [0..n -> Contacts]
  <2>1. c = [i \in 0..n |-> c[i]]
    <3> HIDE DEF n, first
    <3> QED
      BY <1>9
  <2> HIDE DEF n
  <2> QED
    BY <2>1, <1>12
<1> QED
  BY <1>8, <1>10, <1>11, <1>13

LEMMA ContactIsAlwaysEarned ==
    ASSUME NEW rows \in Motions, NEW config \in FootConfigs, None \notin Int
    PROVE  F!ContactIsEarned(rows, F!Contacts(rows, config), config)
<1> DEFINE n == Len(rows)
           contact == F!Contacts(rows, config)
<1>0. n \in Nat /\ DOMAIN rows = 1..n
  BY RowsAreTyped
<1>1. PICK c \in [0..n -> Contacts] :
        /\ c[0] = F!Forgotten
        /\ \A i \in 1..n : c[i] = F!Felt(c[i - 1], rows, i, config)
        /\ contact = [i \in DOMAIN rows |-> c[i].state]
  BY ContactsUnfold
<1> HIDE DEF contact
<1> DEFINE S == {i \in 0..n : ContactIsSound(rows, contact, i, c[i], config)}
<1>2. 0 \in S
  BY <1>0, <1>1 DEF ContactIsSound, F!Forgotten
<1>3. ASSUME NEW i \in 0..n, i \in S, i < n PROVE i + 1 \in S
  <2>1. i + 1 \in 1..n /\ (i + 1) - 1 = i /\ i + 1 \in 0..n
    BY <1>0, <1>3
  <2>2. c[i] \in Contacts /\ ContactIsSound(rows, contact, i, c[i], config)
    BY <1>1, <1>3
  <2>3. c[i + 1] = F!Felt(c[i], rows, i + 1, config) /\ contact[i + 1] = c[i + 1].state
    BY <1>0, <1>1, <2>1
  <2>4. ContactIsSound(rows, contact, i + 1, c[i + 1], config)
    BY <1>0, <2>1, <2>2, <2>3, FeltKeeps
  <2> QED
    BY <2>1, <2>4
<1>4. 0..n \subseteq S
  <2> HIDE DEF S
  <2> QED
    BY <1>0, <1>2, <1>3, SampleInduction
<1>5. ASSUME NEW i \in DOMAIN rows, contact[i] # "unknown"
      PROVE  Earned(rows, contact, i, contact[i], config)
  <2>1. contact[i] = c[i].state /\ i \in 0..n
    BY <1>0, <1>1
  <2> QED
    BY <2>1, <1>4, <1>5 DEF ContactIsSound
<1>6. F!ContactIsEarned(rows, contact, config)
  BY <1>5, Zenon DEF F!ContactIsEarned, Earned, Spoke, Lasting
<1> QED
  BY <1>6 DEF contact
-----------------------------------------------------------------------------
(* Directions and runs of rows.                                            *)

\* A turn has two halves.
Halves == \E h \in Nat \ {0} : Turn = 2 * h

LEMMA WrapIsTyped ==
    ASSUME Halves
    PROVE  /\ Turn \div 2 \in Nat \ {0}
           /\ F!Wrap(0) = 0
           /\ \A x \in Int : F!Wrap(x) \in Int /\ F!Abs(F!Wrap(x)) \in Nat /\ F!Abs(F!Wrap(x)) <= Turn \div 2
<1>1. PICK h \in Nat \ {0} : Turn = 2 * h
  BY DEF Halves
<1>2. Turn \div 2 = h
  BY <1>1
<1>3. \A x \in Int : x % Turn \in 0..(Turn - 1)
  BY <1>1
<1>4. ASSUME NEW x \in Int PROVE F!Wrap(x) \in (-h)..(h - 1)
  <2>1. (x + 3 * h) % Turn \in 0..(2 * h - 1)
    BY <1>1, <1>3
  <2> QED
    BY <2>1, <1>2 DEF F!Wrap
<1>5. (0 + 3 * h) % Turn = h
  <2>1. 3 * h = Turn * 1 + h /\ h \in 0..(Turn - 1)
    BY <1>1
  <2> QED
    BY <1>1, <2>1
<1> QED
  BY <1>2, <1>4, <1>5 DEF F!Wrap, F!Abs

\* Rows a to b, one after the other.
RunOf(a, b) == [k \in 1..(b - a + 1) |-> a + k - 1]

LEMMA RunIs ==
    ASSUME NEW a \in Nat, NEW b \in Int, a - 1 <= b
    PROVE  /\ RunOf(a, b) \in Seq(Nat) /\ Len(RunOf(a, b)) = b - a + 1
           /\ a <= b => RunOf(a, b)[1] = a /\ RunOf(a, b)[b - a + 1] = b
           /\ RunOf(a, b) = <<>> <=> a = b + 1
<1>1. b - a + 1 \in Nat
  OBVIOUS
<1>2. \A k \in 1..(b - a + 1) : a + k - 1 \in Nat
  OBVIOUS
<1>3. RunOf(a, b) \in [1..(b - a + 1) -> Nat]
  BY <1>2 DEF RunOf
<1>4. RunOf(a, b) \in Seq(Nat) /\ Len(RunOf(a, b)) = b - a + 1
  BY <1>1, <1>3
<1>5. a <= b => RunOf(a, b)[1] = a /\ RunOf(a, b)[b - a + 1] = b
  BY DEF RunOf
<1>6. RunOf(a, b) = <<>> <=> b - a + 1 = 0
  BY <1>4
<1> QED
  BY <1>4, <1>5, <1>6

LEMMA RunStarts ==
    ASSUME NEW a \in Nat, NEW c \in Int, a <= c
    PROVE  RunOf(a, c) # <<>> /\ RunOf(a, c)[1] = a
<1>1. a - 1 <= c /\ a # c + 1
  OBVIOUS
<1> QED
  BY <1>1, RunIs

LEMMA RunGrows ==
    ASSUME NEW a \in Nat, NEW b \in Int, a - 1 <= b
    PROVE  Append(RunOf(a, b), b + 1) = RunOf(a, b + 1)
<1>1. RunOf(a, b) \in Seq(Nat) /\ Len(RunOf(a, b)) = b - a + 1 /\ b - a + 1 \in Nat
  BY RunIs
<1> DEFINE q == Append(RunOf(a, b), b + 1)
<1>2. q \in Seq(Int) /\ Len(q) = b - a + 2
  BY <1>1
<1>3. \A k \in 1..(b - a + 2) : q[k] = IF k <= b - a + 1 THEN RunOf(a, b)[k] ELSE b + 1
  BY <1>1
<1>4. \A k \in 1..(b - a + 2) : q[k] = a + k - 1
  BY <1>3 DEF RunOf
<1>5. DOMAIN q = 1..(b - a + 2) /\ q = [k \in DOMAIN q |-> q[k]]
  BY <1>2
<1>6. (b + 1) - a + 1 = b - a + 2
  OBVIOUS
<1> HIDE DEF q
<1>7. q = [k \in 1..((b + 1) - a + 1) |-> a + k - 1]
  BY <1>4, <1>5, <1>6
<1> QED
  BY <1>7 DEF RunOf, q

LEMMA Concatenates ==
    ASSUME NEW Values, NEW p \in Seq(Values), NEW r \in Seq(Values)
    PROVE  /\ p \o r \in Seq(Values) /\ Len(p \o r) = Len(p) + Len(r)
           /\ \A k \in 1..(Len(p) + Len(r)) : (p \o r)[k] = IF k <= Len(p) THEN p[k] ELSE r[k - Len(p)]
  OBVIOUS

LEMMA RunsJoin ==
    ASSUME NEW a \in Nat, NEW b \in Int, NEW c \in Int, a - 1 <= b, b <= c
    PROVE  RunOf(a, b) \o RunOf(b + 1, c) = RunOf(a, c)
<1> DEFINE p == RunOf(a, b)
           r == RunOf(b + 1, c)
           q == p \o r
<1>1. b + 1 \in Nat /\ (b + 1) - 1 <= c
  OBVIOUS
<1>2. p \in Seq(Nat) /\ Len(p) = b - a + 1 /\ b - a + 1 \in Nat
  BY RunIs
<1>3. r \in Seq(Nat) /\ Len(r) = c - b /\ c - b \in Nat
  <2>1. c - (b + 1) + 1 = c - b /\ c - b \in Nat
    OBVIOUS
  <2> QED
    BY <1>1, <2>1, RunIs
<1>4. \A k \in 1..(b - a + 1) : p[k] = a + k - 1
  BY DEF RunOf
<1>5. \A k \in 1..(c - b) : r[k] = b + k
  BY DEF RunOf
<1> HIDE DEF p, r
<1>6. q \in Seq(Nat) /\ Len(q) = Len(p) + Len(r)
  BY <1>2, <1>3, Concatenates
<1>7. \A k \in 1..(c - a + 1) : q[k] = IF k <= Len(p) THEN p[k] ELSE r[k - Len(p)]
  BY <1>2, <1>3, Concatenates
<1>8. \A k \in 1..(c - a + 1) : q[k] = a + k - 1
  BY <1>2, <1>3, <1>4, <1>5, <1>7
<1> HIDE DEF q
<1>9. DOMAIN q = 1..(c - a + 1) /\ q = [k \in DOMAIN q |-> q[k]]
  BY <1>2, <1>3, <1>6
<1>10. q = [k \in 1..(c - a + 1) |-> a + k - 1]
  BY <1>8, <1>9
<1> QED
  BY <1>10 DEF RunOf, p, q, r

LEMMA SameElements ==
    ASSUME NEW Values, NEW s \in Seq(Values), NEW t \in Seq(Values), Len(s) = Len(t),
           \A k \in 1..Len(s) : s[k] = t[k]
    PROVE  s = t
  OBVIOUS

LEMMA ShortRuns ==
    ASSUME NEW i \in Nat
    PROVE  <<i>> = RunOf(i, i) /\ <<>> = RunOf(i, i - 1) /\ <<i, i + 1>> = RunOf(i, i + 1)
<1>1. i - 1 \in Int /\ i + 1 \in Int /\ i \in Int
  OBVIOUS
<1>2. RunOf(i, i - 1) = <<>>
  BY <1>1, RunIs
<1>3. RunOf(i, i) \in Seq(Nat) /\ Len(RunOf(i, i)) = 1
  <2>1. i - i + 1 = 1 /\ i - 1 <= i
    OBVIOUS
  <2> QED
    BY <1>1, <2>1, RunIs
<1>4. RunOf(i, i + 1) \in Seq(Nat) /\ Len(RunOf(i, i + 1)) = 2
  <2>1. (i + 1) - i + 1 = 2 /\ i - 1 <= i + 1
    OBVIOUS
  <2> QED
    BY <1>1, <2>1, RunIs
<1>5. RunOf(i, i)[1] = i /\ RunOf(i, i + 1)[1] = i /\ RunOf(i, i + 1)[2] = i + 1
  BY DEF RunOf
<1>6. <<i>> \in Seq(Nat) /\ Len(<<i>>) = 1 /\ <<i>>[1] = i
  OBVIOUS
<1>7. <<i, i + 1>> \in Seq(Nat) /\ Len(<<i, i + 1>>) = 2 /\ <<i, i + 1>>[1] = i /\ <<i, i + 1>>[2] = i + 1
  OBVIOUS
<1>8. RunOf(i, i) = <<i>>
  BY <1>3, <1>5, <1>6, SameElements
<1>9. RunOf(i, i + 1) = <<i, i + 1>>
  <2>1. \A k \in 1..2 : RunOf(i, i + 1)[k] = <<i, i + 1>>[k]
    BY <1>5, <1>7
  <2> HIDE DEF RunOf
  <2> QED
    BY <1>4, <1>7, <2>1, SameElements
<1> QED
  BY <1>2, <1>8, <1>9
-----------------------------------------------------------------------------
(* Placements.                                                             *)

PlacementEvents == [kind : {"stable", "moving"}, first : Nat, last : Nat]

PlacementStates ==
    [stable : Seq(Nat), candidate : Seq(Nat), moving : Seq(Nat), seen : SUBSET Evidence,
     events : SUBSET PlacementEvents, unavailable : SUBSET Nat]

LEMMA EventIsTyped ==
    ASSUME NEW kind \in {"stable", "moving"}, NEW group \in Seq(Nat)
    PROVE  F!Event(kind, group) \in SUBSET PlacementEvents
<1>1. CASE Len(group) < 2
  BY <1>1 DEF F!Event
<1>2. CASE ~(Len(group) < 2)
  <2>1. group[1] \in Nat /\ group[Len(group)] \in Nat
    BY <1>2, ElementsAreTyped
  <2> QED
    BY <1>2, <2>1 DEF F!Event, PlacementEvents
<1> QED
  BY <1>1, <1>2

LEMMA FlushedIs ==
    ASSUME NEW s \in PlacementStates
    PROVE  /\ F!Flushed(s) \in PlacementStates
           /\ F!Flushed(s).stable = <<>> /\ F!Flushed(s).candidate = <<>> /\ F!Flushed(s).moving = <<>>
           /\ F!Flushed(s).events = s.events \cup F!Event("stable", s.stable)
                                             \cup F!Event("moving", s.moving \o s.candidate)
           /\ F!Flushed(s).unavailable = s.unavailable
<1>1. s.stable \in Seq(Nat) /\ s.moving \o s.candidate \in Seq(Nat)
      /\ s.events \in SUBSET PlacementEvents /\ s.unavailable \in SUBSET Nat
  BY DEF PlacementStates
<1>2. F!Event("stable", s.stable) \in SUBSET PlacementEvents
      /\ F!Event("moving", s.moving \o s.candidate) \in SUBSET PlacementEvents
  BY <1>1, EventIsTyped
<1> DEFINE added == s.events \cup F!Event("stable", s.stable)
                             \cup F!Event("moving", s.moving \o s.candidate)
<1>3. added \in SUBSET PlacementEvents
  BY <1>1, <1>2
<1>4. F!Flushed(s) = [F!Nothing EXCEPT !.events = added, !.unavailable = s.unavailable]
  BY Zenon DEF F!Flushed
<1> HIDE DEF added
<1>5. <<>> \in Seq(Nat)
  OBVIOUS
<1>6. F!Flushed(s) \in PlacementStates
  BY <1>1, <1>3, <1>4, <1>5 DEF PlacementStates, F!Nothing
<1>7. /\ F!Flushed(s).stable = <<>> /\ F!Flushed(s).candidate = <<>> /\ F!Flushed(s).moving = <<>>
      /\ F!Flushed(s).events = added /\ F!Flushed(s).unavailable = s.unavailable
  BY <1>4 DEF F!Nothing
<1> QED
  BY <1>6, <1>7 DEF added

\* What the row joins, and what becomes of the rows that moved before it.
Closest(s, rows, i, config) ==
    s.candidate = <<>> \/ F!Near(rows, i, s.candidate[1], config.enterAngle)

Gathered(s, rows, i, config) ==
    IF Closest(s, rows, i, config) THEN Append(s.candidate, i) ELSE <<i>>

Drifting(s, rows, i, config) ==
    IF Closest(s, rows, i, config) THEN s.moving ELSE s.moving \o s.candidate

LEMMA SettleIs ==
    ASSUME NEW rows, NEW config, NEW i \in Nat, NEW s \in PlacementStates,
           F!Near(rows, i, i, config.enterAngle),
           NEW r, r = F!Settle(s, rows, i, config),
           NEW gathered, gathered = Gathered(s, rows, i, config),
           NEW drifting, drifting = Drifting(s, rows, i, config)
    PROVE  /\ r \in PlacementStates /\ r.unavailable = s.unavailable
           /\ gathered \in Seq(Nat) /\ drifting \in Seq(Nat)
           /\ rows[i].t - rows[gathered[1]].t >= config.still =>
                /\ r.events = s.events \cup F!Event("moving", drifting)
                /\ r.stable = gathered /\ r.moving = <<>> /\ r.candidate = <<>>
           /\ ~(rows[i].t - rows[gathered[1]].t >= config.still) =>
                /\ r.events = s.events /\ r.stable = s.stable
                /\ r.moving = drifting /\ r.candidate = gathered
<1>1. s.candidate \in Seq(Nat) /\ s.moving \in Seq(Nat) /\ s.events \in SUBSET PlacementEvents
  BY DEF PlacementStates
<1>2. gathered \in Seq(Nat)
  <2>1. <<i>> \in Seq(Nat) /\ Append(s.candidate, i) \in Seq(Nat)
    BY <1>1
  <2> QED
    BY <2>1 DEF Gathered
<1>3. drifting \in Seq(Nat)
  BY <1>1 DEF Drifting
<1>4. r = IF rows[i].t - rows[gathered[1]].t >= config.still
          THEN [s EXCEPT !.events = @ \cup F!Event("moving", drifting), !.moving = <<>>,
                         !.stable = gathered, !.candidate = <<>>]
          ELSE [s EXCEPT !.moving = drifting, !.candidate = gathered]
  BY Zenon DEF F!Settle, Gathered, Drifting, Closest
<1>5. F!Event("moving", drifting) \in SUBSET PlacementEvents
  BY <1>3, EventIsTyped
<1>6. CASE rows[i].t - rows[gathered[1]].t >= config.still
  <2> DEFINE events == s.events \cup F!Event("moving", drifting)
  <2>1. r = [s EXCEPT !.events = events, !.moving = <<>>, !.stable = gathered, !.candidate = <<>>]
    BY <1>4, <1>6
  <2>2. events \in SUBSET PlacementEvents /\ <<>> \in Seq(Nat)
    BY <1>1, <1>5
  <2> HIDE DEF events
  <2>3. r \in PlacementStates /\ r.unavailable = s.unavailable /\ r.events = events
        /\ r.stable = gathered /\ r.moving = <<>> /\ r.candidate = <<>>
    BY <1>2, <2>1, <2>2 DEF PlacementStates
  <2> QED
    BY <1>2, <1>3, <1>6, <2>3 DEF events
<1>7. CASE ~(rows[i].t - rows[gathered[1]].t >= config.still)
  <2>1. r = [s EXCEPT !.moving = drifting, !.candidate = gathered]
    BY <1>4, <1>7
  <2> QED
    BY <1>1, <1>2, <1>3, <1>7, <2>1 DEF PlacementStates
<1> QED
  BY <1>6, <1>7

\* A row too uncertain by itself moves, with what was a candidate.
LEMMA UnsureIs ==
    ASSUME NEW rows, NEW config, NEW i \in Nat, NEW s \in PlacementStates,
           ~F!Near(rows, i, i, config.enterAngle)
    PROVE  F!Settle(s, rows, i, config) \in PlacementStates
<1> DEFINE moving == Append(s.moving \o s.candidate, i)
<1>1. moving \in Seq(Nat) /\ <<>> \in Seq(Nat)
  <2>1. s.candidate \in Seq(Nat) /\ s.moving \in Seq(Nat)
    BY DEF PlacementStates
  <2> QED
    BY <2>1
<1>2. F!Settle(s, rows, i, config) = [s EXCEPT !.moving = moving, !.candidate = <<>>]
  BY Zenon DEF F!Settle
<1> HIDE DEF moving
<1> QED
  BY <1>1, <1>2 DEF PlacementStates

\* The placements as they stand when the row is read.
Current(before, rows, i, config) == IF F!Gap(rows, i, config) THEN F!Flushed(before) ELSE before

LEMMA PlacedIsTyped ==
    ASSUME NEW rows \in Motions, NEW config, NEW contact, NEW i \in DOMAIN rows, NEW s \in PlacementStates
    PROVE  F!Placed(s, rows, contact, i, config) \in PlacementStates
<1> DEFINE now == Current(s, rows, i, config)
           new == [now EXCEPT !.seen = @ \cup {rows[i].source}]
           left == [new EXCEPT !.events = @ \cup F!Event("stable", now.stable), !.stable = <<>>]
           skipped == [F!Flushed(now) EXCEPT !.unavailable = @ \cup {i}]
           grown == [new EXCEPT !.stable = Append(@, i)]
<1>0. i \in Nat /\ rows[i].source \in Evidence
  BY RowsAreTyped
<1>1. now \in PlacementStates
  BY FlushedIs DEF Current
<1>2. F!Placed(s, rows, contact, i, config) =
        IF contact[i] # "contact" THEN F!Flushed(now)
        ELSE IF ~rows[i].axis \/ rows[i].source \in now.seen THEN skipped
        ELSE IF now.stable = <<>> THEN F!Settle(new, rows, i, config)
        ELSE IF F!Near(rows, i, now.stable[1], config.leaveAngle) THEN grown
        ELSE F!Settle(left, rows, i, config)
  BY Zenon DEF F!Placed, Current
<1> HIDE DEF now
<1>3. now.stable \in Seq(Nat)
  BY <1>1 DEF PlacementStates
<1>4. F!Flushed(now) \in PlacementStates /\ F!Event("stable", now.stable) \in SUBSET PlacementEvents
  BY <1>1, <1>3, FlushedIs, EventIsTyped
<1>5. skipped \in PlacementStates
  BY <1>0, <1>4 DEF PlacementStates
<1>6. new \in PlacementStates
  BY <1>0, <1>1 DEF PlacementStates
<1> HIDE DEF new
<1>7. left \in PlacementStates /\ grown \in PlacementStates
  <2>1. new.events \cup F!Event("stable", now.stable) \in SUBSET PlacementEvents /\ <<>> \in Seq(Nat)
    BY <1>4, <1>6 DEF PlacementStates
  <2>2. Append(new.stable, i) \in Seq(Nat)
    BY <1>0, <1>6 DEF PlacementStates
  <2>3. left \in PlacementStates
    BY <1>6, <2>1 DEF PlacementStates
  <2>4. grown \in PlacementStates
    BY <1>6, <2>2 DEF PlacementStates
  <2> QED
    BY <2>3, <2>4
<1> HIDE DEF left, skipped, grown
<1>8. F!Settle(new, rows, i, config) \in PlacementStates /\ F!Settle(left, rows, i, config) \in PlacementStates
  <2>1. ASSUME NEW q \in PlacementStates PROVE F!Settle(q, rows, i, config) \in PlacementStates
    BY <1>0, SettleIs, UnsureIs
  <2> QED
    BY <1>6, <1>7, <2>1
<1> QED
  BY <1>2, <1>4, <1>5, <1>7, <1>8

\* A stretch of rows that may be placed, and one that stays where it began.
Carried(rows, contact, config, unavailable, a, c) ==
    /\ F!Joined(rows, a, c, config)
    /\ \A n \in a..c : contact[n] = "contact" /\ rows[n].axis /\ n \notin unavailable

Stays(rows, config, a, c) ==
    /\ rows[c].t - rows[a].t >= config.still
    /\ F!Near(rows, a, a, config.enterAngle)
    /\ \A n \in a..c : F!Near(rows, n, a, config.leaveAngle)

\* The placements that are made so far end before row a.
EventsAreSound(rows, contact, config, events, unavailable, a) ==
    /\ events \in SUBSET PlacementEvents
    /\ F!Disjoint(events)
    /\ \A e \in events :
         /\ 1 <= e.first /\ e.first < e.last /\ e.last < a
         /\ Carried(rows, contact, config, unavailable, e.first, e.last)
         /\ e.kind = "stable" => Stays(rows, config, e.first, e.last)

Open(contact, s, n) ==
    contact[n] = "contact" /\ n \notin s.unavailable /\ \A e \in s.events : n \notin e.first..e.last

\* Row n and the one before it are not both left out, unless a gap is between them.
Tidy(rows, contact, config, s, n) ==
    Open(contact, s, n - 1) /\ Open(contact, s, n) => F!Gap(rows, n, config)

\* After row i, rows a to i wait to be placed: all stable, or those before b moving
\* and those from b on a candidate.
PlacementIsSound(rows, contact, config, i, s, a, b) ==
    /\ a \in 1..(i + 1) /\ b \in a..(i + 1)
    /\ \/ a <= i /\ s.stable = RunOf(a, i) /\ s.moving = <<>> /\ s.candidate = <<>>
          /\ Stays(rows, config, a, i)
       \/ s.stable = <<>> /\ s.moving = RunOf(a, b - 1) /\ s.candidate = RunOf(b, i)
          /\ \A n \in b..i : F!Near(rows, n, b, config.enterAngle)
    /\ s.unavailable \subseteq 1..i
    /\ Carried(rows, contact, config, s.unavailable, a, i)
    /\ EventsAreSound(rows, contact, config, s.events, s.unavailable, a)
    /\ \A n \in 2..i : n < a \/ (n = a /\ s.stable = <<>>) => Tidy(rows, contact, config, s, n)

\* Where row i may follow the rows that wait.
Follows(rows, contact, config, i, s, a) ==
    /\ a < i => ~F!Gap(rows, i, config)
    /\ a = i /\ i > 1 => ~Open(contact, s, i - 1) \/ F!Gap(rows, i, config)

LEMMA EventOfRun ==
    ASSUME NEW a \in Nat, NEW c \in Int, a - 1 <= c, NEW kind
    PROVE  F!Event(kind, RunOf(a, c)) = IF a < c THEN {[kind |-> kind, first |-> a, last |-> c]} ELSE {}
<1>1. RunOf(a, c) \in Seq(Nat) /\ Len(RunOf(a, c)) = c - a + 1
      /\ (a <= c => RunOf(a, c)[1] = a /\ RunOf(a, c)[c - a + 1] = c)
  BY RunIs
<1>2. c - a + 1 < 2 <=> ~(a < c)
  OBVIOUS
<1> HIDE DEF RunOf
<1>3. CASE a < c
  BY <1>1, <1>2, <1>3 DEF F!Event
<1>4. CASE ~(a < c)
  BY <1>1, <1>2, <1>4 DEF F!Event
<1> QED
  BY <1>3, <1>4

\* A stretch that follows the placements made so far may be placed.
LEMMA EventIsAdded ==
    ASSUME NEW rows, NEW contact, NEW config, NEW events, NEW unavailable,
           NEW a \in Nat \ {0}, NEW c \in Int, a - 1 <= c, NEW kind \in {"stable", "moving"},
           EventsAreSound(rows, contact, config, events, unavailable, a),
           Carried(rows, contact, config, unavailable, a, c),
           kind = "stable" => Stays(rows, config, a, c)
    PROVE  EventsAreSound(rows, contact, config, events \cup F!Event(kind, RunOf(a, c)), unavailable, c + 1)
<1>1. \A e \in events : e.first \in Nat /\ e.last \in Nat
                     /\ 1 <= e.first /\ e.first < e.last /\ e.last < a
  BY DEF EventsAreSound, PlacementEvents
<1>2. events \in SUBSET PlacementEvents /\ F!Disjoint(events)
      /\ \A e \in events : /\ Carried(rows, contact, config, unavailable, e.first, e.last)
                           /\ e.kind = "stable" => Stays(rows, config, e.first, e.last)
  BY DEF EventsAreSound
<1>3. CASE a < c
  <2> DEFINE f == [kind |-> kind, first |-> a, last |-> c]
  <2>1. F!Event(kind, RunOf(a, c)) = {f}
    BY <1>3, EventOfRun
  <2>2. f \in PlacementEvents
    BY <1>3 DEF PlacementEvents
  <2>3. f.first = a /\ f.last = c /\ f.kind = kind
    OBVIOUS
  <2> HIDE DEF f
  <2>4. F!Disjoint(events \cup {f})
    BY <1>1, <1>2, <2>3 DEF F!Disjoint
  <2>5. \A e \in events \cup {f} :
          /\ 1 <= e.first /\ e.first < e.last /\ e.last < c + 1
          /\ Carried(rows, contact, config, unavailable, e.first, e.last)
          /\ e.kind = "stable" => Stays(rows, config, e.first, e.last)
    BY <1>1, <1>2, <1>3, <2>3
  <2>6. events \cup {f} \in SUBSET PlacementEvents
    BY <1>2, <2>2
  <2> QED
    BY <2>1, <2>4, <2>5, <2>6 DEF EventsAreSound
<1>4. CASE ~(a < c)
  <2>1. F!Event(kind, RunOf(a, c)) = {}
    BY <1>4, EventOfRun
  <2>2. events \cup {} = events
    OBVIOUS
  <2>3. \A e \in events : e.last < c + 1
    BY <1>1
  <2> QED
    BY <1>1, <1>2, <2>1, <2>2, <2>3 DEF EventsAreSound
<1> QED
  BY <1>3, <1>4

LEMMA NothingAdded == F!Event("stable", <<>>) = {} /\ F!Event("moving", <<>>) = {}
  BY DEF F!Event

LEMMA OpenShrinks ==
    ASSUME NEW contact, NEW s, NEW r, NEW n, s.unavailable \subseteq r.unavailable,
           s.events \subseteq r.events, Open(contact, r, n)
    PROVE  Open(contact, s, n)
  BY DEF Open

LEMMA TidyStays ==
    ASSUME NEW rows, NEW contact, NEW config, NEW s, NEW r, NEW n,
           s.unavailable \subseteq r.unavailable, s.events \subseteq r.events,
           Tidy(rows, contact, config, s, n)
    PROVE  Tidy(rows, contact, config, r, n)
  BY OpenShrinks DEF Tidy

\* What is placed is not left out.
LEMMA PlacedIsNotOpen ==
    ASSUME NEW contact, NEW s, NEW kind, NEW a \in Nat, NEW c \in Int, a < c, NEW n \in a..c,
           F!Event(kind, RunOf(a, c)) \subseteq s.events
    PROVE  ~Open(contact, s, n)
<1> DEFINE f == [kind |-> kind, first |-> a, last |-> c]
<1>1. f \in s.events
  BY EventOfRun
<1>2. f.first = a /\ f.last = c
  OBVIOUS
<1> QED
  BY <1>1, <1>2 DEF Open

LEMMA FlushKeeps ==
    ASSUME NEW rows \in Motions, NEW config \in FootConfigs, NEW contact, NEW i \in 0..Len(rows),
           NEW s \in PlacementStates, NEW a, NEW b,
           PlacementIsSound(rows, contact, config, i, s, a, b),
           NEW r \in PlacementStates, r.stable = <<>>, r.candidate = <<>>, r.moving = <<>>,
           r.events = s.events \cup F!Event("stable", s.stable) \cup F!Event("moving", s.moving \o s.candidate),
           r.unavailable = s.unavailable
    PROVE  /\ PlacementIsSound(rows, contact, config, i, r, i + 1, i + 1)
           /\ s.stable # <<>> => ~Open(contact, r, i)
<1>0. i \in Nat /\ a \in Nat \ {0} /\ a <= i + 1 /\ b \in a..(i + 1) /\ a - 1 <= i /\ i \in Int
  BY RowsAreTyped DEF PlacementIsSound
<1> DEFINE Stable == a <= i /\ s.stable = RunOf(a, i) /\ s.moving = <<>> /\ s.candidate = <<>>
                     /\ Stays(rows, config, a, i)
           Moving == s.stable = <<>> /\ s.moving = RunOf(a, b - 1) /\ s.candidate = RunOf(b, i)
           kind == IF s.stable = <<>> THEN "moving" ELSE "stable"
<1>1. Stable \/ Moving
  BY DEF PlacementIsSound
<1>2. Stable => s.stable # <<>> /\ a < i
  <2>1. SUFFICES ASSUME Stable PROVE s.stable # <<>> /\ a < i
    OBVIOUS
  <2>2. s.stable # <<>>
    BY <1>0, <2>1, RunStarts
  <2>3. rows[i].t - rows[a].t >= config.still /\ config.still \in Nat \ {0}
    BY <2>1, ThresholdsAreTyped DEF Stays
  <2>4. i \in DOMAIN rows /\ rows[i].t \in Int
    BY <1>0, <2>1, RowsAreTyped
  <2>5. a # i
    BY <2>3, <2>4
  <2> QED
    BY <1>0, <2>1, <2>2, <2>5
<1>3. r.events = s.events \cup F!Event(kind, RunOf(a, i))
  <2>1. CASE Stable
    <3>1. s.moving \o s.candidate = <<>>
      BY <2>1
    <3> QED
      BY <2>1, <3>1, <1>2, NothingAdded
  <2>2. CASE Moving
    <3>1. s.moving \o s.candidate = RunOf(a, i)
      <4>1. b - 1 \in Int /\ a - 1 <= b - 1 /\ b - 1 <= i /\ (b - 1) + 1 = b
        BY <1>0
      <4>2. RunOf(a, b - 1) \o RunOf((b - 1) + 1, i) = RunOf(a, i)
        BY <1>0, <4>1, RunsJoin
      <4> QED
        BY <2>2, <4>1, <4>2
    <3> QED
      BY <2>2, <3>1, NothingAdded
  <2> QED
    BY <1>1, <2>1, <2>2
<1>4. kind \in {"stable", "moving"} /\ (kind = "stable" => Stays(rows, config, a, i))
  BY <1>1
<1> HIDE DEF kind
<1>5. EventsAreSound(rows, contact, config, r.events, r.unavailable, i + 1)
  <2>1. Carried(rows, contact, config, s.unavailable, a, i)
        /\ EventsAreSound(rows, contact, config, s.events, s.unavailable, a)
    BY DEF PlacementIsSound
  <2>2. EventsAreSound(rows, contact, config, s.events \cup F!Event(kind, RunOf(a, i)), s.unavailable, i + 1)
    <3> HIDE DEF Stable, Moving
    <3> QED
      BY <1>0, <1>4, <2>1, EventIsAdded
  <2> QED
    BY <1>3, <2>2
<1>6. ASSUME NEW n \in 2..i PROVE Tidy(rows, contact, config, r, n)
  <2>1. CASE n < a \/ (n = a /\ s.stable = <<>>)
    <3>1. Tidy(rows, contact, config, s, n)
      BY <2>1 DEF PlacementIsSound
    <3> QED
      BY <3>1, <1>3, TidyStays
  <2>2. CASE ~(n < a \/ (n = a /\ s.stable = <<>>))
    <3>1. a < i /\ n \in a..i
      BY <1>0, <1>1, <1>2, <2>2
    <3>2. ~Open(contact, r, n)
      BY <3>1, <1>0, <1>3, PlacedIsNotOpen
    <3> QED
      BY <3>2 DEF Tidy
  <2> QED
    BY <2>1, <2>2
<1>7. s.stable # <<>> => ~Open(contact, r, i)
  <2>1. s.stable # <<>> => a < i /\ i \in a..i
    BY <1>0, <1>1, <1>2
  <2> QED
    BY <1>0, <1>3, <2>1, PlacedIsNotOpen
<1>8. /\ i + 1 \in 1..(i + 1) /\ i + 1 \in (i + 1)..(i + 1)
      /\ RunOf(i + 1, (i + 1) - 1) = <<>> /\ RunOf(i + 1, i) = <<>>
      /\ (i + 1)..i = {}
  <2>1. RunOf(i + 1, (i + 1) - 1) = <<>>
    BY <1>0, ShortRuns
  <2> QED
    BY <1>0, <2>1
<1>9. Carried(rows, contact, config, r.unavailable, i + 1, i)
  BY <1>0 DEF Carried, F!Joined
<1>10. r.unavailable \subseteq 1..i
  BY DEF PlacementIsSound
<1>11. PlacementIsSound(rows, contact, config, i, r, i + 1, i + 1)
  BY <1>5, <1>6, <1>8, <1>9, <1>10 DEF PlacementIsSound
<1> QED
  BY <1>7, <1>11

\* What the placements remember after row i is accounted for.
Placing(rows, contact, config, i, s) ==
    \E a \in 1..(i + 1) : \E b \in a..(i + 1) :
        /\ PlacementIsSound(rows, contact, config, i, s, a, b)
        /\ a = i + 1 /\ i > 0 => ~Open(contact, s, i)

\* A row without contact or an axis, or on evidence that was used, is left out.
LEMMA SkipKeeps ==
    ASSUME NEW rows \in Motions, NEW config \in FootConfigs, NEW contact, NEW i \in DOMAIN rows,
           NEW s \in PlacementStates, PlacementIsSound(rows, contact, config, i - 1, s, i, i),
           NEW r \in PlacementStates, r.stable = <<>>, r.candidate = <<>>, r.moving = <<>>,
           r.events = s.events, s.unavailable \subseteq r.unavailable,
           r.unavailable \subseteq s.unavailable \cup {i},
           contact[i] = "contact" => i \in r.unavailable
    PROVE  Placing(rows, contact, config, i, r)
<1>0. i \in Nat \ {0} /\ (i - 1) + 1 = i /\ i - 1 \in Nat
  BY RowsAreTyped
<1>1. /\ s.unavailable \subseteq 1..(i - 1)
      /\ EventsAreSound(rows, contact, config, s.events, s.unavailable, i)
      /\ \A n \in 2..(i - 1) : n < i => Tidy(rows, contact, config, s, n)
  BY DEF PlacementIsSound
<1>2. ~Open(contact, r, i)
  BY DEF Open
<1>3. \A n \in 2..i : Tidy(rows, contact, config, r, n)
  <2>1. ASSUME NEW n \in 2..(i - 1) PROVE Tidy(rows, contact, config, r, n)
    <3>1. n < i
      BY <1>0
    <3> QED
      BY <1>1, <3>1, TidyStays
  <2>2. Tidy(rows, contact, config, r, i)
    BY <1>2 DEF Tidy
  <2>3. \A n \in 2..i : n \in 2..(i - 1) \/ n = i
    BY <1>0
  <2> QED
    BY <2>1, <2>2, <2>3
<1>4. EventsAreSound(rows, contact, config, r.events, r.unavailable, i + 1)
  <2>1. \A e \in s.events : e.first \in Nat /\ e.last \in Nat /\ e.last < i
    BY <1>1 DEF EventsAreSound, PlacementEvents
  <2>2. ASSUME NEW e \in s.events
        PROVE  e.last < i + 1 /\ Carried(rows, contact, config, r.unavailable, e.first, e.last)
    <3>1. Carried(rows, contact, config, s.unavailable, e.first, e.last)
      BY <1>1 DEF EventsAreSound
    <3>2. e.last < i + 1 /\ i \notin e.first..e.last
      BY <1>0, <2>1
    <3> QED
      BY <3>1, <3>2 DEF Carried
  <2> QED
    BY <1>1, <2>2 DEF EventsAreSound
<1>5. /\ i + 1 \in 1..(i + 1) /\ i + 1 \in (i + 1)..(i + 1)
      /\ RunOf(i + 1, (i + 1) - 1) = <<>> /\ RunOf(i + 1, i) = <<>>
      /\ (i + 1)..i = {}
  <2>1. RunOf(i + 1, (i + 1) - 1) = <<>>
    BY <1>0, ShortRuns
  <2> QED
    BY <1>0, <2>1
<1>6. Carried(rows, contact, config, r.unavailable, i + 1, i)
  BY <1>0 DEF Carried, F!Joined
<1>7. r.unavailable \subseteq 1..i
  BY <1>0, <1>1
<1>8. PlacementIsSound(rows, contact, config, i, r, i + 1, i + 1)
  BY <1>3, <1>4, <1>5, <1>6, <1>7 DEF PlacementIsSound
<1> QED
  BY <1>2, <1>5, <1>8 DEF Placing

\* The row carries the stretch that waits on.
LEMMA CarriedGrows ==
    ASSUME NEW rows \in Motions, NEW config \in FootConfigs, NEW contact, NEW i \in DOMAIN rows,
           NEW unavailable, unavailable \subseteq 1..(i - 1), NEW a \in 1..i,
           Carried(rows, contact, config, unavailable, a, i - 1),
           a < i => ~F!Gap(rows, i, config), contact[i] = "contact", rows[i].axis
    PROVE  Carried(rows, contact, config, unavailable, a, i)
<1>0. i \in Nat \ {0} /\ i \in 1..Len(rows) /\ Len(rows) \in Nat
  BY RowsAreTyped
<1>1. F!Joined(rows, a, i, config)
  <2>1. CASE a < i
    <3>1. i \in 2..Len(rows) /\ a \in 1..(i - 1)
      BY <1>0, <2>1
    <3> QED
      BY <2>1, <3>1, JoinedGrows DEF Carried
  <2>2. CASE a = i
    BY <1>0, <2>2, JoinedAlone
  <2> QED
    BY <1>0, <2>1, <2>2
<1>2. i \notin unavailable
  BY <1>0
<1>3. \A n \in a..i : n \in a..(i - 1) \/ n = i
  BY <1>0
<1> QED
  BY <1>1, <1>2, <1>3 DEF Carried

\* A row near the first of a stable placement stays in it.
LEMMA StableKeeps ==
    ASSUME NEW rows \in Motions, NEW config \in FootConfigs, NEW contact, NEW i \in DOMAIN rows,
           NEW s \in PlacementStates, NEW a, NEW b,
           PlacementIsSound(rows, contact, config, i - 1, s, a, b),
           Follows(rows, contact, config, i, s, a), contact[i] = "contact", rows[i].axis,
           s.stable # <<>>, F!Near(rows, i, s.stable[1], config.leaveAngle),
           NEW r \in PlacementStates, r.stable = Append(s.stable, i), r.candidate = s.candidate,
           r.moving = s.moving, r.events = s.events, r.unavailable = s.unavailable
    PROVE  Placing(rows, contact, config, i, r)
<1>0. i \in Nat \ {0} /\ (i - 1) + 1 = i /\ i - 1 \in Nat
  BY RowsAreTyped
<1>1. /\ a \in 1..(i - 1) /\ b \in a..i
      /\ s.stable = RunOf(a, i - 1) /\ s.moving = <<>> /\ s.candidate = <<>>
      /\ Stays(rows, config, a, i - 1)
      /\ s.unavailable \subseteq 1..(i - 1)
      /\ Carried(rows, contact, config, s.unavailable, a, i - 1)
      /\ EventsAreSound(rows, contact, config, s.events, s.unavailable, a)
      /\ \A n \in 2..(i - 1) : n < a => Tidy(rows, contact, config, s, n)
  BY <1>0 DEF PlacementIsSound
<1>2. r.stable = RunOf(a, i)
  <2>1. a \in Nat /\ i - 1 \in Int /\ a - 1 <= i - 1
    BY <1>0, <1>1
  <2>2. Append(RunOf(a, i - 1), (i - 1) + 1) = RunOf(a, (i - 1) + 1)
    BY <2>1, RunGrows
  <2> QED
    BY <1>0, <1>1, <2>2
<1>3. s.stable[1] = a
  <2>1. a \in Nat /\ i - 1 \in Int /\ a - 1 <= i - 1 /\ a <= i - 1
    BY <1>0, <1>1
  <2> QED
    BY <1>1, <2>1, RunStarts
<1>4. Stays(rows, config, a, i)
  <2>1. rows[i - 1].t < rows[i].t /\ rows[i].t \in Int /\ rows[i - 1].t \in Int /\ rows[a].t \in Int
    <3>1. i \in 2..Len(rows) /\ i - 1 \in 1..Len(rows) /\ a \in 1..Len(rows) /\ i \in 1..Len(rows)
      BY <1>0, <1>1, RowsAreTyped
    <3> QED
      BY <3>1, RowsAreTyped
  <2>2. rows[i - 1].t - rows[a].t >= config.still /\ config.still \in Int
    BY <1>1, ThresholdsAreTyped DEF Stays
  <2>3. rows[i].t - rows[a].t >= config.still
    BY <2>1, <2>2
  <2>4. \A n \in a..i : n \in a..(i - 1) \/ n = i
    BY <1>0, <1>1
  <2>5. \A n \in a..(i - 1) : F!Near(rows, n, a, config.leaveAngle)
    BY <1>1 DEF Stays
  <2>6. \A n \in a..i : F!Near(rows, n, a, config.leaveAngle)
    BY <1>3, <2>4, <2>5
  <2> QED
    BY <1>1, <2>3, <2>6 DEF Stays
<1>5. Carried(rows, contact, config, r.unavailable, a, i)
  <2>1. a \in 1..i /\ a < i
    BY <1>0, <1>1
  <2> QED
    BY <1>1, <2>1, CarriedGrows DEF Follows
<1>6. r.stable # <<>>
  <2>1. a \in Nat /\ i \in Int /\ a - 1 <= i /\ a # i + 1
    BY <1>0, <1>1
  <2> QED
    BY <1>2, <2>1, RunStarts
<1>7. ASSUME NEW n \in 2..i, n < a PROVE Tidy(rows, contact, config, r, n)
  <2>1. n \in 2..(i - 1)
    BY <1>0, <1>1, <1>7
  <2>2. Tidy(rows, contact, config, s, n)
    BY <1>1, <1>7, <2>1
  <2> QED
    BY <2>2, TidyStays
<1>8. a \in 1..(i + 1) /\ i + 1 \in a..(i + 1) /\ a <= i /\ a # i + 1 /\ r.unavailable \subseteq 1..i
  BY <1>0, <1>1
<1>9. EventsAreSound(rows, contact, config, r.events, r.unavailable, a)
  BY <1>1
<1>10. r.moving = <<>> /\ r.candidate = <<>>
  BY <1>1
<1>11. PlacementIsSound(rows, contact, config, i, r, a, i + 1)
  BY <1>2, <1>4, <1>5, <1>6, <1>7, <1>8, <1>9, <1>10 DEF PlacementIsSound
<1> QED
  BY <1>8, <1>11 DEF Placing

\* What is near enough to become stable is near enough to stay so.
LEMMA NearStays ==
    ASSUME NEW rows \in Motions, NEW config \in FootConfigs, Halves, NEW n \in DOMAIN rows, NEW m \in DOMAIN rows,
           F!Near(rows, n, m, config.enterAngle)
    PROVE  F!Near(rows, n, m, config.leaveAngle)
<1> DEFINE x == F!Abs(F!Wrap(rows[n].yaw - rows[m].yaw))
<1>1. rows[n].yaw - rows[m].yaw \in Int /\ rows[n].blur \in Nat /\ rows[m].blur \in Nat
  BY RowsAreTyped
<1>2. x \in Nat
  BY <1>1, WrapIsTyped
<1>3. config.enterAngle \in Nat /\ config.leaveAngle \in Int /\ config.enterAngle <= config.leaveAngle
  BY ThresholdsAreTyped
<1>4. /\ x + rows[n].blur + rows[m].blur <= config.enterAngle
      /\ F!Near(rows, n, m, config.leaveAngle) <=> x + rows[n].blur + rows[m].blur <= config.leaveAngle
  BY DEF F!Near
<1> HIDE DEF x
<1> QED
  BY <1>1, <1>2, <1>3, <1>4

\* A row whose own uncertainty allows it joins the candidate, or starts one.
LEMMA SureKeeps ==
    ASSUME NEW rows \in Motions, NEW config \in FootConfigs, Halves, NEW contact, NEW i \in DOMAIN rows,
           NEW s \in PlacementStates, NEW a, NEW b,
           PlacementIsSound(rows, contact, config, i - 1, s, a, b),
           Follows(rows, contact, config, i, s, a), contact[i] = "contact", rows[i].axis,
           s.stable = <<>>, F!Near(rows, i, i, config.enterAngle),
           NEW r, r = F!Settle(s, rows, i, config)
    PROVE  Placing(rows, contact, config, i, r)
<1> DEFINE gathered == Gathered(s, rows, i, config)
           drifting == Drifting(s, rows, i, config)
           d == IF Closest(s, rows, i, config) THEN b ELSE i
<1>0. i \in Nat \ {0} /\ (i - 1) + 1 = i /\ i - 1 \in Nat /\ i - 1 \in Int /\ i \in Int
  BY RowsAreTyped
<1>1. /\ a \in 1..i /\ b \in a..i
      /\ s.moving = RunOf(a, b - 1) /\ s.candidate = RunOf(b, i - 1)
      /\ \A n \in b..(i - 1) : F!Near(rows, n, b, config.enterAngle)
      /\ s.unavailable \subseteq 1..(i - 1)
      /\ Carried(rows, contact, config, s.unavailable, a, i - 1)
      /\ EventsAreSound(rows, contact, config, s.events, s.unavailable, a)
      /\ \A n \in 2..(i - 1) : n < a \/ n = a => Tidy(rows, contact, config, s, n)
  <2>1. /\ a \in 1..((i - 1) + 1) /\ b \in a..((i - 1) + 1)
    BY DEF PlacementIsSound
  <2>2. a \in 1..i /\ b \in a..i /\ a \in Nat /\ a - 1 <= i - 1
    BY <1>0, <2>1
  <2>3. ~(a <= i - 1 /\ s.stable = RunOf(a, i - 1))
    <3>1. a <= i - 1 => RunOf(a, i - 1) # <<>>
      BY <1>0, <2>2, RunStarts
    <3> QED
      BY <3>1
  <2> QED
    BY <2>2, <2>3 DEF PlacementIsSound
<1>2. a \in Nat /\ b \in Nat /\ a - 1 <= b - 1 /\ b - 1 <= i - 1 /\ b - 1 \in Int /\ (b - 1) + 1 = b
  BY <1>0, <1>1
\* The candidate goes on, or starts again with the row.
<1>3. /\ d \in a..i /\ gathered = RunOf(d, i) /\ drifting = RunOf(a, d - 1)
      /\ \A n \in d..i : F!Near(rows, n, d, config.enterAngle)
  <2>1. CASE Closest(s, rows, i, config)
    <3>1. d = b /\ drifting = s.moving /\ gathered = Append(s.candidate, i)
      BY <2>1 DEF Drifting, Gathered
    <3>2. Append(RunOf(b, i - 1), (i - 1) + 1) = RunOf(b, (i - 1) + 1)
      BY <1>0, <1>2, RunGrows
    <3>3. gathered = RunOf(b, i)
      BY <1>0, <1>1, <3>1, <3>2
    <3>4. F!Near(rows, i, b, config.enterAngle)
      <4>1. CASE b = i
        BY <4>1
      <4>2. CASE b # i
        <5>1. b <= i - 1
          BY <1>0, <1>1, <4>2
        <5>2. RunOf(b, i - 1) # <<>> /\ RunOf(b, i - 1)[1] = b
          BY <1>0, <1>2, <5>1, RunStarts
        <5> QED
          BY <1>1, <2>1, <5>2 DEF Closest
      <4> QED
        BY <4>1, <4>2
    <3>5. \A n \in b..i : n \in b..(i - 1) \/ n = i
      BY <1>0, <1>1
    <3> QED
      BY <1>1, <3>1, <3>3, <3>4, <3>5
  <2>2. CASE ~Closest(s, rows, i, config)
    <3>1. d = i /\ drifting = s.moving \o s.candidate /\ gathered = <<i>>
      BY <2>2 DEF Drifting, Gathered
    <3>2. RunOf(a, b - 1) \o RunOf((b - 1) + 1, i - 1) = RunOf(a, i - 1)
      BY <1>0, <1>2, RunsJoin
    <3>3. drifting = RunOf(a, i - 1)
      BY <1>1, <1>2, <3>1, <3>2
    <3>4. gathered = RunOf(i, i)
      BY <1>0, <3>1, ShortRuns
    <3>5. \A n \in i..i : F!Near(rows, n, i, config.enterAngle)
      BY <1>0
    <3>6. i \in a..i
      BY <1>0, <1>1
    <3> QED
      BY <3>1, <3>3, <3>4, <3>5, <3>6
  <2> QED
    BY <2>1, <2>2
<1>4. /\ r \in PlacementStates /\ r.unavailable = s.unavailable
      /\ rows[i].t - rows[gathered[1]].t >= config.still =>
           /\ r.events = s.events \cup F!Event("moving", drifting)
           /\ r.stable = gathered /\ r.moving = <<>> /\ r.candidate = <<>>
      /\ ~(rows[i].t - rows[gathered[1]].t >= config.still) =>
           /\ r.events = s.events /\ r.stable = s.stable
           /\ r.moving = drifting /\ r.candidate = gathered
  <2> HIDE DEF gathered, drifting
  <2>1. gathered = Gathered(s, rows, i, config) /\ drifting = Drifting(s, rows, i, config) /\ i \in Nat
    BY <1>0 DEF gathered, drifting
  <2> QED
    BY <2>1, SettleIs, SMTT(30)
<1> HIDE DEF gathered, drifting, d
<1>5. d \in Nat /\ d \in 1..i /\ d - 1 \in Int /\ a - 1 <= d - 1 /\ d - 1 <= i - 1 /\ d - 1 <= i /\ (d - 1) + 1 = d
  BY <1>0, <1>1, <1>2, <1>3
<1>6. gathered[1] = d /\ gathered # <<>>
  <2>1. d <= i /\ d # i + 1
    BY <1>0, <1>5
  <2> QED
    BY <1>0, <1>3, <1>5, <2>1, RunStarts
<1>7. Carried(rows, contact, config, s.unavailable, a, i)
  BY <1>1, CarriedGrows DEF Follows
<1>8. s.unavailable \subseteq 1..i /\ a \in 1..(i + 1) /\ d \in a..(i + 1) /\ a # i + 1
      /\ d \in 1..(i + 1) /\ i + 1 \in d..(i + 1) /\ d # i + 1 /\ d <= i
  BY <1>0, <1>1, <1>3, <1>5
<1>9. CASE rows[i].t - rows[gathered[1]].t >= config.still
  <2>1. /\ r.events = s.events \cup F!Event("moving", RunOf(a, d - 1)) /\ r.unavailable = s.unavailable
        /\ r.stable = RunOf(d, i) /\ r.stable # <<>> /\ r.moving = <<>> /\ r.candidate = <<>>
    BY <1>3, <1>4, <1>6, <1>9
  <2>2. Stays(rows, config, d, i)
    <3>1. \A n \in d..i : n \in DOMAIN rows
      BY <1>0, <1>5, RowsAreTyped
    <3>2. \A n \in d..i : F!Near(rows, n, d, config.leaveAngle)
      BY <1>3, <1>5, <3>1, NearStays, RowsAreTyped
    <3>3. F!Near(rows, d, d, config.enterAngle)
      BY <1>3, <1>5
    <3> QED
      BY <1>6, <1>9, <3>2, <3>3 DEF Stays
  <2>3. Carried(rows, contact, config, s.unavailable, a, d - 1)
        /\ Carried(rows, contact, config, s.unavailable, d, i)
    <3>1. \A n \in a..(d - 1) : n \in a..i
      BY <1>0, <1>5
    <3>2. \A n \in d..i : n \in a..i
      BY <1>0, <1>5, <1>1
    <3>3. \A n \in (a + 1)..(d - 1) : n \in (a + 1)..i
      BY <1>0, <1>5
    <3>4. \A n \in (d + 1)..i : n \in (a + 1)..i
      BY <1>0, <1>5, <1>1
    <3> QED
      BY <1>7, <3>1, <3>2, <3>3, <3>4 DEF Carried, F!Joined
  <2>4. EventsAreSound(rows, contact, config, r.events, r.unavailable, d)
    <3>1. a \in Nat \ {0}
      BY <1>1, <1>0
    <3>2. EventsAreSound(rows, contact, config, s.events \cup F!Event("moving", RunOf(a, d - 1)),
                         s.unavailable, (d - 1) + 1)
      BY <1>1, <1>5, <2>3, <3>1, EventIsAdded
    <3> QED
      BY <1>5, <2>1, <3>2
  <2>5. ASSUME NEW n \in 2..i, n < d PROVE Tidy(rows, contact, config, r, n)
    <3>1. CASE n <= a
      <4>1. n \in 2..(i - 1) /\ (n < a \/ n = a)
        BY <1>0, <1>1, <1>5, <2>5, <3>1
      <4>2. Tidy(rows, contact, config, s, n)
        BY <1>1, <4>1
      <4> QED
        BY <2>1, <4>2, TidyStays
    <3>2. CASE ~(n <= a)
      <4>1. n \in a..(d - 1) /\ a < d - 1
        BY <1>0, <1>1, <1>5, <2>5, <3>2
      <4>2. ~Open(contact, r, n)
        BY <1>2, <1>5, <2>1, <4>1, PlacedIsNotOpen
      <4> QED
        BY <4>2 DEF Tidy
    <3> QED
      BY <3>1, <3>2
  <2>6. PlacementIsSound(rows, contact, config, i, r, d, i + 1)
    BY <1>8, <2>1, <2>2, <2>3, <2>4, <2>5 DEF PlacementIsSound
  <2> QED
    BY <1>8, <2>6 DEF Placing
<1>10. CASE ~(rows[i].t - rows[gathered[1]].t >= config.still)
  <2>1. /\ r.events = s.events /\ r.unavailable = s.unavailable /\ r.stable = <<>>
        /\ r.moving = RunOf(a, d - 1) /\ r.candidate = RunOf(d, i)
    BY <1>3, <1>4, <1>10
  <2>2. ASSUME NEW n \in 2..i, n < a \/ n = a PROVE Tidy(rows, contact, config, r, n)
    <3>1. CASE n = i
      <4>1. a = i /\ i > 1
        BY <1>0, <1>1, <2>2, <3>1
      <4>2. ~Open(contact, s, i - 1) \/ F!Gap(rows, i, config)
        BY <4>1 DEF Follows
      <4>3. ~Open(contact, r, i - 1) \/ F!Gap(rows, i, config)
        BY <2>1, <4>2, OpenShrinks
      <4> QED
        BY <3>1, <4>3 DEF Tidy
    <3>2. CASE n # i
      <4>1. n \in 2..(i - 1)
        BY <1>0, <3>2
      <4>2. Tidy(rows, contact, config, s, n)
        BY <1>1, <2>2, <4>1
      <4> QED
        BY <2>1, <4>2, TidyStays
    <3> QED
      BY <3>1, <3>2
  <2>3. PlacementIsSound(rows, contact, config, i, r, a, d)
    BY <1>1, <1>3, <1>7, <1>8, <2>1, <2>2 DEF PlacementIsSound
  <2> QED
    BY <1>8, <2>3 DEF Placing
<1> QED
  BY <1>9, <1>10

\* A row whose own uncertainty does not allow it moves on its own.
LEMMA UnsureKeeps ==
    ASSUME NEW rows \in Motions, NEW config \in FootConfigs, NEW contact, NEW i \in DOMAIN rows,
           NEW s \in PlacementStates, NEW a, NEW b,
           PlacementIsSound(rows, contact, config, i - 1, s, a, b),
           Follows(rows, contact, config, i, s, a), contact[i] = "contact", rows[i].axis,
           s.stable = <<>>, ~F!Near(rows, i, i, config.enterAngle),
           NEW r, r = F!Settle(s, rows, i, config)
    PROVE  Placing(rows, contact, config, i, r)
<1>0. i \in Nat \ {0} /\ (i - 1) + 1 = i /\ i - 1 \in Nat /\ i - 1 \in Int /\ i \in Int
  BY RowsAreTyped
<1>1. /\ a \in 1..i /\ b \in a..i
      /\ s.moving = RunOf(a, b - 1) /\ s.candidate = RunOf(b, i - 1)
      /\ s.unavailable \subseteq 1..(i - 1)
      /\ Carried(rows, contact, config, s.unavailable, a, i - 1)
      /\ EventsAreSound(rows, contact, config, s.events, s.unavailable, a)
      /\ \A n \in 2..(i - 1) : n < a \/ n = a => Tidy(rows, contact, config, s, n)
  <2>1. /\ a \in 1..((i - 1) + 1) /\ b \in a..((i - 1) + 1)
    BY DEF PlacementIsSound
  <2>2. a \in 1..i /\ b \in a..i /\ a \in Nat /\ a - 1 <= i - 1
    BY <1>0, <2>1
  <2>3. ~(a <= i - 1 /\ s.stable = RunOf(a, i - 1))
    <3>1. a <= i - 1 => RunOf(a, i - 1) # <<>>
      BY <1>0, <2>2, RunStarts
    <3> QED
      BY <3>1
  <2> QED
    BY <2>2, <2>3 DEF PlacementIsSound
<1>2. a \in Nat /\ b \in Nat /\ a - 1 <= b - 1 /\ b - 1 <= i - 1 /\ a - 1 <= i - 1
      /\ b - 1 \in Int /\ (b - 1) + 1 = b
  BY <1>0, <1>1
<1>3. /\ r.unavailable = s.unavailable /\ r.events = s.events
      /\ r.stable = <<>> /\ r.candidate = <<>>
      /\ r.moving = Append(s.moving \o s.candidate, i)
  <2> DEFINE moving == Append(s.moving \o s.candidate, i)
  <2>1. r = [s EXCEPT !.moving = moving, !.candidate = <<>>]
    BY Zenon DEF F!Settle
  <2> HIDE DEF moving
  <2>2. /\ r.unavailable = s.unavailable /\ r.events = s.events
        /\ r.stable = s.stable /\ r.candidate = <<>> /\ r.moving = moving
    BY <2>1 DEF PlacementStates
  <2> QED
    BY <2>2 DEF moving
<1>4. r.moving = RunOf(a, i)
  <2>1. RunOf(a, b - 1) \o RunOf((b - 1) + 1, i - 1) = RunOf(a, i - 1)
    BY <1>0, <1>2, RunsJoin
  <2>2. s.moving \o s.candidate = RunOf(a, i - 1)
    BY <1>1, <1>2, <2>1
  <2>3. Append(RunOf(a, i - 1), (i - 1) + 1) = RunOf(a, (i - 1) + 1)
    BY <1>0, <1>2, RunGrows
  <2> QED
    BY <1>0, <1>3, <2>2, <2>3
<1>5. Carried(rows, contact, config, s.unavailable, a, i)
  BY <1>1, CarriedGrows DEF Follows
<1>6. ASSUME NEW n \in 2..i, n < a \/ n = a PROVE Tidy(rows, contact, config, r, n)
  <2>1. CASE n = i
    <3>1. a = i /\ i > 1
      BY <1>0, <1>1, <1>6, <2>1
    <3>2. ~Open(contact, s, i - 1) \/ F!Gap(rows, i, config)
      BY <3>1 DEF Follows
    <3>3. ~Open(contact, r, i - 1) \/ F!Gap(rows, i, config)
      BY <1>3, <3>2, OpenShrinks
    <3> QED
      BY <2>1, <3>3 DEF Tidy
  <2>2. CASE n # i
    <3>1. n \in 2..(i - 1)
      BY <1>0, <2>2
    <3>2. Tidy(rows, contact, config, s, n)
      BY <1>1, <1>6, <3>1
    <3> QED
      BY <1>3, <3>2, TidyStays
  <2> QED
    BY <2>1, <2>2
<1>7. /\ a \in 1..(i + 1) /\ i + 1 \in a..(i + 1) /\ a # i + 1 /\ (i + 1) - 1 = i
      /\ s.unavailable \subseteq 1..i /\ (i + 1)..i = {}
  BY <1>0, <1>1
<1>8. RunOf(i + 1, i) = <<>>
  <2>1. RunOf(i + 1, (i + 1) - 1) = <<>>
    BY <1>0, ShortRuns
  <2> QED
    BY <1>7, <2>1
<1>9. PlacementIsSound(rows, contact, config, i, r, a, i + 1)
  BY <1>1, <1>3, <1>4, <1>5, <1>6, <1>7, <1>8 DEF PlacementIsSound
<1> QED
  BY <1>7, <1>9 DEF Placing

LEMMA SettleKeeps ==
    ASSUME NEW rows \in Motions, NEW config \in FootConfigs, Halves, NEW contact, NEW i \in DOMAIN rows,
           NEW s \in PlacementStates, NEW a, NEW b,
           PlacementIsSound(rows, contact, config, i - 1, s, a, b),
           Follows(rows, contact, config, i, s, a), contact[i] = "contact", rows[i].axis,
           s.stable = <<>>, NEW r, r = F!Settle(s, rows, i, config)
    PROVE  Placing(rows, contact, config, i, r)
<1>1. CASE F!Near(rows, i, i, config.enterAngle)
  BY <1>1, SureKeeps
<1>2. CASE ~F!Near(rows, i, i, config.enterAngle)
  BY <1>2, UnsureKeeps
<1> QED
  BY <1>1, <1>2

LEMMA PlacedKeeps ==
    ASSUME NEW rows \in Motions, NEW config \in FootConfigs, Halves, NEW contact, NEW i \in DOMAIN rows,
           NEW s \in PlacementStates, Placing(rows, contact, config, i - 1, s)
    PROVE  Placing(rows, contact, config, i, F!Placed(s, rows, contact, i, config))
<1> DEFINE now == Current(s, rows, i, config)
           new == [now EXCEPT !.seen = @ \cup {rows[i].source}]
           left == [new EXCEPT !.events = @ \cup F!Event("stable", now.stable), !.stable = <<>>]
           skipped == [F!Flushed(now) EXCEPT !.unavailable = @ \cup {i}]
           grown == [new EXCEPT !.stable = Append(@, i)]
           r == F!Placed(s, rows, contact, i, config)
<1>0. i \in Nat \ {0} /\ (i - 1) + 1 = i /\ i - 1 \in Nat /\ i - 1 \in 0..Len(rows)
      /\ rows[i].source \in Evidence
  BY RowsAreTyped
<1>1. r \in PlacementStates
  BY PlacedIsTyped
<1>2. r = IF contact[i] # "contact" THEN F!Flushed(now)
          ELSE IF ~rows[i].axis \/ rows[i].source \in now.seen THEN skipped
          ELSE IF now.stable = <<>> THEN F!Settle(new, rows, i, config)
          ELSE IF F!Near(rows, i, now.stable[1], config.leaveAngle) THEN grown
          ELSE F!Settle(left, rows, i, config)
  BY Zenon DEF F!Placed, Current
<1> HIDE DEF r
<1>3. now \in PlacementStates
  BY FlushedIs DEF Current
\* A gap flushes what waits.
<1>4. \E a, b : PlacementIsSound(rows, contact, config, i - 1, now, a, b)
             /\ Follows(rows, contact, config, i, now, a)
  <2>1. PICK a \in 1..((i - 1) + 1) : \E b \in a..((i - 1) + 1) :
          /\ PlacementIsSound(rows, contact, config, i - 1, s, a, b)
          /\ a = (i - 1) + 1 /\ i - 1 > 0 => ~Open(contact, s, i - 1)
    BY DEF Placing
  <2>2. PICK b \in a..((i - 1) + 1) :
          /\ PlacementIsSound(rows, contact, config, i - 1, s, a, b)
          /\ a = (i - 1) + 1 /\ i - 1 > 0 => ~Open(contact, s, i - 1)
    BY <2>1
  <2>3. CASE F!Gap(rows, i, config)
    <3>1. now = F!Flushed(s)
      BY <2>3 DEF Current
    <3>2. PlacementIsSound(rows, contact, config, i - 1, now, (i - 1) + 1, (i - 1) + 1)
      <4> HIDE DEF now
      <4> QED
        BY <1>0, <1>3, <2>2, <3>1, FlushedIs, FlushKeeps
    <3>3. Follows(rows, contact, config, i, now, (i - 1) + 1)
      BY <1>0, <2>3 DEF Follows
    <3> QED
      BY <3>2, <3>3
  <2>4. CASE ~F!Gap(rows, i, config)
    <3>1. now = s
      BY <2>4 DEF Current
    <3>2. Follows(rows, contact, config, i, now, a)
      BY <1>0, <2>2, <2>4, <3>1 DEF Follows
    <3> QED
      BY <2>2, <3>1, <3>2
  <2> QED
    BY <2>3, <2>4
<1> HIDE DEF now
<1>5. PICK a, b : PlacementIsSound(rows, contact, config, i - 1, now, a, b)
               /\ Follows(rows, contact, config, i, now, a)
  BY <1>4
<1>6. /\ F!Flushed(now) \in PlacementStates
      /\ F!Flushed(now).stable = <<>> /\ F!Flushed(now).candidate = <<>> /\ F!Flushed(now).moving = <<>>
      /\ F!Flushed(now).events = now.events \cup F!Event("stable", now.stable)
                                            \cup F!Event("moving", now.moving \o now.candidate)
      /\ F!Flushed(now).unavailable = now.unavailable
  BY <1>3, FlushedIs
<1>7. /\ PlacementIsSound(rows, contact, config, i - 1, F!Flushed(now), i, i)
      /\ now.stable # <<>> => ~Open(contact, F!Flushed(now), i - 1)
  BY <1>0, <1>3, <1>5, <1>6, FlushKeeps
<1>8. CASE contact[i] # "contact"
  <2>1. r = F!Flushed(now)
    BY <1>2, <1>8
  <2> QED
    BY <1>6, <1>7, <1>8, <2>1, SkipKeeps DEF r
<1>9. CASE contact[i] = "contact" /\ (~rows[i].axis \/ rows[i].source \in now.seen)
  <2>1. r = skipped
    BY <1>2, <1>9
  <2>2. /\ r.stable = <<>> /\ r.candidate = <<>> /\ r.moving = <<>>
        /\ r.events = F!Flushed(now).events
        /\ r.unavailable = F!Flushed(now).unavailable \cup {i}
    BY <1>6, <2>1 DEF PlacementStates
  <2> HIDE DEF skipped
  <2> QED
    BY <1>1, <1>6, <1>7, <2>2, SkipKeeps DEF r
<1>10. CASE contact[i] = "contact" /\ rows[i].axis /\ rows[i].source \notin now.seen
  <2>1. new \in PlacementStates
    BY <1>0, <1>3 DEF PlacementStates
  <2>2. /\ new.stable = now.stable /\ new.candidate = now.candidate /\ new.moving = now.moving
        /\ new.events = now.events /\ new.unavailable = now.unavailable
    BY <1>3 DEF PlacementStates
  <2>3. CASE now.stable = <<>>
    <3>1. r = F!Settle(new, rows, i, config)
      BY <1>2, <1>10, <2>3
    <3> HIDE DEF new
    <3>2. PlacementIsSound(rows, contact, config, i - 1, new, a, b)
      BY <1>5, <2>2 DEF PlacementIsSound, Tidy, Open
    <3>3. Follows(rows, contact, config, i, new, a)
      BY <1>5, <2>2 DEF Follows, Open
    <3> QED
      BY <1>10, <2>1, <2>2, <2>3, <3>1, <3>2, <3>3, SettleKeeps DEF r
  <2>4. CASE now.stable # <<>> /\ F!Near(rows, i, now.stable[1], config.leaveAngle)
    <3>1. r = grown
      BY <1>2, <1>10, <2>4
    <3> HIDE DEF new
    <3>2. Append(new.stable, i) \in Seq(Nat)
      BY <1>0, <2>1 DEF PlacementStates
    <3>3. /\ r.stable = Append(now.stable, i) /\ r.candidate = now.candidate
          /\ r.moving = now.moving /\ r.events = now.events /\ r.unavailable = now.unavailable
      BY <2>1, <2>2, <3>1 DEF PlacementStates
    <3> HIDE DEF grown
    <3> QED
      BY <1>1, <1>3, <1>5, <1>10, <2>4, <3>3, StableKeeps DEF r
  <2>5. CASE now.stable # <<>> /\ ~F!Near(rows, i, now.stable[1], config.leaveAngle)
    <3>1. r = F!Settle(left, rows, i, config)
      BY <1>2, <1>10, <2>5
    <3>2. now.stable \in Seq(Nat)
      BY <1>3 DEF PlacementStates
    <3> DEFINE events == new.events \cup F!Event("stable", now.stable)
    <3>3. left = [new EXCEPT !.events = events, !.stable = <<>>]
      OBVIOUS
    <3>4. events \in SUBSET PlacementEvents /\ events = now.events \cup F!Event("stable", now.stable)
      <4> HIDE DEF new
      <4> QED
        BY <2>1, <2>2, <3>2, EventIsTyped DEF PlacementStates
    <3> HIDE DEF events, left, new
    <3>5. left \in PlacementStates
      <4>1. <<>> \in Seq(Nat)
        OBVIOUS
      <4> QED
        BY <2>1, <3>3, <3>4, <4>1 DEF PlacementStates
    <3>6. /\ left.stable = <<>> /\ left.candidate = now.candidate /\ left.moving = now.moving
          /\ left.events = events /\ left.unavailable = now.unavailable
      BY <2>1, <2>2, <3>3 DEF PlacementStates
    <3>7. now.moving = <<>> /\ now.candidate = <<>>
      BY <1>5, <2>5 DEF PlacementIsSound
    <3>8. F!Flushed(now).events = events
      <4>1. now.moving \o now.candidate = <<>>
        BY <3>7
      <4> QED
        BY <1>6, <3>4, <4>1, NothingAdded
    <3>9. PlacementIsSound(rows, contact, config, i - 1, left, i, i)
      BY <1>6, <1>7, <3>6, <3>7, <3>8 DEF PlacementIsSound, Tidy, Open
    <3>10. Follows(rows, contact, config, i, left, i)
      <4>1. ~Open(contact, left, i - 1)
        BY <1>6, <1>7, <2>5, <3>6, <3>8 DEF Open
      <4> QED
        BY <1>0, <4>1 DEF Follows
    <3> QED
      BY <1>10, <3>1, <3>5, <3>6, <3>9, <3>10, SettleKeeps DEF r
  <2> QED
    BY <2>3, <2>4, <2>5
<1> QED
  BY <1>8, <1>9, <1>10 DEF r

\* What is placed is what the automaton makes of every row.
LEMMA PlacementsUnfold ==
    ASSUME NEW rows \in Motions, NEW config, NEW contact
    PROVE  \E c \in [0..Len(rows) -> PlacementStates] :
             /\ c[0] = F!Nothing
             /\ \A i \in 1..Len(rows) : c[i] = F!Placed(c[i - 1], rows, contact, i, config)
             /\ F!Placements(rows, contact, config) = F!Flushed(c[Len(rows)])
<1> DEFINE n == Len(rows)
           first == F!Nothing
           step == [x \in (1..n) \X PlacementStates |-> F!Placed(x[2], rows, contact, x[1], config)]
           Body(c) == [i \in 0..n |-> IF i = 0 THEN first ELSE F!Placed(c[i - 1], rows, contact, i, config)]
<1>0. n \in Nat /\ DOMAIN rows = 1..n
  BY RowsAreTyped
<1>1. first \in PlacementStates
  <2>1. <<>> \in Seq(Nat)
    OBVIOUS
  <2> QED
    BY <2>1 DEF F!Nothing, PlacementStates
<1>2. \A i \in 1..n : \A s \in PlacementStates : F!Placed(s, rows, contact, i, config) \in PlacementStates
  BY <1>0, PlacedIsTyped
<1>3. step \in [(1..n) \X PlacementStates -> PlacementStates]
  BY <1>2
<1>4. IsComputed(PlacementStates, first, n, step)
  <2> HIDE DEF n, first, step
  <2> QED
    BY <1>0, <1>1, <1>3, Recursion
<1>5. PICK h \in [0..n -> PlacementStates] : h[0] = first /\ \A i \in 1..n : h[i] = step[<<i, h[i - 1]>>]
  BY <1>4 DEF IsComputed
<1>6. ASSUME NEW i \in 1..n PROVE h[i] = F!Placed(h[i - 1], rows, contact, i, config)
  <2>1. h[i - 1] \in PlacementStates
    BY <1>0, <1>5
  <2> QED
    BY <2>1, <1>5
<1>7. h = Body(h)
  <2> HIDE DEF n, first
  <2> QED
    BY <1>0, <1>5, <1>6
<1> DEFINE c == CHOOSE c : c = Body(c)
<1>8. F!Placements(rows, contact, config) = F!Flushed(c[n])
  BY DEF F!Placements
<1>9. c = Body(c)
  <2> HIDE DEF Body
  <2> QED
    BY <1>7
<1> HIDE DEF c
<1>10. DOMAIN c = 0..n /\ c[0] = first
  BY <1>9, <1>0
<1>11. \A i \in 1..n : c[i] = F!Placed(c[i - 1], rows, contact, i, config)
  BY <1>9, <1>0
<1>12. ASSUME NEW i \in 0..n PROVE c[i] \in PlacementStates
  <2> DEFINE S == {m \in 0..n : c[m] \in PlacementStates}
  <2>1. 0 \in S
    <3> HIDE DEF n, first
    <3>1. 0 \in 0..n
      BY <1>0
    <3> QED
      BY <3>1, <1>1, <1>10
  <2>2. ASSUME NEW m \in 0..n, m \in S, m < n PROVE m + 1 \in S
    <3>1. m + 1 \in 1..n /\ (m + 1) - 1 = m
      BY <1>0, <2>2
    <3> QED
      BY <3>1, <1>11, <1>2, <2>2
  <2> HIDE DEF S
  <2>3. 0..n \subseteq S
    BY <1>0, <2>1, <2>2, SampleInduction
  <2> QED
    BY <2>3 DEF S
<1>13. c \in [0..n -> PlacementStates]
  <2>1. c = [i \in 0..n |-> c[i]]
    <3> HIDE DEF n, first
    <3> QED
      BY <1>9
  <2> HIDE DEF n
  <2> QED
    BY <2>1, <1>12
<1> QED
  BY <1>8, <1>10, <1>11, <1>13

LEMMA PlacementIsAlwaysEarned ==
    ASSUME NEW rows \in Motions, NEW config \in FootConfigs, Halves, NEW contact
    PROVE  F!PlacementIsEarned(rows, contact, config)
<1> DEFINE n == Len(rows)
           result == F!Placements(rows, contact, config)
<1>0. n \in Nat /\ DOMAIN rows = 1..n
  BY RowsAreTyped
<1>1. PICK c \in [0..n -> PlacementStates] :
        /\ c[0] = F!Nothing
        /\ \A i \in 1..n : c[i] = F!Placed(c[i - 1], rows, contact, i, config)
        /\ result = F!Flushed(c[n])
  BY PlacementsUnfold
<1> DEFINE S == {i \in 0..n : Placing(rows, contact, config, i, c[i])}
<1>2. 0 \in S
  <2>1. /\ c[0].stable = <<>> /\ c[0].moving = <<>> /\ c[0].candidate = <<>>
        /\ c[0].events = {} /\ c[0].unavailable = {}
    BY <1>1 DEF F!Nothing
  <2>2. RunOf(1, 1 - 1) = <<>> /\ RunOf(1, 0) = <<>>
    <3>1. RunOf(1, 1 - 1) = <<>>
      BY ShortRuns
    <3> QED
      BY <3>1
  <2>3. EventsAreSound(rows, contact, config, c[0].events, c[0].unavailable, 1)
    BY <2>1 DEF EventsAreSound, F!Disjoint
  <2>4. Carried(rows, contact, config, c[0].unavailable, 1, 0)
    BY DEF Carried, F!Joined
  <2>5. PlacementIsSound(rows, contact, config, 0, c[0], 1, 1)
    <3>1. 1 \in 1..(0 + 1) /\ \A m : m \notin 2..0 /\ m \notin 1..0
      OBVIOUS
    <3> QED
      BY <2>1, <2>2, <2>3, <2>4, <3>1 DEF PlacementIsSound
  <2> QED
    BY <1>0, <2>5 DEF Placing
<1>3. ASSUME NEW i \in 0..n, i \in S, i < n PROVE i + 1 \in S
  <2>1. i + 1 \in 1..n /\ (i + 1) - 1 = i /\ i + 1 \in 0..n
    BY <1>0, <1>3
  <2>2. c[i] \in PlacementStates /\ Placing(rows, contact, config, i, c[i])
    BY <1>1, <1>3
  <2>3. c[i + 1] = F!Placed(c[i], rows, contact, i + 1, config)
    BY <1>0, <1>1, <2>1
  <2>4. Placing(rows, contact, config, i + 1, c[i + 1])
    BY <1>0, <2>1, <2>2, <2>3, PlacedKeeps
  <2> QED
    BY <2>1, <2>4
<1>4. 0..n \subseteq S
  <2> HIDE DEF S
  <2> QED
    BY <1>0, <1>2, <1>3, SampleInduction
<1>5. Placing(rows, contact, config, n, c[n]) /\ c[n] \in PlacementStates
  BY <1>0, <1>1, <1>4
<1> HIDE DEF result
<1>6. PICK a, b : PlacementIsSound(rows, contact, config, n, c[n], a, b)
  BY <1>5 DEF Placing
<1>7. result \in PlacementStates /\ PlacementIsSound(rows, contact, config, n, result, n + 1, n + 1)
  <2>1. n \in 0..Len(rows)
    BY <1>0
  <2> HIDE DEF n
  <2> QED
    BY <1>1, <1>5, <1>6, <2>1, FlushedIs, FlushKeeps
<1>8. /\ EventsAreSound(rows, contact, config, result.events, result.unavailable, n + 1)
      /\ \A m \in 2..n : Tidy(rows, contact, config, result, m)
  <2>1. \A m \in 2..n : m < n + 1
    BY <1>0
  <2> HIDE DEF n
  <2> QED
    BY <1>7, <2>1 DEF PlacementIsSound
<1> DEFINE placed == UNION {e.first .. e.last : e \in result.events}
           Left(i) == contact[i] = "contact" /\ i \notin result.unavailable \cup placed
<1>9. \A i : Left(i) => Open(contact, result, i)
  BY DEF Open
<1> HIDE DEF Left
<1>10. ASSUME NEW i \in 2..Len(rows), Left(i - 1), Left(i) PROVE rows[i].t - rows[i - 1].t > config.gap
  <2>1. F!Gap(rows, i, config)
    BY <1>8, <1>9, <1>10 DEF Tidy
  <2> QED
    BY <2>1 DEF F!Gap
<1>11. /\ F!Disjoint(result.events)
       /\ \A e \in result.events :
            /\ F!Joined(rows, e.first, e.last, config)
            /\ \A m \in e.first .. e.last :
                 contact[m] = "contact" /\ rows[m].axis /\ m \notin result.unavailable
            /\ e.kind = "stable" =>
                 /\ rows[e.last].t - rows[e.first].t >= config.still
                 /\ F!Near(rows, e.first, e.first, config.enterAngle)
                 /\ \A m \in e.first .. e.last : F!Near(rows, m, e.first, config.leaveAngle)
  BY <1>8 DEF EventsAreSound, Carried, Stays
<1> QED
  BY <1>10, <1>11, Zenon DEF F!PlacementIsEarned, result, Left, placed

-----------------------------------------------------------------------------
(* Pivots.                                                                 *)

Turns == [first : Nat, last : Nat]

PivotStates ==
    {s \in [previous : Nat, active : Seq(Nat), motion : Nat, seen : SUBSET Evidence,
            supported : SUBSET Nat, events : SUBSET Turns] :
        s.active = <<>> => s.motion = 0}

\* The pivots once those samples are over.
Ended(s, rows, config) ==
    IF s.motion # 0 /\ F!Excursion(rows, s.active[1], s.motion, config.excursion)
    THEN s.events \cup {[first |-> s.active[1], last |-> s.motion]} ELSE s.events

LEMMA EmittedIs ==
    ASSUME NEW rows, NEW config, NEW s \in PivotStates, NEW r, r = F!Emitted(s, rows, config)
    PROVE  /\ r \in PivotStates /\ r.active = <<>> /\ r.motion = 0
           /\ r.previous = s.previous /\ r.supported = s.supported /\ r.seen = s.seen
           /\ r.events = Ended(s, rows, config)
<1> DEFINE events == Ended(s, rows, config)
<1>1. events \in SUBSET Turns
  <2>1. s.events \in SUBSET Turns /\ s.motion \in Nat /\ s.active \in Seq(Nat)
    BY DEF PivotStates
  <2>2. s.motion # 0 => s.active[1] \in Nat
    <3>1. s.motion # 0 => s.active # <<>>
      BY DEF PivotStates
    <3>2. s.active # <<>> => 1 \in DOMAIN s.active
      BY <2>1
    <3> QED
      BY <2>1, <3>1, <3>2, ElementsAreTyped
  <2> QED
    BY <2>1, <2>2 DEF Ended, Turns
<1>2. r = [s EXCEPT !.active = <<>>, !.motion = 0, !.events = events]
  BY Zenon DEF F!Emitted, Ended
<1> HIDE DEF events
<1>3. <<>> \in Seq(Nat)
  OBVIOUS
<1>4. /\ r.active = <<>> /\ r.motion = 0
      /\ r.previous = s.previous /\ r.supported = s.supported /\ r.seen = s.seen
      /\ r.events = events
  BY <1>2 DEF PivotStates
<1>5. r \in PivotStates
  <2>1. /\ s.previous \in Nat /\ s.seen \in SUBSET Evidence /\ s.supported \in SUBSET Nat
        /\ s = [previous |-> s.previous, active |-> s.active, motion |-> s.motion, seen |-> s.seen,
                supported |-> s.supported, events |-> s.events]
    BY DEF PivotStates
  <2>2. r = [previous |-> s.previous, active |-> <<>>, motion |-> 0, seen |-> s.seen,
             supported |-> s.supported, events |-> events]
    BY <1>2, <2>1
  <2> QED
    BY <1>1, <1>3, <2>1, <2>2 DEF PivotStates
<1> QED
  BY <1>4, <1>5 DEF events

\* Where the row starts from, and what it leaves behind in any case.
Usable(was, rows, i) == rows[i].axis /\ rows[i].source \notin was.seen

Broken(was, rows, i, config) ==
    ~Usable(was, rows, i) \/ (was.previous # 0 /\ rows[i].t - rows[was.previous].t > config.gap)

Resumed(was, rows, i, config) ==
    IF Broken(was, rows, i, config)
    THEN [F!Emitted(was, rows, config) EXCEPT !.previous = 0, !.seen = {}] ELSE was

Noted(s, rows, contact, i) ==
    [s EXCEPT !.seen = @ \cup {rows[i].source}, !.previous = i,
              !.supported = IF F!Supported(rows, contact, i) THEN @ \cup {i} ELSE @]

LEMMA ResumedIs ==
    ASSUME NEW rows, NEW config, NEW i, NEW s \in PivotStates, NEW r, r = Resumed(s, rows, i, config)
    PROVE  /\ r \in PivotStates
           /\ ~Broken(s, rows, i, config) => r = s
           /\ Broken(s, rows, i, config) =>
                /\ r.previous = 0 /\ r.active = <<>> /\ r.motion = 0
                /\ r.supported = s.supported /\ r.events = Ended(s, rows, config)
<1> DEFINE q == F!Emitted(s, rows, config)
<1>1. /\ q \in PivotStates /\ q.active = <<>> /\ q.motion = 0
      /\ q.supported = s.supported /\ q.events = Ended(s, rows, config)
  BY EmittedIs
<1> HIDE DEF q
<1>2. CASE Broken(s, rows, i, config)
  <2>1. r = [q EXCEPT !.previous = 0, !.seen = {}]
    BY <1>2 DEF Resumed, q
  <2> QED
    BY <1>1, <1>2, <2>1 DEF PivotStates
<1>3. CASE ~Broken(s, rows, i, config)
  BY <1>3 DEF Resumed
<1> QED
  BY <1>2, <1>3

LEMMA NotedIs ==
    ASSUME NEW rows, NEW contact, NEW i \in Nat, rows[i].source \in Evidence,
           NEW s \in PivotStates, NEW r, r = Noted(s, rows, contact, i)
    PROVE  /\ r \in PivotStates /\ r.previous = i /\ r.active = s.active /\ r.motion = s.motion
           /\ r.events = s.events
           /\ \A n \in r.supported : n \in s.supported \/ (n = i /\ F!Supported(rows, contact, i))
<1> DEFINE supported == IF F!Supported(rows, contact, i) THEN s.supported \cup {i} ELSE s.supported
           seen == s.seen \cup {rows[i].source}
<1>1. supported \in SUBSET Nat /\ seen \in SUBSET Evidence
  BY DEF PivotStates
<1>2. r = [s EXCEPT !.seen = seen, !.previous = i, !.supported = supported]
  BY Zenon DEF Noted
<1> HIDE DEF supported, seen
<1>3. /\ r \in PivotStates /\ r.previous = i /\ r.active = s.active /\ r.motion = s.motion
      /\ r.events = s.events /\ r.supported = supported
  BY <1>1, <1>2 DEF PivotStates
<1> QED
  BY <1>3 DEF supported

Swings(s, rows, i, speed) ==
    F!Abs(F!Wrap(rows[i].yaw - rows[s.previous].yaw)) >= speed * (rows[i].t - rows[s.previous].t)

LEMMA TurnedUnfolds ==
    ASSUME NEW rows, NEW contact, NEW config, NEW i, NEW was
    PROVE  LET s == Resumed(was, rows, i, config)
               seen == Noted(s, rows, contact, i)
               grown == [seen EXCEPT !.active = Append(@, i)]
           IN
           F!Turned(was, rows, contact, i, config) =
             IF ~Usable(was, rows, i) THEN s
             ELSE IF s.previous = 0 THEN seen
             ELSE IF F!Abs(F!Wrap(rows[i].yaw - rows[s.previous].yaw)) = Turn \div 2
             THEN [F!Emitted(seen, rows, config) EXCEPT !.supported = s.supported]
             ELSE IF ~({s.previous, i} \subseteq seen.supported) THEN F!Emitted(seen, rows, config)
             ELSE IF s.active = <<>>
             THEN IF Swings(s, rows, i, config.enterTurn)
                  THEN [seen EXCEPT !.active = <<s.previous, i>>, !.motion = i] ELSE seen
             ELSE IF Swings(s, rows, i, config.leaveTurn) THEN [grown EXCEPT !.motion = i]
             ELSE IF rows[i].t - rows[s.motion].t >= config.quiet THEN F!Emitted(grown, rows, config)
             ELSE grown
  BY Zenon DEF F!Turned, Resumed, Broken, Usable, Noted, Swings

LEMMA GrownIs ==
    ASSUME NEW i \in Nat \ {0}, NEW s \in PivotStates, NEW r, r = [s EXCEPT !.active = Append(@, i)]
    PROVE  /\ r \in PivotStates /\ r.active = Append(s.active, i) /\ r.active # <<>>
           /\ r.previous = s.previous /\ r.motion = s.motion
           /\ r.supported = s.supported /\ r.events = s.events
<1> DEFINE active == Append(s.active, i)
<1>1. active \in Seq(Nat) /\ active # <<>>
  <2>1. s.active \in Seq(Nat)
    BY DEF PivotStates
  <2>2. active \in Seq(Nat) /\ Len(active) = Len(s.active) + 1 /\ Len(s.active) \in Nat
    BY <2>1
  <2>3. Len(<<>>) = 0
    OBVIOUS
  <2> HIDE DEF active
  <2> QED
    BY <2>2, <2>3
<1>2. r = [s EXCEPT !.active = active]
  OBVIOUS
<1> HIDE DEF active
<1>3. /\ r \in PivotStates /\ r.active = active
      /\ r.previous = s.previous /\ r.motion = s.motion
      /\ r.supported = s.supported /\ r.events = s.events
  BY <1>1, <1>2 DEF PivotStates
<1> QED
  BY <1>1, <1>3 DEF active

LEMMA TurnedIsTyped ==
    ASSUME NEW rows \in Motions, NEW contact, NEW config, NEW i \in DOMAIN rows, NEW was \in PivotStates
    PROVE  F!Turned(was, rows, contact, i, config) \in PivotStates
<1> DEFINE s == Resumed(was, rows, i, config)
           seen == Noted(s, rows, contact, i)
           grown == [seen EXCEPT !.active = Append(@, i)]
           emitted == [F!Emitted(seen, rows, config) EXCEPT !.supported = s.supported]
           started == [seen EXCEPT !.active = <<s.previous, i>>, !.motion = i]
<1>0. i \in Nat \ {0} /\ i \in Nat /\ rows[i].source \in Evidence
  BY RowsAreTyped
<1>1. s \in PivotStates
  BY ResumedIs
<1> HIDE DEF s
<1>2. seen \in PivotStates
  BY <1>0, <1>1, NotedIs
<1> HIDE DEF seen
<1>3. grown \in PivotStates /\ [grown EXCEPT !.motion = i] \in PivotStates
  <2>1. grown \in PivotStates /\ grown.active # <<>>
    BY <1>0, <1>2, GrownIs
  <2> HIDE DEF grown
  <2> QED
    BY <1>0, <2>1 DEF PivotStates
<1> HIDE DEF grown
<1>4. F!Emitted(seen, rows, config) \in PivotStates /\ F!Emitted(grown, rows, config) \in PivotStates
  BY <1>2, <1>3, EmittedIs
<1>5. emitted \in PivotStates
  BY <1>1, <1>4 DEF PivotStates
<1>6. started \in PivotStates
  <2>1. <<s.previous, i>> \in Seq(Nat) /\ <<s.previous, i>> # <<>>
    <3>1. s.previous \in Nat
      BY <1>1 DEF PivotStates
    <3> QED
      BY <1>0, <3>1
  <2> DEFINE pair == <<s.previous, i>>
  <2> HIDE DEF pair
  <2>2. started = [seen EXCEPT !.active = pair, !.motion = i] /\ pair \in Seq(Nat) /\ pair # <<>>
    BY <2>1 DEF pair
  <2> QED
    BY <1>0, <1>2, <2>2 DEF PivotStates
<1> HIDE DEF emitted, started
<1>7. F!Turned(was, rows, contact, i, config) =
        IF ~Usable(was, rows, i) THEN s
        ELSE IF s.previous = 0 THEN seen
        ELSE IF F!Abs(F!Wrap(rows[i].yaw - rows[s.previous].yaw)) = Turn \div 2 THEN emitted
        ELSE IF ~({s.previous, i} \subseteq seen.supported) THEN F!Emitted(seen, rows, config)
        ELSE IF s.active = <<>>
        THEN IF Swings(s, rows, i, config.enterTurn) THEN started ELSE seen
        ELSE IF Swings(s, rows, i, config.leaveTurn) THEN [grown EXCEPT !.motion = i]
        ELSE IF rows[i].t - rows[s.motion].t >= config.quiet THEN F!Emitted(grown, rows, config)
        ELSE grown
  BY TurnedUnfolds, Zenon DEF s, seen, grown, emitted, started
<1> QED
  BY <1>1, <1>2, <1>3, <1>4, <1>5, <1>6, <1>7, Zenon

\* How far the foot turned from the row before, and whether that keeps a pivot going.
Step(rows, n) == F!Abs(F!Wrap(rows[n].yaw - rows[n - 1].yaw))

Moves(rows, config, n) == Step(rows, n) >= config.leaveTurn * (rows[n].t - rows[n - 1].t)

\* A row with an axis, of a foot that carries weight.
Bears(rows, contact, n) == F!Supported(rows, contact, n) /\ rows[n].axis

\* A turn on rows a to c that may be a pivot.
Turning(rows, contact, config, a, c) ==
    /\ F!Joined(rows, a, c, config)
    /\ \A n \in a..c : Bears(rows, contact, n)
    /\ \A n \in (a + 1)..c : Step(rows, n) < Turn \div 2
    /\ \A n \in (a + 2)..c : ~Moves(rows, config, n) =>
         \E m \in (a + 1)..(n - 1) : Moves(rows, config, m) /\ rows[n].t - rows[m].t < config.quiet

\* The pivots that are made so far end before row k.
TurnsAreSound(rows, contact, config, events, k) ==
    /\ events \in SUBSET Turns
    /\ F!Disjoint(events)
    /\ \A e \in events : e.first < e.last /\ e.last < k /\ Turning(rows, contact, config, e.first, e.last)

\* After row i the foot has been turning since row a.
Swinging(rows, contact, config, i, s, a) ==
    /\ s.active = RunOf(a, i) /\ s.previous = i
    /\ s.motion \in (a + 1)..i /\ Moves(rows, config, s.motion)
    /\ Turning(rows, contact, config, a, i)
    /\ TurnsAreSound(rows, contact, config, s.events, a)

\* What the pivots remember after row i.
PivotIsSound(rows, contact, config, i, s) ==
    /\ s.previous \in {0, i}
    /\ \A n \in s.supported : n \in 1..i /\ Bears(rows, contact, n)
    /\ s.active = <<>> => TurnsAreSound(rows, contact, config, s.events, i)
    /\ s.active # <<>> => \E a \in 1..(i - 1) : Swinging(rows, contact, config, i, s, a)

LEMMA TurnsStay ==
    ASSUME NEW rows, NEW contact, NEW config, NEW events, NEW k \in Int, NEW l \in Int, k <= l,
           TurnsAreSound(rows, contact, config, events, k)
    PROVE  TurnsAreSound(rows, contact, config, events, l)
<1>1. \A e \in events : e.last \in Nat /\ e.last < k
  BY DEF TurnsAreSound, Turns
<1>2. \A e \in events : e.last < l
  BY <1>1
<1> QED
  BY <1>2 DEF TurnsAreSound

\* A shorter stretch from the same row is as good.
LEMMA TurningShrinks ==
    ASSUME NEW rows, NEW contact, NEW config, NEW a \in Int, NEW c \in Int, NEW d \in Int, c <= d,
           Turning(rows, contact, config, a, d)
    PROVE  Turning(rows, contact, config, a, c)
<1>1. /\ \A n \in a..c : n \in a..d
      /\ \A n \in (a + 1)..c : n \in (a + 1)..d
      /\ \A n \in (a + 2)..c : n \in (a + 2)..d
  OBVIOUS
<1> QED
  BY <1>1 DEF Turning, F!Joined

\* The pivot that ends is added to those before it.
LEMMA EndedIsSound ==
    ASSUME NEW rows, NEW contact, NEW config, NEW s \in PivotStates, NEW k \in Nat,
           \/ s.motion = 0 /\ TurnsAreSound(rows, contact, config, s.events, k)
           \/ \E a \in Nat : /\ s.active[1] = a /\ a < s.motion /\ s.motion < k
                             /\ Turning(rows, contact, config, a, s.motion)
                             /\ TurnsAreSound(rows, contact, config, s.events, a)
    PROVE  TurnsAreSound(rows, contact, config, Ended(s, rows, config), k)
<1>1. CASE s.motion = 0 /\ TurnsAreSound(rows, contact, config, s.events, k)
  BY <1>1 DEF Ended
<1>2. ASSUME NEW a \in Nat, s.active[1] = a, a < s.motion, s.motion < k,
             Turning(rows, contact, config, a, s.motion),
             TurnsAreSound(rows, contact, config, s.events, a)
      PROVE  TurnsAreSound(rows, contact, config, Ended(s, rows, config), k)
  <2> DEFINE f == [first |-> s.active[1], last |-> s.motion]
  <2>1. s.motion \in Nat /\ f.first = a /\ f.last = s.motion /\ f \in Turns
    BY <1>2 DEF PivotStates, Turns
  <2>2. TurnsAreSound(rows, contact, config, s.events, k)
    BY <1>2, <2>1, TurnsStay
  <2>3. Ended(s, rows, config) = s.events \cup {f} \/ Ended(s, rows, config) = s.events
    BY DEF Ended
  <2> HIDE DEF f
  <2>4. \A e \in s.events : e.first \in Nat /\ e.last \in Nat /\ e.first < e.last /\ e.last < a
    BY <1>2 DEF TurnsAreSound, Turns
  <2>5. F!Disjoint(s.events \cup {f})
    BY <2>1, <2>2, <2>4 DEF F!Disjoint, TurnsAreSound
  <2>6. \A e \in s.events \cup {f} :
          e.first < e.last /\ e.last < k /\ Turning(rows, contact, config, e.first, e.last)
    BY <1>2, <2>1, <2>2 DEF TurnsAreSound
  <2>7. s.events \cup {f} \in SUBSET Turns
    BY <2>1, <2>2 DEF TurnsAreSound
  <2>8. TurnsAreSound(rows, contact, config, s.events \cup {f}, k)
    BY <2>5, <2>6, <2>7 DEF TurnsAreSound
  <2> QED
    BY <2>2, <2>3, <2>8
<1> QED
  BY <1>1, <1>2

\* The pivots once those samples are over, whatever the row was that ended them.
LEMMA EndingIsSound ==
    ASSUME NEW rows \in Motions, NEW contact, NEW config, NEW i \in 0..Len(rows),
           NEW s \in PivotStates, PivotIsSound(rows, contact, config, i, s),
           NEW r \in PivotStates, r.motion = s.motion, r.events = s.events,
           s.active # <<>> => r.active[1] = s.active[1]
    PROVE  TurnsAreSound(rows, contact, config, Ended(r, rows, config), i + 1)
<1>0. i \in Nat /\ i + 1 \in Nat
  BY RowsAreTyped
<1>1. CASE s.active = <<>>
  <2>1. s.motion = 0
    BY <1>1 DEF PivotStates
  <2>2. TurnsAreSound(rows, contact, config, s.events, i + 1)
    BY <1>0, <1>1, TurnsStay DEF PivotIsSound
  <2> QED
    BY <1>0, <2>1, <2>2, EndedIsSound
<1>2. CASE s.active # <<>>
  <2>1. PICK a \in 1..(i - 1) : Swinging(rows, contact, config, i, s, a)
    BY <1>2 DEF PivotIsSound
  <2>2. a \in Nat /\ i \in Int /\ a - 1 <= i /\ a <= i /\ i \in Nat
    BY <1>0
  <2>3. s.active[1] = a
    BY <2>1, <2>2, RunStarts DEF Swinging
  <2>4. s.motion \in Nat /\ a < s.motion /\ s.motion < i + 1 /\ s.motion <= i
    BY <2>1, <2>2 DEF Swinging
  <2>5. Turning(rows, contact, config, a, s.motion)
    BY <2>1, <2>2, <2>4, TurningShrinks DEF Swinging
  <2>6. TurnsAreSound(rows, contact, config, s.events, a)
    BY <2>1 DEF Swinging
  <2> QED
    BY <1>0, <1>2, <2>2, <2>3, <2>4, <2>5, <2>6, EndedIsSound
<1> QED
  BY <1>1, <1>2

\* A row continues a turn.
LEMMA TurningGrows ==
    ASSUME NEW rows \in Motions, NEW contact, NEW config \in FootConfigs, NEW i \in 2..Len(rows),
           NEW a \in 1..(i - 1), Turning(rows, contact, config, a, i - 1), ~F!Gap(rows, i, config),
           Bears(rows, contact, i), Step(rows, i) < Turn \div 2,
           \/ Moves(rows, config, i)
           \/ \E m \in (a + 1)..(i - 1) : Moves(rows, config, m) /\ rows[i].t - rows[m].t < config.quiet
    PROVE  Turning(rows, contact, config, a, i)
<1>1. F!Joined(rows, a, i, config)
  BY JoinedGrows DEF Turning
<1>2. /\ \A n \in a..i : n \in a..(i - 1) \/ n = i
      /\ \A n \in (a + 1)..i : n \in (a + 1)..(i - 1) \/ n = i
      /\ \A n \in (a + 2)..i : n \in (a + 2)..(i - 1) \/ n = i
  OBVIOUS
<1>3. /\ \A n \in a..i : Bears(rows, contact, n)
      /\ \A n \in (a + 1)..i : Step(rows, n) < Turn \div 2
  BY <1>2 DEF Turning
<1>4. ASSUME NEW n \in (a + 2)..i, ~Moves(rows, config, n)
      PROVE  \E m \in (a + 1)..(n - 1) : Moves(rows, config, m) /\ rows[n].t - rows[m].t < config.quiet
  BY <1>2, <1>4 DEF Turning
<1> QED
  BY <1>1, <1>3, <1>4 DEF Turning

LEMMA TurnedKeeps ==
    ASSUME NEW rows \in Motions, NEW config \in FootConfigs, Halves, NEW contact, NEW i \in DOMAIN rows,
           NEW was \in PivotStates, PivotIsSound(rows, contact, config, i - 1, was)
    PROVE  PivotIsSound(rows, contact, config, i, F!Turned(was, rows, contact, i, config))
<1> DEFINE s == Resumed(was, rows, i, config)
           seen == Noted(s, rows, contact, i)
           grown == [seen EXCEPT !.active = Append(@, i)]
           emitted == [F!Emitted(seen, rows, config) EXCEPT !.supported = s.supported]
           started == [seen EXCEPT !.active = <<s.previous, i>>, !.motion = i]
           moved == [grown EXCEPT !.motion = i]
           delta == F!Abs(F!Wrap(rows[i].yaw - rows[s.previous].yaw))
           r == F!Turned(was, rows, contact, i, config)
<1> SUFFICES PivotIsSound(rows, contact, config, i, r)
  OBVIOUS
<1>0. /\ i \in Nat \ {0} /\ i \in Nat /\ (i - 1) + 1 = i /\ i - 1 \in Nat /\ i - 1 \in 0..Len(rows)
      /\ i \in Int /\ i \in 1..Len(rows) /\ Len(rows) \in Nat /\ rows[i].source \in Evidence
  BY RowsAreTyped
<1>1. r \in PivotStates
  BY TurnedIsTyped
<1>2. r = IF ~Usable(was, rows, i) THEN s
          ELSE IF s.previous = 0 THEN seen
          ELSE IF delta = Turn \div 2 THEN emitted
          ELSE IF ~({s.previous, i} \subseteq seen.supported) THEN F!Emitted(seen, rows, config)
          ELSE IF s.active = <<>>
          THEN IF Swings(s, rows, i, config.enterTurn) THEN started ELSE seen
          ELSE IF Swings(s, rows, i, config.leaveTurn) THEN moved
          ELSE IF rows[i].t - rows[s.motion].t >= config.quiet THEN F!Emitted(grown, rows, config)
          ELSE grown
  BY TurnedUnfolds, Zenon DEF r, s, seen, grown, emitted, started, moved, delta
<1> HIDE DEF r
<1>3. /\ s \in PivotStates
      /\ ~Broken(was, rows, i, config) => s = was
      /\ Broken(was, rows, i, config) =>
           /\ s.previous = 0 /\ s.active = <<>> /\ s.motion = 0
           /\ s.supported = was.supported /\ s.events = Ended(was, rows, config)
  BY ResumedIs
<1> HIDE DEF s
<1>4. /\ seen \in PivotStates /\ seen.previous = i /\ seen.active = s.active /\ seen.motion = s.motion
      /\ seen.events = s.events
      /\ \A n \in seen.supported : n \in s.supported \/ (n = i /\ F!Supported(rows, contact, i))
  BY <1>0, <1>3, NotedIs
<1> HIDE DEF seen
<1>5. /\ grown \in PivotStates /\ grown.active = Append(seen.active, i) /\ grown.active # <<>>
      /\ grown.previous = seen.previous /\ grown.motion = seen.motion
      /\ grown.supported = seen.supported /\ grown.events = seen.events
      /\ moved \in PivotStates
  <2> HIDE DEF grown
  <2>1. grown = [seen EXCEPT !.active = Append(@, i)]
    BY DEF grown
  <2>0. seen \in PivotStates /\ i \in Nat \ {0}
    BY <1>0, <1>4
  <2>2. /\ grown \in PivotStates /\ grown.active = Append(seen.active, i) /\ grown.active # <<>>
        /\ grown.previous = seen.previous /\ grown.motion = seen.motion
        /\ grown.supported = seen.supported /\ grown.events = seen.events
    BY <2>0, <2>1, GrownIs
  <2>3. moved \in PivotStates
    BY <1>0, <2>2 DEF PivotStates
  <2> QED
    BY <2>2, <2>3
<1> HIDE DEF grown
<1>6. TurnsAreSound(rows, contact, config, Ended(was, rows, config), i)
  <2>1. TurnsAreSound(rows, contact, config, Ended(was, rows, config), (i - 1) + 1)
    BY <1>0, EndingIsSound
  <2> QED
    BY <1>0, <2>1
\* What is known of the feet stays known.
<1>7. /\ s.supported = was.supported
      /\ \A n \in s.supported : n \in 1..i /\ Bears(rows, contact, n)
      /\ Usable(was, rows, i) =>
           \A n \in seen.supported : n \in 1..i /\ Bears(rows, contact, n)
  <2>1. s.supported = was.supported
    BY <1>3
  <2>2. \A n \in was.supported : n \in 1..(i - 1) /\ Bears(rows, contact, n)
    BY DEF PivotIsSound
  <2>3. \A n \in 1..(i - 1) : n \in 1..i
    BY <1>0
  <2>4. \A n \in s.supported : n \in 1..i /\ Bears(rows, contact, n)
    BY <2>1, <2>2, <2>3
  <2>5. i \in 1..i
    BY <1>0
  <2>6. \A n \in seen.supported : n \in s.supported \/ (n = i /\ F!Supported(rows, contact, i))
    BY <1>4
  <2>7. ASSUME Usable(was, rows, i), NEW n \in seen.supported
        PROVE  n \in 1..i /\ Bears(rows, contact, n)
    BY <2>4, <2>5, <2>6, <2>7 DEF Usable, Bears
  <2> QED
    BY <2>1, <2>4, <2>7
\* Nothing is under way.
<1>8. ASSUME r.active = <<>>, r.previous \in {0, i}, r.supported \in {s.supported, seen.supported},
             r.supported = s.supported \/ Usable(was, rows, i),
             TurnsAreSound(rows, contact, config, r.events, i)
      PROVE  PivotIsSound(rows, contact, config, i, r)
  BY <1>7, <1>8 DEF PivotIsSound
<1>9. CASE Broken(was, rows, i, config)
  <2>1. r = s \/ (r = seen /\ Usable(was, rows, i))
    BY <1>2, <1>3, <1>9
  <2>2. r.active = <<>> /\ r.previous \in {0, i} /\ r.supported \in {s.supported, seen.supported}
        /\ (r.supported = s.supported \/ Usable(was, rows, i))
        /\ r.events = Ended(was, rows, config)
    BY <1>3, <1>4, <1>9, <2>1
  <2> QED
    BY <1>6, <1>8, <2>2
<1>10. CASE ~Broken(was, rows, i, config)
  <2>0. s = was /\ Usable(was, rows, i)
    BY <1>3, <1>10 DEF Broken
  <2>1. s.previous \in {0, i - 1}
    BY <2>0 DEF PivotIsSound
  <2>2. s.active = <<>> => s.motion = 0 /\ TurnsAreSound(rows, contact, config, s.events, i)
    <3>1. s.active = <<>> => TurnsAreSound(rows, contact, config, s.events, i - 1)
      BY <2>0 DEF PivotIsSound
    <3>2. s.active = <<>> => TurnsAreSound(rows, contact, config, s.events, i)
      BY <1>0, <3>1, TurnsStay
    <3> QED
      BY <1>3, <3>2 DEF PivotStates
  <2>3. CASE s.previous = 0
    <3>1. r = seen
      BY <1>2, <2>0, <2>3
    <3>2. s.active = <<>>
      <4>1. SUFFICES ASSUME s.active # <<>> PROVE FALSE
        OBVIOUS
      <4>2. PICK a \in 1..((i - 1) - 1) : Swinging(rows, contact, config, i - 1, s, a)
        BY <2>0, <4>1 DEF PivotIsSound
      <4> QED
        BY <1>0, <2>3, <4>2 DEF Swinging
    <3> QED
      BY <1>4, <1>8, <2>0, <2>2, <3>1, <3>2
  <2>4. CASE s.previous # 0
    <3>0. /\ s.previous = i - 1 /\ i - 1 # 0 /\ i \in 2..Len(rows) /\ i > 1 /\ i - 1 \in DOMAIN rows
          /\ delta = Step(rows, i)
      BY <1>0, <2>1, <2>4, RowsAreTyped DEF Step
    <3>1. ~F!Gap(rows, i, config)
      BY <1>10, <2>0, <3>0 DEF Broken, F!Gap
    <3>2. /\ Swings(s, rows, i, config.leaveTurn) <=> Moves(rows, config, i)
          /\ Swings(s, rows, i, config.enterTurn) => Moves(rows, config, i)
      <4> DEFINE d == rows[i].t - rows[i - 1].t
                 x == config.leaveTurn * d
                 y == config.enterTurn * d
                 z == Step(rows, i)
      <4>1. d \in Nat
        BY <3>0, RowsAreTyped
      <4>2. x \in Int /\ y \in Int /\ x <= y
        <5> HIDE DEF d
        <5> QED
          BY <4>1, ThresholdsAreTyped, ProductGrows
      <4>3. z \in Nat
        <5>1. rows[i].yaw - rows[i - 1].yaw \in Int
          BY <3>0, RowsAreTyped
        <5> QED
          BY <5>1, WrapIsTyped DEF Step
      <4>4. /\ Swings(s, rows, i, config.leaveTurn) <=> z >= x
            /\ Swings(s, rows, i, config.enterTurn) <=> z >= y
            /\ Moves(rows, config, i) <=> z >= x
        BY <3>0 DEF Swings, Moves, Step
      <4> HIDE DEF x, y, z, d
      <4> QED
        BY <4>2, <4>3, <4>4
    <3>3. TurnsAreSound(rows, contact, config, Ended(seen, rows, config), i)
      <4>1. TurnsAreSound(rows, contact, config, Ended(seen, rows, config), (i - 1) + 1)
        BY <1>0, <1>4, <2>0, EndingIsSound
      <4> QED
        BY <1>0, <4>1
    <3>4. /\ F!Emitted(seen, rows, config) \in PivotStates /\ F!Emitted(seen, rows, config).active = <<>>
          /\ F!Emitted(seen, rows, config).previous = i
          /\ F!Emitted(seen, rows, config).supported = seen.supported
          /\ F!Emitted(seen, rows, config).events = Ended(seen, rows, config)
      BY <1>4, EmittedIs
    <3>5. CASE delta = Turn \div 2
      <4>1. r = emitted
        BY <1>2, <2>0, <2>4, <3>5
      <4>2. r.active = <<>> /\ r.previous = i /\ r.supported = s.supported
            /\ r.events = Ended(seen, rows, config)
        BY <3>4, <4>1 DEF PivotStates
      <4> QED
        BY <1>8, <3>3, <4>2
    <3>6. CASE delta # Turn \div 2 /\ ~({s.previous, i} \subseteq seen.supported)
      <4>1. r = F!Emitted(seen, rows, config)
        BY <1>2, <2>0, <2>4, <3>6
      <4> QED
        BY <1>8, <2>0, <3>3, <3>4, <4>1
    <3>7. CASE delta # Turn \div 2 /\ {s.previous, i} \subseteq seen.supported
      <4>1. Step(rows, i) < Turn \div 2
        <5>1. rows[i].yaw - rows[i - 1].yaw \in Int
          BY <3>0, RowsAreTyped
        <5>2. Step(rows, i) \in Nat /\ Step(rows, i) <= Turn \div 2 /\ Turn \div 2 \in Nat
          BY <5>1, WrapIsTyped DEF Step
        <5> HIDE DEF delta
        <5> QED
          BY <3>0, <3>7, <5>2
      <4>2. Bears(rows, contact, i) /\ Bears(rows, contact, i - 1)
        BY <1>7, <2>0, <3>0, <3>7
      <4>3. CASE s.active = <<>> /\ Swings(s, rows, i, config.enterTurn)
        <5>1. r = started
          BY <1>2, <2>0, <2>4, <3>7, <4>3
        <5> DEFINE pair == <<s.previous, i>>
        <5>2. started = [seen EXCEPT !.active = pair, !.motion = i]
          OBVIOUS
        <5>3. pair = RunOf(i - 1, i)
          <6>1. <<i - 1, (i - 1) + 1>> = RunOf(i - 1, (i - 1) + 1)
            BY <1>0, ShortRuns
          <6> QED
            BY <1>0, <3>0, <6>1
        <5>4. RunOf(i - 1, i) # <<>>
          <6>1. i - 1 # i + 1 /\ (i - 1) - 1 <= i
            BY <1>0
          <6> QED
            BY <1>0, <6>1, RunStarts
        <5> HIDE DEF pair, started
        <5>5. r.active = pair /\ r.motion = i /\ r.previous = i /\ r.supported = seen.supported
              /\ r.events = s.events
          BY <1>4, <5>1, <5>2 DEF PivotStates
        <5>6. Turning(rows, contact, config, i - 1, i)
          <6>1. /\ \A n \in (i - 1)..i : n = i - 1 \/ n = i
                /\ \A n \in ((i - 1) + 1)..i : n = i
                /\ ((i - 1) + 2)..i = {}
            BY <1>0
          <6>2. F!Joined(rows, i - 1, i, config)
            <7>1. F!Joined(rows, i - 1, i - 1, config)
              BY <1>0, JoinedAlone
            <7> QED
              BY <3>0, <3>1, <7>1, JoinedGrows
          <6> QED
            BY <4>1, <4>2, <6>1, <6>2 DEF Turning
        <5>7. TurnsAreSound(rows, contact, config, r.events, i - 1)
          <6>1. TurnsAreSound(rows, contact, config, s.events, i - 1)
            BY <2>0, <4>3 DEF PivotIsSound
          <6> QED
            BY <5>5, <6>1
        <5>8. r.motion \in ((i - 1) + 1)..i /\ Moves(rows, config, r.motion)
          BY <1>0, <3>2, <4>3, <5>5
        <5>9. Swinging(rows, contact, config, i, r, i - 1)
          BY <5>3, <5>5, <5>6, <5>7, <5>8 DEF Swinging
        <5>10. i - 1 \in 1..(i - 1) /\ r.active # <<>>
          BY <1>0, <3>0, <5>3, <5>4, <5>5
        <5> QED
          BY <1>7, <2>0, <5>5, <5>9, <5>10 DEF PivotIsSound
      <4>4. CASE s.active = <<>> /\ ~Swings(s, rows, i, config.enterTurn)
        <5>1. r = seen
          BY <1>2, <2>0, <2>4, <3>7, <4>4
        <5> QED
          BY <1>4, <1>8, <2>0, <2>2, <4>4, <5>1
      <4>5. CASE s.active # <<>>
        <5>1. PICK a \in 1..((i - 1) - 1) : Swinging(rows, contact, config, i - 1, s, a)
          BY <2>0, <4>5 DEF PivotIsSound
        <5>2. a \in Nat /\ a \in 1..(i - 1) /\ a - 1 <= i - 1 /\ a <= i - 1 /\ i - 1 \in Int
          BY <1>0
        <5>3. /\ s.active = RunOf(a, i - 1)
              /\ s.motion \in (a + 1)..(i - 1) /\ Moves(rows, config, s.motion)
              /\ Turning(rows, contact, config, a, i - 1)
              /\ TurnsAreSound(rows, contact, config, s.events, a)
          BY <5>1 DEF Swinging
        <5>4. grown.active = RunOf(a, i)
          <6>1. Append(RunOf(a, i - 1), (i - 1) + 1) = RunOf(a, (i - 1) + 1)
            BY <5>2, RunGrows
          <6> QED
            BY <1>0, <1>4, <1>5, <5>3, <6>1
        <5>5. s.motion \in (a + 1)..i /\ s.motion \in Nat /\ i \in (a + 1)..i
          BY <1>0, <5>2, <5>3
        \* Where the turn goes on.
        <5>6. ASSUME r.active = grown.active, r.previous = i, r.supported = seen.supported,
                     r.events = s.events, r.motion \in {i, s.motion}, Moves(rows, config, r.motion),
                     \/ Moves(rows, config, i)
                     \/ rows[i].t - rows[s.motion].t < config.quiet
              PROVE  PivotIsSound(rows, contact, config, i, r)
          <6>1. Turning(rows, contact, config, a, i)
            BY <3>0, <3>1, <4>1, <4>2, <5>2, <5>3, <5>6, TurningGrows
          <6>2. Swinging(rows, contact, config, i, r, a)
            BY <5>3, <5>4, <5>5, <5>6, <6>1 DEF Swinging
          <6> QED
            BY <1>5, <1>7, <2>0, <5>2, <5>6, <6>2 DEF PivotIsSound
        <5>7. CASE Swings(s, rows, i, config.leaveTurn)
          <6>1. r = moved
            BY <1>2, <2>0, <2>4, <3>7, <4>5, <5>7
          <6>2. r.active = grown.active /\ r.previous = i /\ r.supported = seen.supported
                /\ r.events = s.events /\ r.motion = i
            BY <1>4, <1>5, <6>1 DEF PivotStates
          <6> QED
            BY <3>2, <5>6, <5>7, <6>2
        <5>8. CASE ~Swings(s, rows, i, config.leaveTurn) /\ rows[i].t - rows[s.motion].t >= config.quiet
          <6>1. r = F!Emitted(grown, rows, config)
            BY <1>2, <2>0, <2>4, <3>7, <4>5, <5>8
          <6>2. r.active = <<>> /\ r.previous = i /\ r.supported = seen.supported
                /\ r.events = Ended(grown, rows, config)
            BY <1>4, <1>5, <6>1, EmittedIs
          <6>3. grown.active[1] = s.active[1]
            <7>1. RunOf(a, i - 1)[1] = a
              BY <5>2, RunStarts
            <7>2. a - 1 <= i /\ a <= i
              BY <1>0, <5>2
            <7>3. RunOf(a, i)[1] = a
              BY <1>0, <5>2, <7>2, RunStarts
            <7> QED
              BY <5>3, <5>4, <7>1, <7>3
          <6>4. TurnsAreSound(rows, contact, config, Ended(grown, rows, config), (i - 1) + 1)
            BY <1>0, <1>4, <1>5, <2>0, <6>3, EndingIsSound
          <6> QED
            BY <1>0, <1>8, <2>0, <6>2, <6>4
        <5>9. CASE ~Swings(s, rows, i, config.leaveTurn) /\ ~(rows[i].t - rows[s.motion].t >= config.quiet)
          <6>1. r = grown
            BY <1>2, <2>0, <2>4, <3>7, <4>5, <5>9
          <6>2. rows[i].t - rows[s.motion].t < config.quiet
            <7>1. s.motion \in DOMAIN rows
              BY <1>0, <5>2, <5>3, RowsAreTyped
            <7>2. rows[i].t \in Int /\ rows[s.motion].t \in Int /\ config.quiet \in Int
              BY <7>1, RowsAreTyped, ThresholdsAreTyped
            <7> QED
              BY <5>9, <7>2
          <6> QED
            BY <1>4, <1>5, <5>3, <5>6, <6>1, <6>2
        <5> QED
          BY <5>7, <5>8, <5>9
      <4> QED
        BY <4>3, <4>4, <4>5
    <3> QED
      BY <3>5, <3>6, <3>7
  <2> QED
    BY <2>3, <2>4
<1> QED
  BY <1>9, <1>10

\* The pivots are what the automaton makes of every row.
LEMMA PivotsUnfold ==
    ASSUME NEW rows \in Motions, NEW config, NEW contact
    PROVE  \E c \in [0..Len(rows) -> PivotStates] :
             /\ c[0] = F!Rest
             /\ \A i \in 1..Len(rows) : c[i] = F!Turned(c[i - 1], rows, contact, i, config)
             /\ F!Pivots(rows, contact, config) = F!Emitted(c[Len(rows)], rows, config).events
<1> DEFINE n == Len(rows)
           first == F!Rest
           step == [x \in (1..n) \X PivotStates |-> F!Turned(x[2], rows, contact, x[1], config)]
           Body(c) == [i \in 0..n |-> IF i = 0 THEN first ELSE F!Turned(c[i - 1], rows, contact, i, config)]
<1>0. n \in Nat /\ DOMAIN rows = 1..n
  BY RowsAreTyped
<1>1. first \in PivotStates
  <2>1. <<>> \in Seq(Nat)
    OBVIOUS
  <2> QED
    BY <2>1 DEF F!Rest, PivotStates
<1>2. \A i \in 1..n : \A s \in PivotStates : F!Turned(s, rows, contact, i, config) \in PivotStates
  BY <1>0, TurnedIsTyped
<1>3. step \in [(1..n) \X PivotStates -> PivotStates]
  BY <1>2
<1>4. IsComputed(PivotStates, first, n, step)
  <2> HIDE DEF n, first, step
  <2> QED
    BY <1>0, <1>1, <1>3, Recursion
<1>5. PICK h \in [0..n -> PivotStates] : h[0] = first /\ \A i \in 1..n : h[i] = step[<<i, h[i - 1]>>]
  BY <1>4 DEF IsComputed
<1>6. ASSUME NEW i \in 1..n PROVE h[i] = F!Turned(h[i - 1], rows, contact, i, config)
  <2>1. h[i - 1] \in PivotStates
    BY <1>0, <1>5
  <2> QED
    BY <2>1, <1>5
<1>7. h = Body(h)
  <2> HIDE DEF n, first
  <2> QED
    BY <1>0, <1>5, <1>6
<1> DEFINE c == CHOOSE c : c = Body(c)
<1>8. F!Pivots(rows, contact, config) = F!Emitted(c[n], rows, config).events
  BY DEF F!Pivots
<1>9. c = Body(c)
  <2> HIDE DEF Body
  <2> QED
    BY <1>7
<1> HIDE DEF c
<1>10. DOMAIN c = 0..n /\ c[0] = first
  BY <1>9, <1>0
<1>11. \A i \in 1..n : c[i] = F!Turned(c[i - 1], rows, contact, i, config)
  BY <1>9, <1>0
<1>12. ASSUME NEW i \in 0..n PROVE c[i] \in PivotStates
  <2> DEFINE S == {m \in 0..n : c[m] \in PivotStates}
  <2>1. 0 \in S
    <3> HIDE DEF n, first
    <3>1. 0 \in 0..n
      BY <1>0
    <3> QED
      BY <3>1, <1>1, <1>10
  <2>2. ASSUME NEW m \in 0..n, m \in S, m < n PROVE m + 1 \in S
    <3>1. m + 1 \in 1..n /\ (m + 1) - 1 = m
      BY <1>0, <2>2
    <3> QED
      BY <3>1, <1>11, <1>2, <2>2
  <2> HIDE DEF S
  <2>3. 0..n \subseteq S
    BY <1>0, <2>1, <2>2, SampleInduction
  <2> QED
    BY <2>3 DEF S
<1>13. c \in [0..n -> PivotStates]
  <2>1. c = [i \in 0..n |-> c[i]]
    <3> HIDE DEF n, first
    <3> QED
      BY <1>9
  <2> HIDE DEF n
  <2> QED
    BY <2>1, <1>12
<1> QED
  BY <1>8, <1>10, <1>11, <1>13

LEMMA PivotIsAlwaysEarned ==
    ASSUME NEW rows \in Motions, NEW config \in FootConfigs, Halves, NEW contact
    PROVE  F!PivotIsEarned(rows, contact, config)
<1> DEFINE n == Len(rows)
           events == F!Pivots(rows, contact, config)
<1>0. n \in Nat /\ DOMAIN rows = 1..n /\ n \in 0..Len(rows)
  BY RowsAreTyped
<1>1. PICK c \in [0..n -> PivotStates] :
        /\ c[0] = F!Rest
        /\ \A i \in 1..n : c[i] = F!Turned(c[i - 1], rows, contact, i, config)
        /\ events = F!Emitted(c[n], rows, config).events
  BY PivotsUnfold
<1> HIDE DEF events
<1> DEFINE S == {i \in 0..n : PivotIsSound(rows, contact, config, i, c[i])}
<1>2. 0 \in S
  <2>1. c[0].previous = 0 /\ c[0].active = <<>> /\ c[0].supported = {} /\ c[0].events = {}
    BY <1>1 DEF F!Rest
  <2>2. TurnsAreSound(rows, contact, config, c[0].events, 0)
    BY <2>1 DEF TurnsAreSound, F!Disjoint
  <2>3. PivotIsSound(rows, contact, config, 0, c[0])
    BY <2>1, <2>2 DEF PivotIsSound
  <2> QED
    BY <1>0, <2>3
<1>3. ASSUME NEW i \in 0..n, i \in S, i < n PROVE i + 1 \in S
  <2>1. i + 1 \in 1..n /\ (i + 1) - 1 = i /\ i + 1 \in 0..n
    BY <1>0, <1>3
  <2>2. c[i] \in PivotStates /\ PivotIsSound(rows, contact, config, i, c[i])
    BY <1>1, <1>3
  <2>3. c[i + 1] = F!Turned(c[i], rows, contact, i + 1, config)
    BY <1>0, <1>1, <2>1
  <2>4. PivotIsSound(rows, contact, config, i + 1, c[i + 1])
    BY <1>0, <2>1, <2>2, <2>3, TurnedKeeps
  <2> QED
    BY <2>1, <2>4
<1>4. 0..n \subseteq S
  <2> HIDE DEF S
  <2> QED
    BY <1>0, <1>2, <1>3, SampleInduction
<1>5. PivotIsSound(rows, contact, config, n, c[n]) /\ c[n] \in PivotStates
  BY <1>0, <1>1, <1>4
<1>6. events = Ended(c[n], rows, config)
  BY <1>1, <1>5, EmittedIs
<1>7. TurnsAreSound(rows, contact, config, events, n + 1)
  <2> HIDE DEF n
  <2> QED
    BY <1>0, <1>5, <1>6, EndingIsSound
<1>8. /\ F!Disjoint(events)
      /\ \A e \in events : e.first < e.last /\ Turning(rows, contact, config, e.first, e.last)
  BY <1>7 DEF TurnsAreSound
<1> QED
  BY <1>8, Zenon DEF F!PivotIsEarned, events, Turning, Step, Moves, Bears

-----------------------------------------------------------------------------
(***************************************************************************)
(* Physical events.                                                        *)
(***************************************************************************)

Crossing == {"not_crossed", "ambiguous", "crossed", "unknown"}
Touching == {"contact", "no_contact", "unknown"}

LEMMA MeasuresAreTyped ==
    ASSUME NEW rows \in Measurements
    PROVE  /\ Len(rows) \in Nat /\ DOMAIN rows = 1..Len(rows)
           /\ \A i \in 1..Len(rows) :
                /\ rows[i].t \in Int /\ rows[i].speed \in Int \cup {None}
                /\ rows[i].extension \in Int \cup {None}
                /\ rows[i].place \in (Int \X Int) \cup {None}
                /\ rows[i].crossing \in Crossing /\ rows[i].contact \in Touching
<1> DEFINE R == [t : Int, place : (Int \X Int) \cup {None}, speed : Int \cup {None},
                 extension : Int \cup {None}, firm : BOOLEAN, crossing : Crossing, contact : Touching]
<1>1. rows \in Seq(R)
  BY DEF Measurements, Crossing, Touching
<1>2. \A r \in R : /\ r.t \in Int /\ r.speed \in Int \cup {None}
                   /\ r.extension \in Int \cup {None}
                   /\ r.place \in (Int \X Int) \cup {None}
                   /\ r.crossing \in Crossing /\ r.contact \in Touching
  OBVIOUS
<1> HIDE DEF R
<1>3. Len(rows) \in Nat /\ DOMAIN rows = 1..Len(rows) /\ \A i \in DOMAIN rows : rows[i] \in R
  BY <1>1, ElementsAreTyped
<1> QED
  BY <1>2, <1>3

\* A set of integers that something bounds has its largest element, or its least.
LEMMA MaxIs ==
    ASSUME NEW S \in SUBSET Int, NEW b \in Int, S # {}, \A x \in S : x <= b
    PROVE  E!Max(S) \in S /\ \A x \in S : x <= E!Max(S)
<1> DEFINE D == {b - x : x \in S}
<1>1. D \in SUBSET Nat /\ D # {}
  <2>1. \A x \in S : b - x \in Nat
    OBVIOUS
  <2> QED
    BY <2>1
<1>2. PICK d \in D : \A y \in D : d <= y
  <2> HIDE DEF D
  <2> QED
    BY <1>1, Least
<1>3. PICK m \in S : d = b - m
  BY <1>2
<1>4. \A x \in S : m >= x
  <2> SUFFICES ASSUME NEW x \in S PROVE m >= x
    OBVIOUS
  <2>1. d <= b - x /\ m \in Int /\ x \in Int
    BY <1>2, <1>3
  <2> QED
    BY <2>1, <1>3
<1>5. E!Max(S) \in S /\ \A x \in S : E!Max(S) >= x
  BY <1>4, Zenon DEF E!Max
<1> QED
  BY <1>5

LEMMA MinIs ==
    ASSUME NEW S \in SUBSET Int, NEW b \in Int, S # {}, \A x \in S : b <= x
    PROVE  E!Min(S) \in S /\ \A x \in S : E!Min(S) <= x
<1> DEFINE D == {x - b : x \in S}
<1>1. D \in SUBSET Nat /\ D # {}
  <2>1. \A x \in S : x - b \in Nat
    OBVIOUS
  <2> QED
    BY <2>1
<1>2. PICK d \in D : \A y \in D : d <= y
  <2> HIDE DEF D
  <2> QED
    BY <1>1, Least
<1>3. PICK m \in S : d = m - b
  BY <1>2
<1>4. \A x \in S : m <= x
  <2> SUFFICES ASSUME NEW x \in S PROVE m <= x
    OBVIOUS
  <2>1. d <= x - b /\ m \in Int /\ x \in Int
    BY <1>2, <1>3
  <2> QED
    BY <2>1, <1>3
<1>5. E!Min(S) \in S /\ \A x \in S : E!Min(S) <= x
  BY <1>4, Zenon DEF E!Min
<1> QED
  BY <1>5

\* Of finitely many samples, one has the lowest value.
LEMMA LowestIs ==
    ASSUME NEW a \in Nat, NEW b \in Nat, NEW S \in SUBSET (a..b), S # {},
           NEW value, \A i \in a..b : value[i] \in Int
    PROVE  \E i \in S : \A j \in S : value[i] <= value[j]
<1> DEFINE Low(m) == \E i \in S : i <= m /\ \A j \in S : j <= m => value[i] <= value[j]
           Found == {m \in a..b : (\E i \in S : i <= m) => Low(m)}
<1>0. a \in a..b
  <2>1. PICK x \in S : x \in a..b
    OBVIOUS
  <2> QED
    BY <2>1
<1>1. a \in Found
  <2>1. ASSUME NEW i \in S, i <= a PROVE Low(a)
    <3>1. i = a /\ value[i] \in Int
      BY <2>1
    <3>2. \A j \in S : j <= a => j = a
      OBVIOUS
    <3> QED
      BY <3>1, <3>2, <2>1
  <2> QED
    BY <1>0, <2>1
<1>2. ASSUME NEW m \in a..b, m \in Found, m < b PROVE m + 1 \in Found
  <2>1. SUFFICES ASSUME NEW x \in S, x <= m + 1 PROVE Low(m + 1)
    BY <1>2
  <2>2. \A j \in S : j <= m + 1 <=> (j <= m \/ j = m + 1)
    OBVIOUS
  <2>3. CASE m + 1 \notin S
    <3>1. \A j \in S : j <= m + 1 <=> j <= m
      BY <2>2, <2>3
    <3>2. Low(m)
      BY <1>2, <2>1, <3>1
    <3> QED
      BY <3>1, <3>2
  <2>4. CASE m + 1 \in S /\ ~(\E i \in S : i <= m)
    <3>1. \A j \in S : j <= m + 1 => j = m + 1
      BY <2>2, <2>4
    <3>2. value[m + 1] <= value[m + 1]
      BY <2>4
    <3> QED
      BY <3>1, <3>2, <2>4
  <2>5. CASE m + 1 \in S /\ \E i \in S : i <= m
    <3>1. PICK i \in S : i <= m /\ \A j \in S : j <= m => value[i] <= value[j]
      BY <2>5, <1>2
    <3>2. value[i] \in Int /\ value[m + 1] \in Int /\ \A j \in S : value[j] \in Int
      BY <2>5
    <3>3. CASE value[i] <= value[m + 1]
      BY <3>1, <3>3, <2>2
    <3>4. CASE ~(value[i] <= value[m + 1])
      <4>1. \A j \in S : j <= m + 1 => value[m + 1] <= value[j]
        BY <3>1, <3>2, <3>4, <2>2
      <4> QED
        BY <4>1, <2>5
    <3> QED
      BY <3>3, <3>4
  <2> QED
    BY <2>3, <2>4, <2>5
<1>3. a..b \subseteq Found
  <2> HIDE DEF Found
  <2> QED
    BY <1>1, <1>2, SampleInduction
<1>4. PICK x \in S : TRUE
  OBVIOUS
<1>5. b \in a..b /\ \A j \in S : j <= b
  BY <1>4
<1>6. Low(b)
  BY <1>3, <1>4, <1>5
<1> QED
  BY <1>5, <1>6

-----------------------------------------------------------------------------
(* Runs.                                                                   *)

Unbroken(rows, first, last, config) ==
    \A i \in first + 1 .. last : E!Elapsed(rows, i - 1, i) <= config.gap

LEMMA UnbrokenInside ==
    ASSUME NEW rows, NEW config, NEW a \in Int, NEW b \in Int, NEW c \in a..b, NEW d \in a..b,
           Unbroken(rows, a, b, config)
    PROVE  Unbroken(rows, c, d, config)
<1>1. \A i \in c + 1 .. d : i \in a + 1 .. b
  OBVIOUS
<1> QED
  BY <1>1 DEF Unbroken

LEMMA NotApart ==
    ASSUME NEW rows \in Measurements, NEW config \in FeatureConfigs, NEW i \in 2..Len(rows),
           ~E!Apart(rows, i, config)
    PROVE  E!Elapsed(rows, i - 1, i) <= config.gap
<1>1. Len(rows) \in Nat /\ i \in 1..Len(rows) /\ i - 1 \in 1..Len(rows)
  BY MeasuresAreTyped
<1>2. rows[i].t \in Int /\ rows[i - 1].t \in Int /\ config.gap \in Int
  BY <1>1, MeasuresAreTyped DEF FeatureConfigs
<1> QED
  BY <1>2 DEF E!Apart, E!Elapsed

LEMMA RunsAre ==
    ASSUME NEW rows \in Measurements, NEW config \in FeatureConfigs,
           NEW samples \in SUBSET DOMAIN rows, NEW r \in E!Runs(rows, samples, config)
    PROVE  /\ r[1] \in 1..Len(rows) /\ r[2] \in r[1]..Len(rows)
           /\ \A i \in r[1]..r[2] : i \in samples
           /\ Unbroken(rows, r[1], r[2], config)
<1>1. /\ r \in samples \X samples /\ r[1] <= r[2]
      /\ \A i \in r[1] + 1 .. r[2] : i \in samples /\ ~E!Apart(rows, i, config)
  BY Zenon DEF E!Runs
<1>2. Len(rows) \in Nat /\ DOMAIN rows = 1..Len(rows)
  BY MeasuresAreTyped
<1>3. r[1] \in samples /\ r[1] \in 1..Len(rows) /\ r[2] \in 1..Len(rows)
  BY <1>1, <1>2
<1>4. \A i \in r[1]..r[2] : i = r[1] \/ i \in r[1] + 1 .. r[2]
  BY <1>3
<1>5. Unbroken(rows, r[1], r[2], config)
  <2>1. SUFFICES ASSUME NEW i \in r[1] + 1 .. r[2] PROVE E!Elapsed(rows, i - 1, i) <= config.gap
    BY DEF Unbroken
  <2>2. i \in 2..Len(rows)
    BY <1>2, <1>3
  <2> QED
    BY <1>1, <2>2, NotApart
<1> QED
  BY <1>1, <1>2, <1>3, <1>4, <1>5

LEMMA RunsAreApart ==
    ASSUME NEW rows \in Measurements, NEW config,
           NEW samples \in SUBSET DOMAIN rows,
           NEW r \in E!Runs(rows, samples, config), NEW q \in E!Runs(rows, samples, config)
    PROVE  r = q \/ r[2] < q[1] \/ q[2] < r[1]
<1> DEFINE J(i) == i \in samples /\ i - 1 \in samples /\ ~E!Apart(rows, i, config)
<1>1. /\ r \in samples \X samples /\ r[1] <= r[2]
      /\ \A i \in r[1] + 1 .. r[2] : J(i)
      /\ ~J(r[1]) /\ ~J(r[2] + 1)
  BY Zenon DEF E!Runs
<1>2. /\ q \in samples \X samples /\ q[1] <= q[2]
      /\ \A i \in q[1] + 1 .. q[2] : J(i)
      /\ ~J(q[1]) /\ ~J(q[2] + 1)
  BY Zenon DEF E!Runs
<1>3. samples \subseteq Nat
  BY MeasuresAreTyped
<1>4. r = <<r[1], r[2]>> /\ q = <<q[1], q[2]>>
  BY <1>1, <1>2
<1>5. r[1] \in Nat /\ r[2] \in Nat /\ q[1] \in Nat /\ q[2] \in Nat
  BY <1>1, <1>2, <1>3
<1> HIDE DEF J
<1>6. SUFFICES ASSUME q[1] <= r[2], r[1] <= q[2] PROVE r = q
  BY <1>5
<1>7. ~(r[1] < q[1]) /\ ~(q[1] < r[1])
  <2>1. r[1] < q[1] => q[1] \in r[1] + 1 .. r[2]
    BY <1>5, <1>6
  <2>2. q[1] < r[1] => r[1] \in q[1] + 1 .. q[2]
    BY <1>5, <1>6
  <2> QED
    BY <1>1, <1>2, <2>1, <2>2
<1>8. r[1] = q[1]
  BY <1>5, <1>7
<1>9. ~(r[2] < q[2]) /\ ~(q[2] < r[2])
  <2>1. r[2] < q[2] => r[2] + 1 \in q[1] + 1 .. q[2]
    BY <1>1, <1>5, <1>8
  <2>2. q[2] < r[2] => q[2] + 1 \in r[1] + 1 .. r[2]
    BY <1>2, <1>5, <1>8
  <2> QED
    BY <1>1, <1>2, <2>1, <2>2
<1>10. r[2] = q[2]
  BY <1>5, <1>9
<1> QED
  BY <1>4, <1>8, <1>10

-----------------------------------------------------------------------------
(* Bouts.                                                                  *)

Rests(rows, i, config) == rows[i].speed # None /\ rows[i].speed <= config.leave
Hurries(rows, first, last, config) ==
    \E i \in first..last : rows[i].speed # None /\ rows[i].speed >= config.enter

EventsOf == [kind : {"motion_onset", "extension_start"}, at : Nat, first : Nat, last : Nat]

BoutStates == [start : Nat \cup {None}, quiet : Nat \cup {None}, since : Nat \cup {None},
               events : SUBSET EventsOf]

\* Where the last event was over: at the rest that is confirmed, or that a bout in
\* progress started from.
Rest(s) == IF s.start # None THEN s.start ELSE s.quiet

BoutEventsAreSound(rows, first, upto, events, config) ==
    /\ \A e \in events :
        /\ e.at = e.first /\ e.first \in first..upto /\ e.last \in e.first..upto
        /\ Rests(rows, e.first, config) /\ Rests(rows, e.last, config)
        /\ Hurries(rows, e.first, e.last, config)
    /\ \A d, e \in events : d.at < e.at => d.last <= e.first

\* After sample i of a run that begins with the sample first.
BoutIsSound(rows, first, i, s, config) ==
    /\ s.quiet # None => s.quiet \in first..i /\ Rests(rows, s.quiet, config)
    /\ s.start # None =>
        /\ s.quiet = None /\ s.start \in first..i /\ Rests(rows, s.start, config)
        /\ Hurries(rows, s.start, i, config)
    /\ Rest(s) = None => s.events = {}
    /\ \A e \in s.events : e.last <= Rest(s)
    /\ BoutEventsAreSound(rows, first, i, s.events, config)

LEMMA BoutEventsAre ==
    ASSUME NEW rows, NEW first, NEW last, NEW config,
           NEW e \in E!BoutEvents(rows, first, last, config)
    PROVE  /\ e.kind \in {"motion_onset", "extension_start"}
           /\ e.at = first /\ e.first = first /\ e.last = last
           /\ e = [kind |-> e.kind, at |-> first, first |-> first, last |-> last]
  BY DEF E!BoutEvents, E!Event

LEMMA BoutedIs ==
    ASSUME NEW rows \in Measurements, NEW config \in FeatureConfigs, NEW i \in 1..Len(rows),
           NEW s \in BoutStates, NEW r, r = E!Bouted(s, rows, i, config)
    PROVE  /\ r \in BoutStates
           /\ \/ r.start = s.start /\ r.quiet = s.quiet /\ r.events = s.events
              \/ /\ s.start = None /\ s.quiet # None
                 /\ rows[i].speed # None /\ rows[i].speed >= config.enter
                 /\ r.start = s.quiet /\ r.quiet = None /\ r.events = s.events
              \/ /\ Rests(rows, i, config)
                 /\ r.start = None /\ r.quiet = i
                 /\ \A e \in r.events :
                      e \in s.events \/ (s.start # None /\ e \in E!BoutEvents(rows, s.start, i, config))
<1> DEFINE since == IF s.since = None THEN i ELSE s.since
           speed == rows[i].speed
           more == IF s.start = None THEN {} ELSE E!BoutEvents(rows, s.start, i, config)
<1>0. i \in Nat /\ speed \in Int \cup {None} /\ config.leave \in Int /\ config.enter \in Int /\ None \notin Int
  <2>1. None \notin Int
    BY InputAssumption, Zenon
  <2>2. i \in Nat /\ speed \in Int \cup {None}
    BY MeasuresAreTyped
  <2>3. config.leave \in Int /\ config.enter \in Int
    BY DEF FeatureConfigs
  <2> QED
    BY <2>1, <2>2, <2>3
<1>1. /\ s.start \in Nat \cup {None} /\ s.quiet \in Nat \cup {None} /\ s.since \in Nat \cup {None}
      /\ s.events \in SUBSET EventsOf
      /\ since \in Nat
      /\ s = [start |-> s.start, quiet |-> s.quiet, since |-> s.since, events |-> s.events]
  BY <1>0 DEF BoutStates
<1>2. more \in SUBSET EventsOf
  <2>1. SUFFICES ASSUME s.start # None, NEW e \in E!BoutEvents(rows, s.start, i, config)
                 PROVE  e \in EventsOf
    BY Zenon
  <2>2. /\ e.kind \in {"motion_onset", "extension_start"}
        /\ e = [kind |-> e.kind, at |-> s.start, first |-> s.start, last |-> i]
    BY <2>1, BoutEventsAre
  <2>3. s.start \in Nat
    BY <1>1, <2>1
  <2> QED
    BY <1>0, <2>2, <2>3 DEF EventsOf
<1>3. r = IF speed = None THEN s
          ELSE IF speed > config.leave
          THEN IF s.start = None /\ s.quiet # None /\ speed >= config.enter
               THEN [s EXCEPT !.since = None, !.start = s.quiet, !.quiet = None]
               ELSE [s EXCEPT !.since = None]
          ELSE IF E!Elapsed(rows, since, i) < config.duration
          THEN [s EXCEPT !.since = since]
          ELSE [start |-> None, quiet |-> i, since |-> since, events |-> s.events \cup more]
  BY Zenon DEF E!Bouted
<1> HIDE DEF since, more
<1>4. CASE r = s \/ r = [s EXCEPT !.since = None] \/ r = [s EXCEPT !.since = since]
  BY <1>1, <1>4 DEF BoutStates
<1>5. CASE /\ s.start = None /\ s.quiet # None /\ speed # None /\ speed >= config.enter
           /\ r = [s EXCEPT !.since = None, !.start = s.quiet, !.quiet = None]
  BY <1>1, <1>5 DEF BoutStates
<1>6. CASE /\ speed # None /\ ~(speed > config.leave)
           /\ r = [start |-> None, quiet |-> i, since |-> since, events |-> s.events \cup more]
  <2>1. Rests(rows, i, config)
    BY <1>0, <1>6 DEF Rests
  <2>2. r.start = None /\ r.quiet = i /\ r.since = since /\ r.events = s.events \cup more
    BY <1>6
  <2>3. r \in BoutStates
    BY <1>0, <1>1, <1>2, <1>6 DEF BoutStates
  <2>4. \A e \in more : s.start # None /\ e \in E!BoutEvents(rows, s.start, i, config)
    BY DEF more
  <2> QED
    BY <2>1, <2>2, <2>3, <2>4
<1>7. \/ r = s \/ r = [s EXCEPT !.since = None] \/ r = [s EXCEPT !.since = since]
      \/ /\ s.start = None /\ s.quiet # None /\ speed # None /\ speed >= config.enter
         /\ r = [s EXCEPT !.since = None, !.start = s.quiet, !.quiet = None]
      \/ /\ speed # None /\ ~(speed > config.leave)
         /\ r = [start |-> None, quiet |-> i, since |-> since, events |-> s.events \cup more]
  BY <1>3
<1> QED
  BY <1>4, <1>5, <1>6, <1>7

LEMMA BoutedKeeps ==
    ASSUME NEW rows \in Measurements, NEW config \in FeatureConfigs,
           NEW first \in Nat \ {0}, NEW i \in first..Len(rows),
           NEW s \in BoutStates, BoutIsSound(rows, first, i - 1, s, config),
           NEW r, r = E!Bouted(s, rows, i, config)
    PROVE  BoutIsSound(rows, first, i, r, config)
<1>0. /\ Len(rows) \in Nat /\ i \in 1..Len(rows) /\ i \in first..i /\ None \notin Int
      /\ \A j \in first..(i - 1) : j \in first..i
  BY MeasuresAreTyped, InputAssumption
<1>1. /\ s.quiet # None => s.quiet \in first..(i - 1) /\ Rests(rows, s.quiet, config)
      /\ s.start # None =>
          /\ s.quiet = None /\ s.start \in first..(i - 1) /\ Rests(rows, s.start, config)
          /\ Hurries(rows, s.start, i - 1, config)
      /\ Rest(s) = None => s.events = {}
      /\ \A e \in s.events : e.last <= Rest(s)
      /\ BoutEventsAreSound(rows, first, i - 1, s.events, config)
  BY DEF BoutIsSound
<1>2. /\ \A e \in s.events :
            /\ e.at = e.first /\ e.first \in first..(i - 1) /\ e.last \in e.first..(i - 1)
            /\ Rests(rows, e.first, config) /\ Rests(rows, e.last, config)
            /\ Hurries(rows, e.first, e.last, config)
      /\ \A d, e \in s.events : d.at < e.at => d.last <= e.first
  BY <1>1 DEF BoutEventsAreSound
<1>3. BoutEventsAreSound(rows, first, i, s.events, config)
  <2>1. \A e \in s.events : e.first \in first..i /\ e.last \in e.first..i
    BY <1>0, <1>2
  <2> QED
    BY <1>2, <2>1 DEF BoutEventsAreSound
<1>4. ASSUME s.start # None PROVE Hurries(rows, s.start, i, config)
  <2>1. PICK m \in s.start..(i - 1) : rows[m].speed # None /\ rows[m].speed >= config.enter
    BY <1>1, <1>4 DEF Hurries
  <2>2. m \in s.start..i
    BY <1>0, <1>1, <1>4, <2>1
  <2> QED
    BY <2>1, <2>2 DEF Hurries
<1>5. CASE r.start = s.start /\ r.quiet = s.quiet /\ r.events = s.events
  BY <1>0, <1>1, <1>3, <1>4, <1>5 DEF BoutIsSound, Rest
<1>6. CASE /\ s.start = None /\ s.quiet # None
           /\ rows[i].speed # None /\ rows[i].speed >= config.enter
           /\ r.start = s.quiet /\ r.quiet = None /\ r.events = s.events
  <2>1. Hurries(rows, r.start, i, config)
    <3>1. i \in r.start..i
      BY <1>0, <1>1, <1>6
    <3> QED
      BY <3>1, <1>6 DEF Hurries
  <2>2. Rest(r) = Rest(s) /\ r.start # None
    BY <1>6 DEF Rest
  <2> QED
    BY <1>0, <1>1, <1>3, <1>6, <2>1, <2>2 DEF BoutIsSound
<1>7. CASE /\ Rests(rows, i, config)
           /\ r.start = None /\ r.quiet = i
           /\ \A e \in r.events :
                e \in s.events \/ (s.start # None /\ e \in E!BoutEvents(rows, s.start, i, config))
  <2>1. ASSUME NEW e \in r.events, e \notin s.events
        PROVE  /\ s.start # None /\ e.at = s.start /\ e.first = s.start /\ e.last = i
               /\ s.start \in first..i /\ i \in s.start..i
               /\ Rests(rows, s.start, config) /\ Hurries(rows, s.start, i, config)
    <3>1. s.start # None /\ e \in E!BoutEvents(rows, s.start, i, config)
      BY <1>7, <2>1
    <3>2. e.at = s.start /\ e.first = s.start /\ e.last = i
      BY <3>1, BoutEventsAre
    <3>3. s.start \in first..(i - 1) /\ Rests(rows, s.start, config)
      BY <1>1, <3>1
    <3> QED
      BY <1>0, <1>4, <3>1, <3>2, <3>3
  <2>2. \A e \in r.events :
            /\ e.at = e.first /\ e.first \in first..i /\ e.last \in e.first..i
            /\ Rests(rows, e.first, config) /\ Rests(rows, e.last, config)
            /\ Hurries(rows, e.first, e.last, config)
    <3>1. SUFFICES ASSUME NEW e \in r.events
                   PROVE  /\ e.at = e.first /\ e.first \in first..i /\ e.last \in e.first..i
                          /\ Rests(rows, e.first, config) /\ Rests(rows, e.last, config)
                          /\ Hurries(rows, e.first, e.last, config)
      OBVIOUS
    <3>2. CASE e \in s.events
      BY <3>2, <1>3 DEF BoutEventsAreSound
    <3>3. CASE e \notin s.events
      BY <3>3, <2>1, <1>7
    <3> QED
      BY <3>2, <3>3
  <2>3. \A d, e \in r.events : d.at < e.at => d.last <= e.first
    <3>1. SUFFICES ASSUME NEW d \in r.events, NEW e \in r.events, d.at < e.at PROVE d.last <= e.first
      OBVIOUS
    <3>2. CASE d \in s.events /\ e \in s.events
      BY <3>1, <3>2, <1>2
    <3>3. CASE d \in s.events /\ e \notin s.events
      <4>1. e.first = s.start /\ Rest(s) = s.start
        BY <3>3, <2>1 DEF Rest
      <4> QED
        BY <4>1, <3>3, <1>1
    <3>4. CASE d \notin s.events
      <4>1. s.start # None /\ d.at = s.start /\ s.start \in first..i
        BY <3>4, <2>1
      <4>2. CASE e \in s.events
        <5>1. e.at = e.first /\ e.first \in first..(i - 1) /\ e.last \in e.first..(i - 1) /\ e.last <= s.start
          BY <4>1, <4>2, <1>1, <1>2 DEF Rest
        <5>2. e.at <= s.start
          BY <5>1, <4>1, <1>0
        <5> QED
          BY <5>1, <5>2, <4>1, <3>1, <1>0
      <4>3. CASE e \notin s.events
        <5>1. e.at = s.start
          BY <4>3, <2>1
        <5> QED
          BY <5>1, <4>1, <3>1, <1>0
      <4> QED
        BY <4>2, <4>3
    <3> QED
      BY <3>2, <3>3, <3>4
  <2>4. Rest(r) = i /\ i # None
    BY <1>0, <1>7 DEF Rest
  <2>5. \A e \in r.events : e.last <= i
    <3>1. SUFFICES ASSUME NEW e \in r.events PROVE e.last <= i
      OBVIOUS
    <3>2. e.first \in first..i /\ e.last \in e.first..i
      BY <2>2
    <3> QED
      BY <3>2, <1>0
  <2> QED
    BY <1>0, <1>7, <2>2, <2>3, <2>4, <2>5 DEF BoutIsSound, BoutEventsAreSound
<1>8. \/ r.start = s.start /\ r.quiet = s.quiet /\ r.events = s.events
      \/ /\ s.start = None /\ s.quiet # None
         /\ rows[i].speed # None /\ rows[i].speed >= config.enter
         /\ r.start = s.quiet /\ r.quiet = None /\ r.events = s.events
      \/ /\ Rests(rows, i, config)
         /\ r.start = None /\ r.quiet = i
         /\ \A e \in r.events :
              e \in s.events \/ (s.start # None /\ e \in E!BoutEvents(rows, s.start, i, config))
  BY <1>0, BoutedIs
<1> QED
  BY <1>5, <1>6, <1>7, <1>8

\* One sample of a run, or one before it.
Bouts(rows, m, i, s, config) == IF i < m THEN E!Still ELSE E!Bouted(s, rows, i, config)

LEMMA BoutsUnfold ==
    ASSUME NEW rows \in Measurements, NEW config \in FeatureConfigs,
           NEW run, run[1] \in Nat \ {0}, run[2] \in Nat, run[2] <= Len(rows)
    PROVE  \E c \in [0..run[2] -> BoutStates] :
             /\ c[0] = E!Still
             /\ \A i \in 1..run[2] : c[i] = Bouts(rows, run[1], i, c[i - 1], config)
             /\ E!BoutsIn(rows, run, config) = c[run[2]].events
<1> DEFINE n == run[2]
           m == run[1]
           first == E!Still
           step == [x \in (1..n) \X BoutStates |-> Bouts(rows, m, x[1], x[2], config)]
           Body(c) == [i \in 0..n |-> IF i < m THEN first ELSE E!Bouted(c[i - 1], rows, i, config)]
<1>0. n \in Nat /\ m \in Nat \ {0} /\ \A i \in 1..n : i \in 1..Len(rows)
  BY MeasuresAreTyped
<1>1. first \in BoutStates
  BY DEF E!Still, BoutStates
<1>2. \A i \in 1..n : \A s \in BoutStates : Bouts(rows, m, i, s, config) \in BoutStates
  BY <1>0, <1>1, BoutedIs DEF Bouts
<1>3. step \in [(1..n) \X BoutStates -> BoutStates]
  BY <1>2
<1>4. IsComputed(BoutStates, first, n, step)
  <2> HIDE DEF n, first, step
  <2> QED
    BY <1>0, <1>1, <1>3, Recursion
<1>5. PICK h \in [0..n -> BoutStates] : h[0] = first /\ \A i \in 1..n : h[i] = step[<<i, h[i - 1]>>]
  BY <1>4 DEF IsComputed
<1>6. ASSUME NEW i \in 1..n PROVE h[i] = Bouts(rows, m, i, h[i - 1], config)
  <2>1. h[i - 1] \in BoutStates
    BY <1>0, <1>5
  <2> QED
    BY <2>1, <1>5
<1>7. h = Body(h)
  <2> HIDE DEF n, m, first
  <2>1. \A i \in 0..n : i = 0 \/ i \in 1..n
    BY <1>0
  <2>2. \A i \in 0..n : h[i] = IF i < m THEN first ELSE E!Bouted(h[i - 1], rows, i, config)
    BY <1>0, <1>5, <1>6, <2>1 DEF Bouts, first
  <2>3. h = [i \in 0..n |-> h[i]]
    BY <1>5
  <2> QED
    BY <2>2, <2>3
<1> DEFINE c == CHOOSE c : c = Body(c)
<1>8. E!BoutsIn(rows, run, config) = c[n].events
  BY DEF E!BoutsIn
<1>9. c = Body(c)
  <2> HIDE DEF Body
  <2> QED
    BY <1>7
<1> HIDE DEF c
<1>10. DOMAIN c = 0..n /\ c[0] = first /\ c = [i \in 0..n |-> c[i]]
  BY <1>9, <1>0
<1>11. \A i \in 1..n : c[i] = Bouts(rows, m, i, c[i - 1], config)
  BY <1>9, <1>0 DEF Bouts
<1>12. 0..n \subseteq {k \in 0..n : c[k] \in BoutStates}
  <2> DEFINE S == {k \in 0..n : c[k] \in BoutStates}
  <2>1. 0 \in S
    <3> HIDE DEF n, first
    <3>1. 0 \in 0..n
      BY <1>0
    <3> QED
      BY <3>1, <1>1, <1>10
  <2>2. ASSUME NEW k \in 0..n, k \in S, k < n PROVE k + 1 \in S
    <3>1. k + 1 \in 1..n /\ (k + 1) - 1 = k
      BY <1>0, <2>2
    <3> QED
      BY <3>1, <1>11, <1>2, <2>2
  <2>3. 0..n \subseteq S
    <3> HIDE DEF S, n
    <3> QED
      BY <1>0, <2>1, <2>2, SampleInduction
  <2> QED
    BY <2>3 DEF S
<1>13. c \in [0..n -> BoutStates]
  <2> HIDE DEF n
  <2> QED
    BY <1>10, <1>12
<1> QED
  BY <1>8, <1>10, <1>11, <1>13

LEMMA BoutsOfARun ==
    ASSUME NEW rows \in Measurements, NEW config \in FeatureConfigs,
           NEW run, run[1] \in 1..Len(rows), run[2] \in run[1]..Len(rows)
    PROVE  /\ E!BoutsIn(rows, run, config) \subseteq EventsOf
           /\ BoutEventsAreSound(rows, run[1], run[2], E!BoutsIn(rows, run, config), config)
<1> DEFINE n == run[2]
           m == run[1]
<1>0. n \in Nat /\ m \in Nat \ {0} /\ n <= Len(rows) /\ m <= n /\ Len(rows) \in Nat /\ n \in m..n
  BY MeasuresAreTyped
<1>1. PICK c \in [0..n -> BoutStates] :
        /\ c[0] = E!Still
        /\ \A i \in 1..n : c[i] = Bouts(rows, m, i, c[i - 1], config)
        /\ E!BoutsIn(rows, run, config) = c[n].events
  BY <1>0, BoutsUnfold
<1>2. c[m - 1] = E!Still
  <2>1. CASE m = 1
    BY <1>1, <2>1
  <2>2. CASE m # 1
    <3>1. m - 1 \in 1..n /\ m - 1 < m
      BY <1>0, <2>2
    <3> QED
      BY <3>1, <1>1 DEF Bouts
  <2> QED
    BY <2>1, <2>2
<1>3. BoutIsSound(rows, m, m - 1, E!Still, config)
  BY DEF E!Still, BoutIsSound, BoutEventsAreSound, Rest
<1>4. ASSUME NEW i \in m..n, BoutIsSound(rows, m, i - 1, c[i - 1], config)
      PROVE  BoutIsSound(rows, m, i, c[i], config)
  <2>1. i \in 1..n /\ i \in m..Len(rows) /\ ~(i < m) /\ i - 1 \in 0..n
    BY <1>0
  <2>2. c[i - 1] \in BoutStates /\ c[i] = E!Bouted(c[i - 1], rows, i, config)
    BY <1>1, <2>1 DEF Bouts
  <2> HIDE DEF m, n
  <2> QED
    BY <1>0, <1>4, <2>1, <2>2, BoutedKeeps
<1> DEFINE S == {i \in m..n : BoutIsSound(rows, m, i, c[i], config)}
<1>5. m \in S
  <2>1. m \in m..n
    BY <1>0
  <2> QED
    BY <2>1, <1>2, <1>3, <1>4
<1>6. ASSUME NEW i \in m..n, i \in S, i < n PROVE i + 1 \in S
  <2>1. i + 1 \in m..n /\ (i + 1) - 1 = i
    BY <1>0, <1>6
  <2> QED
    BY <2>1, <1>4, <1>6
<1>7. m..n \subseteq S
  <2> HIDE DEF S, m, n
  <2> QED
    BY <1>0, <1>5, <1>6, SampleInduction
<1>8. BoutIsSound(rows, m, n, c[n], config) /\ c[n] \in BoutStates
  BY <1>0, <1>1, <1>7
<1>9. c[n].events \subseteq EventsOf
  BY <1>8 DEF BoutStates
<1> QED
  BY <1>1, <1>8, <1>9 DEF BoutIsSound

\* What events have in common: evidence around them, without a gap.
Evidenced(rows, e, config) ==
    /\ e.first \in 1..Len(rows) /\ e.last \in 1..Len(rows) /\ e.at \in e.first..e.last
    /\ Unbroken(rows, e.first, e.last, config)

LEMMA BoutsAreSound ==
    ASSUME NEW rows \in Measurements, NEW config \in FeatureConfigs
    PROVE  /\ \A e \in E!Bouts(rows, config) :
                /\ Evidenced(rows, e, config) /\ e.kind \in {"motion_onset", "extension_start"}
                /\ Rests(rows, e.first, config) /\ Rests(rows, e.last, config)
                /\ Hurries(rows, e.first, e.last, config)
           /\ \A d, e \in E!Bouts(rows, config) : d.at < e.at => d.last <= e.first
<1> DEFINE placed == {i \in DOMAIN rows : rows[i].place # None}
           runs == E!Runs(rows, placed, config)
<1>0. /\ E!Bouts(rows, config) = UNION {E!BoutsIn(rows, r, config) : r \in runs}
      /\ placed \in SUBSET DOMAIN rows /\ Len(rows) \in Nat
  BY MeasuresAreTyped DEF E!Bouts
<1> HIDE DEF placed
<1>1. \A e \in E!Bouts(rows, config) : \E r \in runs : e \in E!BoutsIn(rows, r, config)
  BY <1>0
<1>2. ASSUME NEW r \in runs
      PROVE  /\ r[1] \in 1..Len(rows) /\ r[2] \in r[1]..Len(rows)
             /\ Unbroken(rows, r[1], r[2], config)
             /\ BoutEventsAreSound(rows, r[1], r[2], E!BoutsIn(rows, r, config), config)
             /\ E!BoutsIn(rows, r, config) \subseteq EventsOf
  <2>1. /\ r[1] \in 1..Len(rows) /\ r[2] \in r[1]..Len(rows)
        /\ Unbroken(rows, r[1], r[2], config)
    BY <1>0, RunsAre
  <2> QED
    BY <2>1, BoutsOfARun
<1>3. ASSUME NEW r \in runs, NEW e \in E!BoutsIn(rows, r, config)
      PROVE  /\ e.at = e.first /\ e.first \in r[1]..r[2] /\ e.last \in e.first..r[2]
             /\ e.kind \in {"motion_onset", "extension_start"}
             /\ Rests(rows, e.first, config) /\ Rests(rows, e.last, config)
             /\ Hurries(rows, e.first, e.last, config)
  <2>1. e \in EventsOf
    BY <1>2
  <2> QED
    BY <2>1, <1>2 DEF BoutEventsAreSound, EventsOf
<1>4. ASSUME NEW e \in E!Bouts(rows, config)
      PROVE  /\ Evidenced(rows, e, config) /\ e.kind \in {"motion_onset", "extension_start"}
             /\ Rests(rows, e.first, config) /\ Rests(rows, e.last, config)
             /\ Hurries(rows, e.first, e.last, config)
  <2>1. PICK r \in runs : e \in E!BoutsIn(rows, r, config)
    BY <1>1
  <2>2. /\ e.at = e.first /\ e.first \in r[1]..r[2] /\ e.last \in e.first..r[2]
        /\ r[1] \in 1..Len(rows) /\ r[2] \in r[1]..Len(rows)
        /\ Unbroken(rows, r[1], r[2], config)
    BY <1>2, <1>3, <2>1
  <2>3. /\ r[1] \in Int /\ r[2] \in Int /\ e.last \in r[1]..r[2]
        /\ e.first \in 1..Len(rows) /\ e.last \in 1..Len(rows) /\ e.at \in e.first..e.last
    BY <1>0, <2>2
  <2>4. Unbroken(rows, e.first, e.last, config)
    BY <2>2, <2>3, UnbrokenInside
  <2> QED
    BY <1>3, <2>1, <2>3, <2>4 DEF Evidenced
<1>5. ASSUME NEW d \in E!Bouts(rows, config), NEW e \in E!Bouts(rows, config), d.at < e.at
      PROVE  d.last <= e.first
  <2>1. PICK r \in runs : d \in E!BoutsIn(rows, r, config)
    BY <1>1
  <2>2. PICK q \in runs : e \in E!BoutsIn(rows, q, config)
    BY <1>1
  <2>3. /\ d.at = d.first /\ d.first \in r[1]..r[2] /\ d.last \in d.first..r[2]
        /\ e.at = e.first /\ e.first \in q[1]..q[2] /\ e.last \in e.first..q[2]
        /\ r[1] \in Int /\ r[2] \in Int /\ q[1] \in Int /\ q[2] \in Int
    BY <1>0, <1>2, <1>3, <2>1, <2>2
  <2>4. CASE r = q
    BY <1>2, <1>5, <2>1, <2>2, <2>4 DEF BoutEventsAreSound
  <2>5. CASE r[2] < q[1]
    BY <2>3, <2>5
  <2>6. CASE q[2] < r[1]
    <3>1. e.at < d.at /\ e.at \in Int /\ d.at \in Int
      BY <2>3, <2>6
    <3> QED
      BY <3>1, <1>5
  <2>7. r = q \/ r[2] < q[1] \/ q[2] < r[1]
    BY <1>0, RunsAreApart
  <2> QED
    BY <2>4, <2>5, <2>6, <2>7
<1> QED
  BY <1>4, <1>5

-----------------------------------------------------------------------------
(* Extrema and reversals.                                                  *)

LEMMA PeaksLieInside ==
    ASSUME NEW a \in Nat, NEW b \in Nat, NEW value, \A i \in a..b : value[i] \in Int,
           NEW prominence, NEW k \in E!Peaks(value, a, b, prominence)
    PROVE  k.at \in a..b /\ k.left \in a..k.at /\ k.right \in k.at..b
<1> DEFINE Below(p, i) == \A j \in (IF i < p THEN i..p ELSE p..i) : value[j] <= value[p]
           Lefts(p) == {i \in a..p : Below(p, i)}
           Rights(p) == {i \in p..b : Below(p, i)}
           LowestOf(s) == {i \in s : \A j \in s : value[i] <= value[j]}
<1>1. PICK r \in (a..b) \X (a..b) :
        /\ r[1] <= r[2]
        /\ k = [at |-> (r[1] + r[2]) \div 2,
                left |-> E!Max(LowestOf(Lefts((r[1] + r[2]) \div 2))),
                right |-> E!Min(LowestOf(Rights((r[1] + r[2]) \div 2)))]
  BY DEF E!Peaks
<1> DEFINE p == (r[1] + r[2]) \div 2
<1>2. p \in a..b
  <2>1. r[1] \in Int /\ r[2] \in Int /\ r[1] <= r[2] /\ r[1] \in a..b /\ r[2] \in a..b
    BY <1>1
  <2>2. r[1] <= p /\ p <= r[2] /\ p \in Int
    BY <2>1
  <2> QED
    BY <2>1, <2>2
<1>3. k.at = p /\ k.left = E!Max(LowestOf(Lefts(p))) /\ k.right = E!Min(LowestOf(Rights(p)))
  BY <1>1
<1> HIDE DEF p
<1>4. p \in Lefts(p) /\ p \in Rights(p)
  <2>1. value[p] <= value[p] /\ p \in a..p /\ p \in p..b
    BY <1>2
  <2>2. \A j \in p..p : j = p
    BY <1>2
  <2>3. Below(p, p)
    BY <1>2, <2>1, <2>2
  <2> QED
    BY <2>1, <2>3
<1>5. Lefts(p) \in SUBSET (a..b) /\ Lefts(p) \in SUBSET (a..p) /\ Rights(p) \in SUBSET (a..b) /\ Rights(p) \in SUBSET (p..b)
  BY <1>2
<1> HIDE DEF Lefts, Rights
<1>6. LowestOf(Lefts(p)) # {} /\ LowestOf(Rights(p)) # {}
  <2>1. \E i \in Lefts(p) : \A j \in Lefts(p) : value[i] <= value[j]
    BY <1>4, <1>5, LowestIs
  <2>2. \E i \in Rights(p) : \A j \in Rights(p) : value[i] <= value[j]
    BY <1>4, <1>5, LowestIs
  <2> QED
    BY <2>1, <2>2
<1>7. LowestOf(Lefts(p)) \in SUBSET (a..p) /\ LowestOf(Rights(p)) \in SUBSET (p..b)
  BY <1>5
<1> HIDE DEF LowestOf
<1>8. k.left \in a..p
  <2>1. p \in Int /\ LowestOf(Lefts(p)) \in SUBSET Int /\ \A x \in LowestOf(Lefts(p)) : x <= p
    BY <1>2, <1>7
  <2>2. E!Max(LowestOf(Lefts(p))) \in LowestOf(Lefts(p))
    BY <1>6, <2>1, MaxIs
  <2> QED
    BY <1>3, <1>7, <2>2
<1>9. k.right \in p..b
  <2>1. p \in Int /\ LowestOf(Rights(p)) \in SUBSET Int /\ \A x \in LowestOf(Rights(p)) : p <= x
    BY <1>2, <1>7
  <2>2. E!Min(LowestOf(Rights(p))) \in LowestOf(Rights(p))
    BY <1>6, <2>1, MinIs
  <2> QED
    BY <1>3, <1>7, <2>2
<1> QED
  BY <1>2, <1>3, <1>8, <1>9

\* Events of the peaks of a series that has a value all along a run.
LEMMA PeaksAreEvidenced ==
    ASSUME NEW rows \in Measurements, NEW config \in FeatureConfigs,
           NEW samples \in SUBSET DOMAIN rows, NEW r \in E!Runs(rows, samples, config),
           NEW value, \A i \in r[1]..r[2] : value[i] \in Int,
           NEW prominence, NEW k \in E!Peaks(value, r[1], r[2], prominence), NEW kind
    PROVE  Evidenced(rows, E!Event(kind, k.at, k.left, k.right), config)
<1> DEFINE e == E!Event(kind, k.at, k.left, k.right)
<1>1. /\ r[1] \in 1..Len(rows) /\ r[2] \in r[1]..Len(rows) /\ Len(rows) \in Nat
      /\ Unbroken(rows, r[1], r[2], config)
  BY RunsAre, MeasuresAreTyped
<1>2. r[1] \in Nat /\ r[2] \in Nat
  BY <1>1
<1>3. k.at \in r[1]..r[2] /\ k.left \in r[1]..k.at /\ k.right \in k.at..r[2]
  BY <1>2, PeaksLieInside
<1>4. e.at = k.at /\ e.first = k.left /\ e.last = k.right
  BY DEF E!Event
<1> HIDE DEF e
<1>5. /\ e.first \in r[1]..r[2] /\ e.last \in r[1]..r[2] /\ e.at \in e.first..e.last
      /\ e.first \in 1..Len(rows) /\ e.last \in 1..Len(rows)
  BY <1>1, <1>2, <1>3, <1>4
<1>6. Unbroken(rows, e.first, e.last, config)
  BY <1>1, <1>2, <1>5, UnbrokenInside
<1>7. Evidenced(rows, e, config)
  BY <1>5, <1>6 DEF Evidenced
<1> QED
  BY <1>7 DEF e

LEMMA ReversalsAreSound ==
    ASSUME NEW rows \in Measurements, NEW config \in FeatureConfigs, NEW e \in E!Reversals(rows, config)
    PROVE  Evidenced(rows, e, config) /\ e.kind = "direction_change"
<1> DEFINE placed == {i \in DOMAIN rows : rows[i].place # None}
<1>1. PICK r \in [run : E!Runs(rows, placed, config), axis : {1, 2}, sign : {1, -1}] :
        \E k \in E!Peaks([i \in r.run[1] .. r.run[2] |-> r.sign * rows[i].place[r.axis]],
                         r.run[1], r.run[2], config.excursion) :
            e = E!Event("direction_change", k.at, k.left, k.right)
  BY DEF E!Reversals
<1> DEFINE value == [i \in r.run[1] .. r.run[2] |-> r.sign * rows[i].place[r.axis]]
<1>2. PICK k \in E!Peaks(value, r.run[1], r.run[2], config.excursion) :
        e = E!Event("direction_change", k.at, k.left, k.right)
  BY <1>1
<1>3. r.run \in E!Runs(rows, placed, config) /\ r.axis \in {1, 2} /\ r.sign \in {1, -1}
  BY <1>1
<1>4. placed \in SUBSET DOMAIN rows
  OBVIOUS
<1>5. ASSUME NEW i \in r.run[1]..r.run[2] PROVE value[i] \in Int
  <2>1. i \in placed
    <3> HIDE DEF placed
    <3> QED
      BY <1>3, <1>4, <1>5, RunsAre
  <2>2. rows[i].place \in Int \X Int
    BY <2>1, MeasuresAreTyped
  <2>3. rows[i].place[r.axis] \in Int
    BY <2>2, <1>3
  <2> QED
    BY <2>3, <1>3
<1> HIDE DEF value, placed
<1>6. Evidenced(rows, E!Event("direction_change", k.at, k.left, k.right), config)
  BY <1>2, <1>3, <1>4, <1>5, PeaksAreEvidenced
<1>7. e.kind = "direction_change"
  BY <1>2 DEF E!Event
<1> QED
  BY <1>2, <1>6, <1>7

LEMMA ExtremaAreSound ==
    ASSUME NEW rows \in Measurements, NEW config \in FeatureConfigs, NEW e \in E!Extrema(rows, config)
    PROVE  /\ Evidenced(rows, e, config)
           /\ e.kind \in {"extension_maximum", "direction_change", "extension_end",
                          "extension_minimum", "preparation_candidate"}
<1> DEFINE known == {i \in DOMAIN rows : rows[i].extension # None}
           kinds == {"extension_maximum", "direction_change", "extension_end",
                     "extension_minimum", "preparation_candidate"}
<1>1. PICK r \in [run : E!Runs(rows, known, config), sign : {1, -1}] :
        \E x \in (IF r.sign = 1
                 THEN {"extension_maximum", "direction_change", "extension_end"}
                 ELSE {"extension_minimum", "direction_change", "preparation_candidate"})
                \X {k \in E!Peaks([i \in r.run[1] .. r.run[2] |-> r.sign * rows[i].extension],
                                  r.run[1], r.run[2], config.prominence) :
                        E!Elapsed(rows, k.left, k.right) >= config.duration} :
            e = E!Event(x[1], x[2].at, x[2].left, x[2].right)
  BY ZenonT(30) DEF E!Extrema
<1> DEFINE value == [i \in r.run[1] .. r.run[2] |-> r.sign * rows[i].extension]
<1>2. PICK k \in E!Peaks(value, r.run[1], r.run[2], config.prominence), kind \in kinds :
        e = E!Event(kind, k.at, k.left, k.right)
  BY <1>1
<1>3. r.run \in E!Runs(rows, known, config) /\ r.sign \in {1, -1}
  BY <1>1
<1>4. known \in SUBSET DOMAIN rows
  OBVIOUS
<1>5. ASSUME NEW i \in r.run[1]..r.run[2] PROVE value[i] \in Int
  <2>1. i \in known
    <3> HIDE DEF known
    <3> QED
      BY <1>3, <1>4, <1>5, RunsAre
  <2>2. rows[i].extension \in Int
    BY <2>1, MeasuresAreTyped
  <2> QED
    BY <2>2, <1>3
<1> HIDE DEF value, known
<1>6. Evidenced(rows, E!Event(kind, k.at, k.left, k.right), config)
  BY <1>2, <1>3, <1>4, <1>5, PeaksAreEvidenced
<1>7. e.kind = kind
  BY <1>2 DEF E!Event
<1> QED
  BY <1>2, <1>6, <1>7

-----------------------------------------------------------------------------
(* Crossings, steps and pivots.                                            *)

LEMMA CrossingsAreSound ==
    ASSUME NEW rows \in Measurements, NEW config \in FeatureConfigs, NEW e \in E!Crossings(rows, config)
    PROVE  /\ Evidenced(rows, e, config) /\ e.kind = "arm_crossing"
           /\ rows[e.first].crossing = "not_crossed"
           /\ \A i \in e.at .. e.last : rows[i].crossing = "crossed"
<1> DEFINE Ends(i) == {m \in i..Len(rows) :
               \A j \in i + 1 .. m : rows[j].crossing = "crossed" /\ ~E!Apart(rows, j, config)}
           End(i) == E!Max(Ends(i))
<1>1. PICK x \in (DOMAIN rows) \X (DOMAIN rows) :
        /\ e = E!Event("arm_crossing", x[2], x[1], End(x[2]))
        /\ x[1] < x[2] /\ rows[x[1]].crossing = "not_crossed" /\ rows[x[2]].crossing = "crossed"
        /\ \A i \in x[1] + 1 .. x[2] : rows[i].crossing # "unknown" /\ ~E!Apart(rows, i, config)
  BY Zenon DEF E!Crossings
<1>2. /\ Len(rows) \in Nat /\ x[1] \in 1..Len(rows) /\ x[2] \in 1..Len(rows)
      /\ x[1] \in Int /\ x[2] \in Int
  BY <1>1, MeasuresAreTyped
<1>3. End(x[2]) \in Ends(x[2])
  <2> DEFINE S == Ends(x[2])
  <2>1. x[2] \in S
    BY <1>2
  <2>2. S \in SUBSET Int /\ S # {} /\ Len(rows) \in Int /\ \A m \in S : m <= Len(rows)
    BY <1>2, <2>1
  <2> HIDE DEF S
  <2>3. E!Max(S) \in S
    BY <2>2, MaxIs
  <2> QED
    BY <2>3 DEF S
<1>4. e.kind = "arm_crossing" /\ e.at = x[2] /\ e.first = x[1] /\ e.last = End(x[2])
  BY <1>1 DEF E!Event
<1>5. /\ e.last \in x[2]..Len(rows)
      /\ \A j \in x[2] + 1 .. e.last : rows[j].crossing = "crossed" /\ ~E!Apart(rows, j, config)
  BY <1>3, <1>4
<1> HIDE DEF End, Ends
<1>6. ASSUME NEW i \in e.first + 1 .. e.last PROVE E!Elapsed(rows, i - 1, i) <= config.gap
  <2>1. i \in 2..Len(rows) /\ (i \in x[1] + 1 .. x[2] \/ i \in x[2] + 1 .. e.last)
    BY <1>2, <1>4, <1>5
  <2>2. ~E!Apart(rows, i, config)
    BY <1>1, <1>5, <2>1
  <2> QED
    BY <2>1, <2>2, NotApart
<1>7. Evidenced(rows, e, config)
  BY <1>1, <1>2, <1>4, <1>5, <1>6 DEF Evidenced, Unbroken
<1>8. \A i \in e.at .. e.last : i = x[2] \/ i \in x[2] + 1 .. e.last
  BY <1>2, <1>4, <1>5
<1> QED
  BY <1>1, <1>4, <1>5, <1>7, <1>8

\* A contact that stays from each sample to the next is that of the first one.
Steady(rows, first, last, state) == \A i \in first..last : rows[i].contact = state

LEMMA SteadyAll ==
    ASSUME NEW rows, NEW a \in Nat, NEW b \in Nat, NEW state,
           \A j \in a + 1 .. b : rows[j].contact = rows[j - 1].contact,
           \/ a <= b /\ (rows[a].contact = state \/ rows[b].contact = state)
           \/ b < a
    PROVE  Steady(rows, a, b, state)
<1> DEFINE S == {i \in a..b : rows[i].contact = rows[a].contact}
<1>0. a <= b \/ b < a
  OBVIOUS
<1>1. CASE a <= b
  <2>1. a \in S
    BY <1>1
  <2>2. ASSUME NEW i \in a..b, i \in S, i < b PROVE i + 1 \in S
    <3>1. i + 1 \in a + 1 .. b /\ (i + 1) - 1 = i /\ i + 1 \in a..b
      BY <2>2
    <3> QED
      BY <3>1, <2>2
  <2>3. a..b \subseteq S
    <3> HIDE DEF S
    <3> QED
      BY <2>1, <2>2, SampleInduction
  <2>4. a \in a..b /\ b \in a..b
    BY <1>1
  <2>5. \A i \in a..b : rows[i].contact = rows[a].contact
    BY <2>3
  <2> QED
    BY <1>1, <2>4, <2>5 DEF Steady
<1>2. CASE b < a
  BY <1>2 DEF Steady
<1> QED
  BY <1>0, <1>1, <1>2

StepOf(rows, e, before, after) ==
    Steady(rows, e.first, e.at - 1, before) /\ Steady(rows, e.at, e.last, after)

LEMMA StepsAreSound ==
    ASSUME NEW rows \in Measurements, NEW config \in FeatureConfigs, NEW e \in E!Steps(rows, config)
    PROVE  /\ Evidenced(rows, e, config) /\ e.first < e.at
           /\ \/ e.kind = "lift_off" /\ StepOf(rows, e, "contact", "no_contact")
              \/ e.kind = "first_contact" /\ StepOf(rows, e, "no_contact", "contact")
<1> DEFINE Same(i) == rows[i].contact = rows[i - 1].contact /\ ~E!Apart(rows, i, config)
           Befores(i) == {b \in 1 .. i - 1 : \A j \in b + 1 .. i - 1 : Same(j)}
           Ends(i) == {m \in i..Len(rows) : \A j \in i + 1 .. m : Same(j)}
<1>1. PICK n \in 2..Len(rows) :
        /\ e = E!Event(IF rows[n].contact = "contact" THEN "first_contact" ELSE "lift_off",
                       n, E!Min(Befores(n)), E!Max(Ends(n)))
        /\ "unknown" \notin {rows[n - 1].contact, rows[n].contact}
        /\ rows[n - 1].contact # rows[n].contact /\ ~E!Apart(rows, n, config)
  BY Zenon DEF E!Steps
<1>2. Len(rows) \in Nat /\ n \in Nat /\ n - 1 \in 1..Len(rows) /\ n \in 1..Len(rows) /\ n - 1 \in Nat
  BY MeasuresAreTyped
<1>3. E!Min(Befores(n)) \in Befores(n)
  <2> DEFINE S == Befores(n)
  <2>1. n - 1 \in S
    BY <1>2
  <2>2. S \subseteq 1 .. n - 1
    OBVIOUS
  <2> HIDE DEF S
  <2>4. S \in SUBSET Int /\ S # {} /\ 1 \in Int /\ \A m \in S : 1 <= m
    BY <1>2, <2>1, <2>2
  <2>3. E!Min(S) \in S
    BY <2>4, MinIs
  <2> QED
    BY <2>3 DEF S
<1>4. E!Max(Ends(n)) \in Ends(n)
  <2> DEFINE S == Ends(n)
  <2>1. n \in S
    BY <1>2
  <2>2. S \in SUBSET Int /\ S # {} /\ Len(rows) \in Int /\ \A m \in S : m <= Len(rows)
    BY <1>2, <2>1
  <2> HIDE DEF S
  <2>3. E!Max(S) \in S
    BY <2>2, MaxIs
  <2> QED
    BY <2>3 DEF S
<1>5. /\ e.at = n /\ e.first = E!Min(Befores(n)) /\ e.last = E!Max(Ends(n))
      /\ e.kind = IF rows[n].contact = "contact" THEN "first_contact" ELSE "lift_off"
  BY <1>1 DEF E!Event
<1>6. /\ e.first \in 1 .. n - 1 /\ \A j \in e.first + 1 .. n - 1 : Same(j)
      /\ e.last \in n..Len(rows) /\ \A j \in n + 1 .. e.last : Same(j)
  BY <1>3, <1>4, <1>5
<1> HIDE DEF Befores, Ends
<1>7. ASSUME NEW i \in e.first + 1 .. e.last PROVE E!Elapsed(rows, i - 1, i) <= config.gap
  <2>1. i \in 2..Len(rows) /\ (i \in e.first + 1 .. n - 1 \/ i = n \/ i \in n + 1 .. e.last)
    BY <1>2, <1>6
  <2>2. ~E!Apart(rows, i, config)
    BY <1>1, <1>6, <2>1
  <2> QED
    BY <2>1, <2>2, NotApart
<1>8. Evidenced(rows, e, config) /\ e.first < e.at
  BY <1>2, <1>5, <1>6, <1>7 DEF Evidenced, Unbroken
<1>9. Steady(rows, e.first, n - 1, rows[n - 1].contact)
  <2>1. e.first \in Nat /\ e.first <= n - 1
    BY <1>2, <1>6
  <2> QED
    BY <1>2, <1>6, <2>1, SteadyAll
<1>10. Steady(rows, n, e.last, rows[n].contact)
  <2>1. e.last \in Nat /\ n <= e.last
    BY <1>2, <1>6
  <2> QED
    BY <1>2, <1>6, <2>1, SteadyAll
<1>11. rows[n].contact \in Touching /\ rows[n - 1].contact \in Touching
  BY <1>2, MeasuresAreTyped
<1>12. \/ /\ rows[n].contact = "contact" /\ rows[n - 1].contact = "no_contact"
          /\ e.kind = "first_contact"
       \/ /\ rows[n].contact = "no_contact" /\ rows[n - 1].contact = "contact"
          /\ e.kind = "lift_off"
  BY <1>1, <1>5, <1>11 DEF Touching
<1>13. CASE rows[n].contact = "contact" /\ rows[n - 1].contact = "no_contact" /\ e.kind = "first_contact"
  BY <1>5, <1>8, <1>9, <1>10, <1>13 DEF StepOf
<1>14. CASE rows[n].contact = "no_contact" /\ rows[n - 1].contact = "contact" /\ e.kind = "lift_off"
  BY <1>5, <1>8, <1>9, <1>10, <1>14 DEF StepOf
<1> QED
  BY <1>12, <1>13, <1>14

\* What one step rests on is over before the next one of its kind.
LEMMA StepsAreApart ==
    ASSUME NEW rows \in Measurements, NEW config, NEW d, NEW e, NEW before, NEW after, before # after,
           Evidenced(rows, d, config), Evidenced(rows, e, config), e.first < e.at,
           StepOf(rows, d, before, after), StepOf(rows, e, before, after), d.at < e.at
    PROVE  d.last < e.first
<1>1. /\ Len(rows) \in Nat
      /\ d.first \in 1..Len(rows) /\ d.last \in 1..Len(rows) /\ d.at \in d.first..d.last
      /\ e.first \in 1..Len(rows) /\ e.last \in 1..Len(rows) /\ e.at \in e.first..e.last
  BY MeasuresAreTyped DEF Evidenced
<1>2. SUFFICES ASSUME e.first <= d.last PROVE FALSE
  BY <1>1
<1> DEFINE m == IF e.first >= d.at THEN e.first ELSE d.at
<1>3. m \in e.first .. e.at - 1 /\ m \in d.at .. d.last
  BY <1>1, <1>2
<1> HIDE DEF m
<1> QED
  BY <1>3 DEF StepOf, Steady

LEMMA PivotsAreEvidenced ==
    ASSUME NEW rows \in Measurements, NEW config \in FeatureConfigs,
           NEW pivots, \A p \in pivots : p[1] \in 1..Len(rows) /\ p[2] \in p[1]..Len(rows),
           NEW e \in E!Pivoted(rows, pivots, config)
    PROVE  Evidenced(rows, e, config) /\ e.kind \in {"pivot_start", "pivot_end"}
<1>1. PICK s \in E!Supported(rows, pivots, config) :
        \/ e = E!Event("pivot_start", s[1], s[1], s[2])
        \/ e = E!Event("pivot_end", s[2], s[1], s[2])
  BY DEF E!Pivoted
<1>2. s \in pivots /\ \A i \in s[1] + 1 .. s[2] : ~E!Apart(rows, i, config)
  BY DEF E!Supported
<1>3. Len(rows) \in Nat /\ s[1] \in 1..Len(rows) /\ s[2] \in s[1]..Len(rows) /\ s[2] \in 1..Len(rows)
  BY <1>2, MeasuresAreTyped
<1>4. /\ e.first = s[1] /\ e.last = s[2] /\ (e.at = s[1] \/ e.at = s[2])
      /\ e.kind \in {"pivot_start", "pivot_end"}
  BY <1>1 DEF E!Event
<1>5. ASSUME NEW i \in s[1] + 1 .. s[2] PROVE E!Elapsed(rows, i - 1, i) <= config.gap
  <2>1. i \in 2..Len(rows)
    BY <1>3
  <2> QED
    BY <1>2, <2>1, NotApart
<1> QED
  BY <1>3, <1>4, <1>5 DEF Evidenced, Unbroken

-----------------------------------------------------------------------------
(* Every event.                                                            *)

\* What tells events of one kind: how they were found.
ByKind(rows, e, config) ==
    /\ e.kind = "motion_onset" => e \in E!Bouts(rows, config)
    /\ e.kind \in {"lift_off", "first_contact"} => e \in E!Steps(rows, config)
    /\ e.kind = "arm_crossing" => e \in E!Crossings(rows, config)

LEMMA EventsComeFromEvidence ==
    ASSUME NEW rows \in Measurements, NEW config \in FeatureConfigs,
           NEW pivots, \A p \in pivots : p[1] \in 1..Len(rows) /\ p[2] \in p[1]..Len(rows),
           NEW e \in E!Events(rows, pivots, config)
    PROVE  Evidenced(rows, e, config) /\ ByKind(rows, e, config)
<1>1. \/ e \in E!Bouts(rows, config) \/ e \in E!Reversals(rows, config)
      \/ e \in E!Extrema(rows, config) \/ e \in E!Crossings(rows, config)
      \/ e \in E!Steps(rows, config) \/ e \in E!Pivoted(rows, pivots, config)
  BY DEF E!Events
<1>2. CASE e \in E!Bouts(rows, config)
  <2>1. Evidenced(rows, e, config) /\ e.kind \in {"motion_onset", "extension_start"}
    BY <1>2, BoutsAreSound
  <2> QED
    BY <1>2, <2>1 DEF ByKind
<1>3. CASE e \in E!Reversals(rows, config)
  <2>1. Evidenced(rows, e, config) /\ e.kind = "direction_change"
    BY <1>3, ReversalsAreSound
  <2> QED
    BY <2>1 DEF ByKind
<1>4. CASE e \in E!Extrema(rows, config)
  <2>1. /\ Evidenced(rows, e, config)
        /\ e.kind \notin {"motion_onset", "lift_off", "first_contact", "arm_crossing"}
    BY <1>4, ExtremaAreSound
  <2> QED
    BY <2>1 DEF ByKind
<1>5. CASE e \in E!Crossings(rows, config)
  <2>1. Evidenced(rows, e, config) /\ e.kind = "arm_crossing"
    BY <1>5, CrossingsAreSound
  <2> QED
    BY <1>5, <2>1 DEF ByKind
<1>6. CASE e \in E!Steps(rows, config)
  <2>1. Evidenced(rows, e, config) /\ e.kind \in {"lift_off", "first_contact"}
    BY <1>6, StepsAreSound
  <2> QED
    BY <1>6, <2>1 DEF ByKind
<1>7. CASE e \in E!Pivoted(rows, pivots, config)
  <2>1. Evidenced(rows, e, config) /\ e.kind \in {"pivot_start", "pivot_end"}
    BY <1>7, PivotsAreEvidenced
  <2> QED
    BY <2>1 DEF ByKind
<1> QED
  BY <1>1, <1>2, <1>3, <1>4, <1>5, <1>6, <1>7

LEMMA EventsRestOnEvidence ==
    ASSUME NEW rows \in Measurements, NEW config \in FeatureConfigs,
           NEW pivots, \A p \in pivots : p[1] \in 1..Len(rows) /\ p[2] \in p[1]..Len(rows)
    PROVE  E!EventsAreEarned(rows, pivots, config)
<1> DEFINE events == E!Events(rows, pivots, config)
           Of(kind) == {e \in events : e.kind = kind}
<1>0. ASSUME NEW e \in events PROVE Evidenced(rows, e, config) /\ ByKind(rows, e, config)
  BY EventsComeFromEvidence
<1> HIDE DEF events
<1>1. ASSUME NEW e \in events
      PROVE  /\ e.first <= e.at /\ e.at <= e.last
             /\ \A i \in e.first + 1 .. e.last : E!Elapsed(rows, i - 1, i) <= config.gap
  <2>1. /\ e.first \in 1..Len(rows) /\ e.last \in 1..Len(rows) /\ e.at \in e.first..e.last
        /\ Unbroken(rows, e.first, e.last, config)
    BY <1>0 DEF Evidenced
  <2> QED
    BY <2>1 DEF Unbroken
<1>2. ASSUME NEW e \in Of("motion_onset")
      PROVE  /\ rows[e.first].speed <= config.leave /\ rows[e.last].speed <= config.leave
             /\ \E i \in e.first .. e.last : rows[i].speed # None /\ rows[i].speed >= config.enter
             /\ \A d \in Of("motion_onset") : d.at < e.at => d.last <= e.first
  <2>1. \A d \in Of("motion_onset") : d \in E!Bouts(rows, config)
    BY <1>0 DEF ByKind
  <2>2. /\ Rests(rows, e.first, config) /\ Rests(rows, e.last, config)
        /\ Hurries(rows, e.first, e.last, config)
    BY <2>1, BoutsAreSound
  <2>3. \A d \in Of("motion_onset") : d.at < e.at => d.last <= e.first
    BY <2>1, BoutsAreSound
  <2> QED
    BY <2>2, <2>3 DEF Rests, Hurries
<1>3. ASSUME NEW e \in Of("lift_off")
      PROVE  StepOf(rows, e, "contact", "no_contact") /\ e.first < e.at
  <2>1. e \in E!Steps(rows, config) /\ e.kind = "lift_off"
    BY <1>0 DEF ByKind
  <2>2. \/ StepOf(rows, e, "contact", "no_contact")
        \/ e.kind = "first_contact"
    BY <2>1, StepsAreSound
  <2>3. e.first < e.at
    BY <2>1, StepsAreSound
  <2> QED
    BY <2>1, <2>2, <2>3
<1>4. ASSUME NEW e \in Of("first_contact")
      PROVE  StepOf(rows, e, "no_contact", "contact") /\ e.first < e.at
  <2>1. e \in E!Steps(rows, config) /\ e.kind = "first_contact"
    BY <1>0 DEF ByKind
  <2>2. \/ StepOf(rows, e, "no_contact", "contact")
        \/ e.kind = "lift_off"
    BY <2>1, StepsAreSound
  <2>3. e.first < e.at
    BY <2>1, StepsAreSound
  <2> QED
    BY <2>1, <2>2, <2>3
<1>5. ASSUME NEW d \in Of("lift_off"), NEW e \in Of("lift_off"), d.at < e.at
      PROVE  d.last < e.first
  <2>1. Evidenced(rows, d, config) /\ Evidenced(rows, e, config)
    BY <1>0
  <2>2. /\ StepOf(rows, d, "contact", "no_contact") /\ StepOf(rows, e, "contact", "no_contact")
        /\ e.first < e.at
    BY <1>3
  <2>3. "contact" # "no_contact"
    OBVIOUS
  <2> QED
    BY <1>5, <2>1, <2>2, <2>3, StepsAreApart
<1>6. ASSUME NEW d \in Of("first_contact"), NEW e \in Of("first_contact"), d.at < e.at
      PROVE  d.last < e.first
  <2>1. Evidenced(rows, d, config) /\ Evidenced(rows, e, config)
    BY <1>0
  <2>2. /\ StepOf(rows, d, "no_contact", "contact") /\ StepOf(rows, e, "no_contact", "contact")
        /\ e.first < e.at
    BY <1>4
  <2>3. "contact" # "no_contact"
    OBVIOUS
  <2> QED
    BY <1>6, <2>1, <2>2, <2>3, StepsAreApart
<1>7. ASSUME NEW e \in Of("arm_crossing")
      PROVE  /\ rows[e.first].crossing = "not_crossed"
             /\ \A i \in e.at .. e.last : rows[i].crossing = "crossed"
  <2>1. e \in E!Crossings(rows, config)
    BY <1>0 DEF ByKind
  <2> QED
    BY <2>1, CrossingsAreSound
<1>8. \A kind \in {"lift_off", "first_contact"} : \A d, e \in Of(kind) :
        d.at < e.at => d.last < e.first
  BY <1>5, <1>6
<1>9. /\ \A e \in Of("lift_off") :
          /\ Steady(rows, e.first, e.at - 1, "contact") /\ Steady(rows, e.at, e.last, "no_contact")
      /\ \A e \in Of("first_contact") :
          /\ Steady(rows, e.first, e.at - 1, "no_contact") /\ Steady(rows, e.at, e.last, "contact")
  BY <1>3, <1>4 DEF StepOf
<1> QED
  BY <1>1, <1>2, <1>7, <1>8, <1>9, Zenon DEF E!EventsAreEarned, Steady, events

-----------------------------------------------------------------------------
(***************************************************************************)
(* Steps of an execution.                                                  *)
(***************************************************************************)

LEMMA ActivitiesAreTyped ==
    ASSUME NEW rows \in Activities
    PROVE  /\ Len(rows) \in Nat /\ DOMAIN rows = 1..Len(rows)
           /\ \A i \in 1..Len(rows) : rows[i].t \in Int
           /\ \A i, j \in 1..Len(rows) : i <= j => rows[i].t <= rows[j].t
<1> DEFINE R == [t : Int, moving : SUBSET (G!Limbs \cup {"head"}), unknown : SUBSET G!Limbs,
                 event : {"none", "lift", "place"}]
<1>1. rows \in Seq(R) /\ InOrder(rows)
  BY DEF Activities
<1>2. \A r \in R : r.t \in Int
  OBVIOUS
<1> HIDE DEF R
<1>3. Len(rows) \in Nat /\ DOMAIN rows = 1..Len(rows) /\ \A i \in DOMAIN rows : rows[i] \in R
  BY <1>1, ElementsAreTyped
<1>4. \A i \in 1..Len(rows) : rows[i].t \in Int
  BY <1>2, <1>3
<1> QED
  BY <1>1, <1>3, <1>4, TimesGrow

LEMMA SameExtremes ==
    ASSUME NEW S PROVE G!Max(S) = E!Max(S) /\ G!Min(S) = E!Min(S)
  BY Zenon DEF G!Max, G!Min, E!Max, E!Min

\* Two stretches of samples that are maximal are the same or apart.
LEMMA StretchesAreApart ==
    ASSUME NEW samples \in SUBSET Int, NEW q \in G!Runs(samples), NEW r \in G!Runs(samples),
           q[1] < r[1]
    PROVE  q[2] < r[1]
<1>1. /\ q[1] \in Int /\ q[2] \in Int /\ r[1] \in Int /\ r[2] \in Int
      /\ \A i \in q[1]..q[2] : i \in samples
      /\ r[1] - 1 \notin samples
  BY DEF G!Runs
<1> QED
  BY <1>1

LEMMA BoutsAre ==
    ASSUME NEW rows \in Activities, NEW config
    PROVE  /\ \A r \in G!Bouts(rows, config) :
                r[1] \in 1..Len(rows) /\ r[2] \in r[1]..Len(rows) /\ r[2] \in 1..Len(rows)
           /\ \A q, r \in G!Bouts(rows, config) : q[1] < r[1] => q[2] < r[1]
<1> DEFINE samples == {i \in DOMAIN rows : G!Active(rows[i])}
<1>1. G!Bouts(rows, config) \subseteq G!Runs(samples)
  BY DEF G!Bouts
<1>2. samples \in SUBSET (1..Len(rows)) /\ samples \in SUBSET Int /\ Len(rows) \in Nat
  BY ActivitiesAreTyped
<1> HIDE DEF samples
<1>3. ASSUME NEW r \in G!Runs(samples)
      PROVE  r[1] \in 1..Len(rows) /\ r[2] \in r[1]..Len(rows) /\ r[2] \in 1..Len(rows)
  <2>1. r[1] \in samples /\ r[2] \in samples /\ r[1] <= r[2]
    BY DEF G!Runs
  <2>2. r[1] \in 1..Len(rows) /\ r[2] \in 1..Len(rows)
    BY <1>2, <2>1
  <2> QED
    BY <1>2, <2>1, <2>2
<1>4. \A q, r \in G!Bouts(rows, config) : q[1] < r[1] => q[2] < r[1]
  BY <1>1, <1>2, StretchesAreApart
<1> QED
  BY <1>1, <1>3, <1>4

\* What the early returns leave: a first bout, a last one and the hold after it.
LEMMA EndsAre ==
    ASSUME NEW rows \in Activities, NEW config \in SegmentConfigs, G!Resolved(rows, config)
    PROVE  LET first == G!First(rows, config)
               last == G!LastActive(rows, config)
               end == G!Min(G!Held(rows, config))
           IN /\ first \in 1..Len(rows) /\ last \in first..Len(rows) /\ end \in last + 1 .. Len(rows)
              /\ \A r \in G!Bouts(rows, config) : first <= r[1] /\ r[2] <= last
              /\ \A i \in last + 1 .. end : G!Quiet(rows[i])
<1> DEFINE bouts == G!Bouts(rows, config)
           firsts == {r[1] : r \in bouts}
           lasts == {r[2] : r \in bouts}
           held == G!Held(rows, config)
           first == G!First(rows, config)
           last == G!LastActive(rows, config)
           end == G!Min(held)
           post == {i \in (last + 1)..Len(rows) : rows[i].t <= rows[end].t + config.edge}
<1>1. /\ bouts # {} /\ held # {} /\ \A i \in post : G!Quiet(rows[i])
  BY DEF G!Resolved
<1>2. Len(rows) \in Nat /\ DOMAIN rows = 1..Len(rows) /\ config.edge \in Nat
  BY ActivitiesAreTyped DEF SegmentConfigs
<1>3. \A r \in bouts : r[1] \in 1..Len(rows) /\ r[2] \in r[1]..Len(rows) /\ r[2] \in 1..Len(rows)
  BY BoutsAre
<1>4. first = E!Min(firsts) /\ last = E!Max(lasts) /\ end = E!Min(held)
  BY SameExtremes DEF G!First, G!LastActive
<1> HIDE DEF bouts
<1>5. /\ firsts \in SUBSET Int /\ firsts # {} /\ \A x \in firsts : 1 <= x
      /\ lasts \in SUBSET Int /\ lasts # {} /\ \A x \in lasts : x <= Len(rows)
  <2>1. \A r \in bouts : r[1] \in Int /\ r[2] \in Int /\ 1 <= r[1] /\ r[2] <= Len(rows)
    BY <1>2, <1>3
  <2> QED
    BY <1>1, <2>1
<1>6. E!Min(firsts) \in firsts /\ \A x \in firsts : E!Min(firsts) <= x
  <2>1. 1 \in Int
    OBVIOUS
  <2> HIDE DEF firsts
  <2> QED
    BY <1>5, <2>1, MinIs
<1>7. E!Max(lasts) \in lasts /\ \A x \in lasts : x <= E!Max(lasts)
  <2>1. Len(rows) \in Int
    BY <1>2
  <2> HIDE DEF lasts
  <2> QED
    BY <1>5, <2>1, MaxIs
<1> HIDE DEF first, last, end
<1>8. \A r \in bouts : first <= r[1] /\ r[2] <= last
  BY <1>4, <1>6, <1>7
<1>9. first \in 1..Len(rows) /\ last \in 1..Len(rows) /\ first <= last
  <2>1. PICK r \in bouts : first = r[1]
    BY <1>4, <1>6
  <2>2. PICK q \in bouts : last = q[2]
    BY <1>4, <1>7
  <2>3. /\ r[1] \in 1..Len(rows) /\ r[2] \in r[1]..Len(rows) /\ q[2] \in 1..Len(rows) /\ r[2] <= last
    BY <1>3, <1>8
  <2> QED
    BY <1>2, <2>1, <2>2, <2>3
<1>10. end \in held /\ held \subseteq last + 1 .. Len(rows)
  <2>1. held \in SUBSET Int /\ \A x \in held : 1 <= x
    BY <1>2 DEF G!Held
  <2>2. \A i \in held : i \in 1..Len(rows) /\ i > last
    BY <1>2 DEF G!Held, last
  <2>3. 1 \in Int
    OBVIOUS
  <2> HIDE DEF held
  <2>4. E!Min(held) \in held
    BY <1>1, <2>1, <2>3, MinIs
  <2>5. end \in held
    BY <1>4, <2>4
  <2>6. \A i \in held : i \in last + 1 .. Len(rows)
    BY <1>2, <1>9, <2>2
  <2> QED
    BY <2>5, <2>6
<1>11. ASSUME NEW i \in last + 1 .. end PROVE G!Quiet(rows[i])
  <2>1. i \in last + 1 .. Len(rows) /\ i \in 1..Len(rows) /\ end \in 1..Len(rows) /\ i <= end
    BY <1>2, <1>9, <1>10
  <2>2. rows[i].t <= rows[end].t /\ rows[i].t \in Int /\ rows[end].t \in Int
    BY <2>1, ActivitiesAreTyped
  <2>3. rows[i].t <= rows[end].t + config.edge
    BY <1>2, <2>2
  <2> QED
    BY <1>1, <2>1, <2>3
<1> QED
  BY <1>2, <1>8, <1>9, <1>10, <1>11 DEF first, last, end, bouts

\* What the boundaries up to the sample i are.
Landed(rows, from, to) ==
    ~\E i \in from..(to - 1) :
        rows[i].event = "lift" /\ \A k \in (i + 1)..(to - 1) : rows[k].event = "none"

CutsAreSound(rows, config, cuts, i) ==
    /\ cuts \in Seq(Nat) /\ Len(cuts) >= 1 /\ cuts[1] = G!First(rows, config)
    /\ \A n \in 1..Len(cuts) :
        /\ \E r \in G!Bouts(rows, config) : cuts[n] = r[1]
        /\ n = 1 \/ cuts[n] <= i
    /\ \A n \in 1..(Len(cuts) - 1) : cuts[n] < cuts[n + 1]
    /\ \A n \in 2..Len(cuts) : Landed(rows, cuts[1], cuts[n])

Renewed(rows, config, cuts, i) ==
    IF /\ i \in G!Renewals(rows, config) /\ i > G!First(rows, config)
       /\ ~G!Awaiting(rows, G!Last(cuts), i)
    THEN Append(cuts, i) ELSE cuts

LEMMA OneMoreCut ==
    ASSUME NEW cuts \in Seq(Nat), NEW i \in Nat
    PROVE  /\ Append(cuts, i) \in Seq(Nat) /\ Len(Append(cuts, i)) = Len(cuts) + 1
           /\ Append(cuts, i)[Len(cuts) + 1] = i
           /\ \A n \in 1..Len(cuts) : Append(cuts, i)[n] = cuts[n]
           /\ Len(cuts) \in Nat /\ \A n \in 1..Len(cuts) : cuts[n] \in Nat
  OBVIOUS

\* Nothing has left the ground for good where nothing is awaited since the last
\* boundary, and nothing had when that one was set.
LEMMA LandedAgain ==
    ASSUME NEW rows \in Activities, NEW first \in 1..Len(rows), NEW last \in 1..Len(rows),
           NEW i \in 1..Len(rows), first <= last, last < i,
           ~G!Awaiting(rows, last, i), last = first \/ Landed(rows, first, last)
    PROVE  Landed(rows, first, i)
<1>1. SUFFICES ASSUME NEW k \in first..(i - 1), rows[k].event = "lift",
                      \A j \in (k + 1)..(i - 1) : rows[j].event = "none"
               PROVE  FALSE
  BY DEF Landed
<1>0. Len(rows) \in Nat /\ first \in Int /\ last \in Int /\ i \in Int /\ k \in Int
  BY ActivitiesAreTyped
<1>2. CASE last <= k
  <2> DEFINE events == {j \in last..(i - 1) : rows[j].event # "none"}
  <2>1. k \in events
    BY <1>0, <1>1, <1>2
  <2>2. events \in SUBSET Int /\ \A j \in events : j <= k
    <3>1. ASSUME NEW j \in events PROVE j \in Int /\ j <= k
      <4>1. j \in last..(i - 1) /\ rows[j].event # "none"
        OBVIOUS
      <4>2. ~(j \in (k + 1)..(i - 1))
        BY <1>1, <4>1
      <4> QED
        BY <1>0, <4>1, <4>2
    <3> QED
      BY <3>1
  <2>3. G!Max(events) = k
    <3> HIDE DEF events
    <3>1. events # {}
      BY <2>1
    <3>2. E!Max(events) \in events /\ \A j \in events : j <= E!Max(events)
      BY <1>0, <2>2, <3>1, MaxIs
    <3>3. k <= E!Max(events) /\ E!Max(events) <= k /\ E!Max(events) \in Int
      BY <2>1, <2>2, <3>2
    <3> QED
      BY <1>0, <3>3, SameExtremes
  <2>4. G!Awaiting(rows, last, i)
    BY <1>1, <2>1, <2>3 DEF G!Awaiting
  <2> QED
    BY <2>4
<1>3. CASE k < last
  <2>1. Landed(rows, first, last)
    BY <1>0, <1>3
  <2>2. k \in first..(last - 1) /\ \A j \in (k + 1)..(last - 1) : j \in (k + 1)..(i - 1)
    BY <1>0, <1>3
  <2> QED
    BY <1>1, <2>1, <2>2 DEF Landed
<1> QED
  BY <1>0, <1>2, <1>3

LEMMA RenewedKeeps ==
    ASSUME NEW rows \in Activities, NEW config \in SegmentConfigs,
           G!First(rows, config) \in 1..Len(rows),
           \A r \in G!Bouts(rows, config) : G!First(rows, config) <= r[1],
           NEW i \in 1..Len(rows), NEW cuts, CutsAreSound(rows, config, cuts, i - 1)
    PROVE  CutsAreSound(rows, config, Renewed(rows, config, cuts, i), i)
<1> DEFINE first == G!First(rows, config)
           l == Len(cuts)
           more == Append(cuts, i)
<1>00. Len(rows) \in Nat /\ i \in Nat /\ first \in Nat
  BY ActivitiesAreTyped
<1>01. /\ cuts \in Seq(Nat) /\ l >= 1 /\ cuts[1] = first
       /\ \A n \in 1..l : \E r \in G!Bouts(rows, config) : cuts[n] = r[1]
       /\ \A n \in 1..l : n = 1 \/ cuts[n] <= i - 1
       /\ \A n \in 1..(l - 1) : cuts[n] < cuts[n + 1]
       /\ \A n \in 2..l : Landed(rows, cuts[1], cuts[n])
  BY Zenon DEF CutsAreSound
<1>0. /\ Len(rows) \in Nat /\ i \in Nat /\ first \in Nat
      /\ cuts \in Seq(Nat) /\ l >= 1 /\ cuts[1] = first
      /\ \A n \in 1..l : \E r \in G!Bouts(rows, config) : cuts[n] = r[1]
      /\ \A n \in 1..l : n = 1 \/ cuts[n] <= i - 1
      /\ \A n \in 1..(l - 1) : cuts[n] < cuts[n + 1]
      /\ \A n \in 2..l : Landed(rows, cuts[1], cuts[n])
  BY <1>00, <1>01
<1>1. /\ more \in Seq(Nat) /\ Len(more) = l + 1 /\ more[l + 1] = i
      /\ \A n \in 1..l : more[n] = cuts[n]
      /\ l \in Nat /\ \A n \in 1..l : cuts[n] \in Nat
  BY <1>0, OneMoreCut
<1>2. CASE /\ i \in G!Renewals(rows, config) /\ i > first
           /\ ~G!Awaiting(rows, G!Last(cuts), i)
  <2>1. Renewed(rows, config, cuts, i) = more
    BY <1>2, Zenon DEF Renewed
  <2>2. G!Last(cuts) = cuts[l] /\ l \in 1..l /\ cuts[l] \in Nat
    BY <1>0, <1>1 DEF G!Last
  <2>3. \E r \in G!Bouts(rows, config) : i = r[1]
    BY <1>2 DEF G!Renewals
  <2>4. cuts[l] < i
    BY <1>0, <1>2, <2>2
  <2>5. cuts[l] \in 1..Len(rows) /\ first <= cuts[l]
    <3>1. PICK r \in G!Bouts(rows, config) : cuts[l] = r[1]
      BY <1>0, <2>2
    <3> QED
      BY <3>1, BoutsAre
  <2>6. cuts[l] = first \/ Landed(rows, first, cuts[l])
    <3>2. l \in Nat /\ l >= 1
      BY <1>0, <1>1
    <3>1. l = 1 \/ l \in 2..l
      <4> HIDE DEF l
      <4> QED
        BY <3>2
    <3> QED
      BY <1>0, <3>1
  <2>7. Landed(rows, first, i)
    <3>1. ~G!Awaiting(rows, cuts[l], i)
      BY <1>2, <2>2
    <3> HIDE DEF first, l
    <3> QED
      BY <2>4, <2>5, <2>6, <3>1, LandedAgain DEF first
  <2> HIDE DEF more, first, l
  <2>8. more[1] = first
    BY <1>0, <1>1
  <2>9. ASSUME NEW n \in 1..(l + 1)
        PROVE  /\ \E r \in G!Bouts(rows, config) : more[n] = r[1]
               /\ n = 1 \/ more[n] <= i
               /\ n = 1 \/ Landed(rows, more[1], more[n])
    <3>1. CASE n \in 1..l
      <4>1. more[n] = cuts[n] /\ cuts[n] \in Nat
        BY <1>1, <3>1
      <4>2. n = 1 \/ (cuts[n] <= i /\ n \in 2..l)
        BY <1>0, <1>1, <3>1, <4>1
      <4> QED
        BY <1>0, <2>8, <3>1, <4>1, <4>2
    <3>2. CASE n = l + 1
      BY <1>0, <1>1, <2>3, <2>7, <2>8, <3>2
    <3> QED
      BY <1>1, <3>1, <3>2
  <2>10. ASSUME NEW n \in 1..l PROVE more[n] < more[n + 1]
    <3>1. CASE n = l
      BY <1>1, <2>4, <3>1
    <3>2. CASE n # l
      <4>1. n \in 1..(l - 1) /\ n + 1 \in 1..l
        BY <1>1, <3>2
      <4> QED
        BY <1>0, <1>1, <4>1
    <3> QED
      BY <3>1, <3>2
  <2>11. \A n \in 2..(l + 1) : n \in 1..(l + 1) /\ n # 1
    BY <1>1
  <2>12. \A n \in 1..(Len(more) - 1) : n \in 1..l
    BY <1>1
  <2>13. Len(more) >= 1 /\ \A n \in 1..Len(more) : n \in 1..(l + 1)
    BY <1>0, <1>1
  <2>14. CutsAreSound(rows, config, more, i)
    <3>1. \A n \in 2..Len(more) : n \in 2..(l + 1)
      BY <1>1
    <3> QED
      BY <1>1, <2>8, <2>9, <2>10, <2>11, <2>12, <2>13, <3>1 DEF CutsAreSound, first
  <2> QED
    BY <2>1, <2>14
<1>3. CASE ~(/\ i \in G!Renewals(rows, config) /\ i > first
             /\ ~G!Awaiting(rows, G!Last(cuts), i))
  <2>1. Renewed(rows, config, cuts, i) = cuts
    BY <1>3, Zenon DEF Renewed
  <2>2. \A n \in 1..l : n = 1 \/ cuts[n] <= i
    BY <1>0, <1>1
  <2>3. CutsAreSound(rows, config, cuts, i)
    BY <1>0, <2>2 DEF CutsAreSound
  <2> QED
    BY <2>1, <2>3
<1> QED
  BY <1>2, <1>3

LEMMA CutsUnfold ==
    ASSUME NEW rows \in Activities, NEW config, G!First(rows, config) \in Nat
    PROVE  \E c \in [0..Len(rows) -> Seq(Nat)] :
             /\ c[0] = <<G!First(rows, config)>>
             /\ \A i \in 1..Len(rows) : c[i] = Renewed(rows, config, c[i - 1], i)
             /\ G!Cuts(rows, config) = Append(c[Len(rows)], G!Min(G!Held(rows, config)))
<1> DEFINE n == Len(rows)
           first == <<G!First(rows, config)>>
           step == [x \in (1..n) \X Seq(Nat) |-> Renewed(rows, config, x[2], x[1])]
           Body(c) == [i \in 0..n |-> IF i = 0 THEN first ELSE
                         IF /\ i \in G!Renewals(rows, config) /\ i > G!First(rows, config)
                            /\ ~G!Awaiting(rows, G!Last(c[i - 1]), i)
                         THEN Append(c[i - 1], i) ELSE c[i - 1]]
<1>0. n \in Nat /\ first \in Seq(Nat)
  BY ActivitiesAreTyped
<1>1. \A i \in 1..n : \A s \in Seq(Nat) : Renewed(rows, config, s, i) \in Seq(Nat)
  BY <1>0, OneMoreCut DEF Renewed
<1>2. step \in [(1..n) \X Seq(Nat) -> Seq(Nat)]
  BY <1>1
<1>3. IsComputed(Seq(Nat), first, n, step)
  <2> HIDE DEF n, first, step
  <2> QED
    BY <1>0, <1>2, Recursion
<1>4. PICK h \in [0..n -> Seq(Nat)] : h[0] = first /\ \A i \in 1..n : h[i] = step[<<i, h[i - 1]>>]
  BY <1>3 DEF IsComputed
<1>5. ASSUME NEW i \in 1..n PROVE h[i] = Renewed(rows, config, h[i - 1], i)
  <2>1. h[i - 1] \in Seq(Nat)
    BY <1>0, <1>4
  <2> QED
    BY <2>1, <1>4
<1>6. h = Body(h)
  <2> HIDE DEF n, first
  <2>1. \A i \in 0..n : i = 0 \/ i \in 1..n
    BY <1>0
  <2>2. \A i \in 0..n : h[i] = IF i = 0 THEN first ELSE
                         IF /\ i \in G!Renewals(rows, config) /\ i > G!First(rows, config)
                            /\ ~G!Awaiting(rows, G!Last(h[i - 1]), i)
                         THEN Append(h[i - 1], i) ELSE h[i - 1]
    BY <1>0, <1>4, <1>5, <2>1, Zenon DEF Renewed
  <2>3. h = [i \in 0..n |-> h[i]]
    BY <1>4
  <2> QED
    BY <2>2, <2>3
<1> DEFINE c == CHOOSE c : c = Body(c)
<1>7. G!Cuts(rows, config) = Append(c[n], G!Min(G!Held(rows, config)))
  BY DEF G!Cuts
<1>8. c = Body(c)
  <2> HIDE DEF Body
  <2> QED
    BY <1>6
<1> HIDE DEF c
<1>9. DOMAIN c = 0..n /\ c[0] = first /\ c = [i \in 0..n |-> c[i]]
  BY <1>8, <1>0
<1>10. \A i \in 1..n : c[i] = Renewed(rows, config, c[i - 1], i)
  <2>1. \A i \in 1..n : i \in 0..n /\ i # 0
    BY <1>0
  <2> HIDE DEF n, first
  <2> QED
    BY <1>8, <2>1, Zenon DEF Renewed
<1>11. 0..n \subseteq {k \in 0..n : c[k] \in Seq(Nat)}
  <2> DEFINE S == {k \in 0..n : c[k] \in Seq(Nat)}
  <2>1. 0 \in S
    <3> HIDE DEF n, first
    <3> QED
      BY <1>0, <1>9
  <2>2. ASSUME NEW k \in 0..n, k \in S, k < n PROVE k + 1 \in S
    <3>1. k + 1 \in 1..n /\ (k + 1) - 1 = k
      BY <1>0, <2>2
    <3> QED
      BY <3>1, <1>10, <1>1, <2>2
  <2>3. 0..n \subseteq S
    <3> HIDE DEF S, n
    <3> QED
      BY <1>0, <2>1, <2>2, SampleInduction
  <2> QED
    BY <2>3 DEF S
<1>12. c \in [0..n -> Seq(Nat)]
  <2> HIDE DEF n
  <2> QED
    BY <1>9, <1>11
<1> QED
  BY <1>7, <1>9, <1>10, <1>12

LEMMA CutsOfAnExecution ==
    ASSUME NEW rows \in Activities, NEW config \in SegmentConfigs, G!Resolved(rows, config)
    PROVE  \E cuts : /\ CutsAreSound(rows, config, cuts, Len(rows))
                     /\ G!Cuts(rows, config) = Append(cuts, G!Min(G!Held(rows, config)))
<1> DEFINE n == Len(rows)
           first == G!First(rows, config)
<1>1. /\ n \in Nat /\ first \in 1..n /\ first \in Nat
      /\ \A r \in G!Bouts(rows, config) : first <= r[1]
  BY ActivitiesAreTyped, EndsAre
<1>2. PICK c \in [0..n -> Seq(Nat)] :
        /\ c[0] = <<first>>
        /\ \A i \in 1..n : c[i] = Renewed(rows, config, c[i - 1], i)
        /\ G!Cuts(rows, config) = Append(c[n], G!Min(G!Held(rows, config)))
  BY <1>1, CutsUnfold
<1> DEFINE S == {i \in 0..n : CutsAreSound(rows, config, c[i], i)}
<1>3. 0 \in S
  <2>1. \E r \in G!Bouts(rows, config) : first = r[1]
    <3> DEFINE firsts == {r[1] : r \in G!Bouts(rows, config)}
    <3>1. first = E!Min(firsts)
      BY SameExtremes DEF G!First
    <3>2. firsts \in SUBSET Int /\ firsts # {} /\ \A x \in firsts : 1 <= x
      <4>1. G!Bouts(rows, config) # {}
        BY DEF G!Resolved
      <4>2. \A r \in G!Bouts(rows, config) : r[1] \in Int /\ 1 <= r[1]
        BY <1>1, BoutsAre
      <4> QED
        BY <4>1, <4>2
    <3>3. E!Min(firsts) \in firsts
      <4>1. 1 \in Int
        OBVIOUS
      <4> HIDE DEF firsts
      <4> QED
        BY <3>2, <4>1, MinIs
    <3> QED
      BY <3>1, <3>3
  <2>2. CutsAreSound(rows, config, <<first>>, 0)
    BY <1>1, <2>1 DEF CutsAreSound
  <2> QED
    BY <1>1, <1>2, <2>2, SMTT(30)
<1>4. ASSUME NEW i \in 0..n, i \in S, i < n PROVE i + 1 \in S
  <2>1. i + 1 \in 1..n /\ (i + 1) - 1 = i /\ i + 1 \in 0..n
    BY <1>1, <1>4
  <2>2. CutsAreSound(rows, config, c[i], (i + 1) - 1)
    BY <1>4, <2>1
  <2>3. c[i + 1] = Renewed(rows, config, c[i], i + 1)
    BY <1>2, <2>1
  <2>4. CutsAreSound(rows, config, Renewed(rows, config, c[i], i + 1), i + 1)
    BY <1>1, <2>1, <2>2, RenewedKeeps
  <2> QED
    BY <2>1, <2>3, <2>4
<1>5. 0..n \subseteq S
  <2> HIDE DEF S, n
  <2> QED
    BY <1>1, <1>3, <1>4, SampleInduction
<1>6. CutsAreSound(rows, config, c[n], n)
  BY <1>1, <1>5
<1> QED
  BY <1>2, <1>6

LEMMA StepsAreWholeInTheEnd ==
    ASSUME NEW rows \in Activities, NEW config \in SegmentConfigs
    PROVE  G!StepsAreWhole(rows, config)
<1>1. CASE ~G!Resolved(rows, config)
  BY <1>1 DEF G!StepsAreWhole, G!Segment
<1>2. CASE G!Resolved(rows, config)
  <2> DEFINE first == G!First(rows, config)
             last == G!LastActive(rows, config)
             end == G!Min(G!Held(rows, config))
             all == G!Segment(rows, config)
  <2>1. /\ first \in 1..Len(rows) /\ last \in first..Len(rows) /\ end \in last + 1 .. Len(rows)
        /\ \A r \in G!Bouts(rows, config) : first <= r[1] /\ r[2] <= last
        /\ \A i \in last + 1 .. end : G!Quiet(rows[i])
    BY <1>2, EndsAre
  <2>2. PICK cuts : /\ CutsAreSound(rows, config, cuts, Len(rows))
                    /\ G!Cuts(rows, config) = Append(cuts, end)
    BY <1>2, CutsOfAnExecution
  <2> DEFINE l == Len(cuts)
  <2>3. /\ Len(rows) \in Nat /\ DOMAIN rows = 1..Len(rows)
        /\ first \in Int /\ last \in Int /\ end \in Nat /\ end > last /\ end \in 1..Len(rows)
    BY <2>1, ActivitiesAreTyped
  <2>4. /\ cuts \in Seq(Nat) /\ l >= 1 /\ cuts[1] = first
        /\ \A n \in 1..l : \E r \in G!Bouts(rows, config) : cuts[n] = r[1]
        /\ \A n \in 1..(l - 1) : cuts[n] < cuts[n + 1]
        /\ \A n \in 2..l : Landed(rows, cuts[1], cuts[n])
    BY <2>2, Zenon DEF CutsAreSound
  <2>5. /\ all \in Seq(Nat) /\ Len(all) = l + 1 /\ all[l + 1] = end
        /\ \A n \in 1..l : all[n] = cuts[n]
        /\ l \in Nat /\ \A n \in 1..l : cuts[n] \in Nat
    <3>1. all = Append(cuts, end)
      BY <1>2, <2>2 DEF G!Segment
    <3> HIDE DEF all, end
    <3> QED
      BY <2>3, <2>4, <3>1, OneMoreCut
  <2> HIDE DEF all, end, l, first, last
  <2>6. \A r \in G!Bouts(rows, config) :
            r[1] \in 1..Len(rows) /\ r[2] \in r[1]..Len(rows) /\ r[2] \in 1..Len(rows)
    BY BoutsAre
  <2>7. ASSUME NEW n \in 1..l
        PROVE  all[n] = cuts[n] /\ cuts[n] \in 1..Len(rows) /\ cuts[n] <= last
    <3>1. PICK r \in G!Bouts(rows, config) : cuts[n] = r[1]
      BY <2>4
    <3>2. /\ r[1] \in 1..Len(rows) /\ r[2] \in r[1]..Len(rows) /\ r[2] <= last
      BY <2>1, <2>6
    <3> QED
      BY <2>3, <2>5, <3>1, <3>2
  <2>8. ASSUME NEW n \in 1..l PROVE all[n] < all[n + 1]
    <3>1. CASE n = l
      BY <2>3, <2>5, <2>7, <3>1
    <3>2. CASE n # l
      <4>1. n \in 1..(l - 1) /\ n + 1 \in 1..l
        BY <2>5, <3>2
      <4> QED
        BY <2>4, <2>7, <4>1
    <3> QED
      BY <3>1, <3>2
  <2>9. Len(all) >= 2 /\ DOMAIN all = 1..(l + 1) /\ \A n \in 1..(Len(all) - 1) : n \in 1..l
    BY <2>4, <2>5
  <2>10. G!Tiled(rows, all)
    <3>1. ASSUME NEW n \in 1..(l + 1) PROVE all[n] \in 1..Len(rows)
      <4>1. n \in 1..l \/ n = l + 1
        BY <2>5
      <4> QED
        BY <2>3, <2>5, <2>7, <4>1
    <3> QED
      BY <2>3, <2>8, <2>9, <3>1 DEF G!Tiled
  <2>11. ASSUME NEW r \in G!Bouts(rows, config)
         PROVE  \E n \in 1..(Len(all) - 1) : all[n] <= r[1] /\ r[2] < all[n + 1]
    <3> DEFINE S == {n \in 1..l : all[n] <= r[1]}
    <3>1. /\ r[1] \in 1..Len(rows) /\ r[2] \in 1..Len(rows) /\ first <= r[1] /\ r[2] <= last
      BY <2>1, <2>6
    <3>2. 1 \in S /\ S \in SUBSET Int /\ \A n \in S : n <= l
      BY <2>4, <2>5, <3>1
    <3>3. E!Max(S) \in S /\ \A n \in S : n <= E!Max(S)
      <4> HIDE DEF S
      <4>1. S # {} /\ l \in Int
        BY <2>5, <3>2
      <4> QED
        BY <3>2, <4>1, MaxIs
    <3> DEFINE m == E!Max(S)
    <3>4. m \in 1..l /\ all[m] <= r[1] /\ \A n \in S : n <= m
      BY <3>3
    <3> HIDE DEF m
    <3>5. m \in 1..(Len(all) - 1)
      BY <2>5, <3>4
    <3>6. r[2] < all[m + 1]
      <4>1. CASE m = l
        BY <2>3, <2>5, <3>1, <4>1
      <4>2. CASE m # l
        <5>1. m + 1 \in 1..l /\ ~(m + 1 <= m)
          BY <2>5, <3>4, <4>2
        <5>2. ~(all[m + 1] <= r[1])
          BY <3>4, <5>1
        <5>3. PICK q \in G!Bouts(rows, config) : all[m + 1] = q[1]
          BY <2>4, <2>5, <5>1
        <5>4. r[1] < q[1]
          BY <2>3, <2>6, <3>1, <5>2, <5>3
        <5> QED
          BY <5>3, <5>4, BoutsAre
      <4> QED
        BY <4>1, <4>2
    <3> QED
      BY <3>4, <3>5, <3>6
  <2>12. ASSUME NEW n \in 2..(Len(all) - 1)
         PROVE  ~\E i \in all[1]..(all[n] - 1) :
                    rows[i].event = "lift" /\ \A k \in (i + 1)..(all[n] - 1) : rows[k].event = "none"
    <3>1. n \in 2..l /\ n \in 1..l /\ 1 \in 1..l
      BY <2>4, <2>5
    <3>2. Landed(rows, all[1], all[n])
      BY <2>4, <2>7, <3>1
    <3> QED
      BY <3>2 DEF Landed
  <2>13. \A i \in (last + 1)..G!Last(all) : G!Quiet(rows[i])
    <3>1. G!Last(all) = end
      BY <2>5 DEF G!Last
    <3> QED
      BY <2>1, <3>1
  <2> QED
    BY <2>10, <2>11, <2>12, <2>13, Zenon DEF G!StepsAreWhole, all, last
<1> QED
  BY <1>1, <1>2

-----------------------------------------------------------------------------
(***************************************************************************)
(* The clock of several sources.                                           *)
(***************************************************************************)

LEMMA SameExtremesOfClocks ==
    ASSUME NEW S PROVE Sync!Max(S) = E!Max(S) /\ Sync!Min(S) = E!Min(S)
  BY Zenon DEF Sync!Max, Sync!Min, E!Max, E!Min

ValuesOf(value, some) == {value[x] : x \in some}

\* Of finitely many sources, something is at an end.
LEMMA EndsOfSources ==
    ASSUME NEW n \in Nat, NEW some \in SUBSET (1..n), some # {},
           NEW value, \A i \in some : value[i] \in Int
    PROVE  /\ E!Max(ValuesOf(value, some)) \in ValuesOf(value, some)
           /\ \A v \in ValuesOf(value, some) : v <= E!Max(ValuesOf(value, some))
           /\ E!Min(ValuesOf(value, some)) \in ValuesOf(value, some)
           /\ \A v \in ValuesOf(value, some) : E!Min(ValuesOf(value, some)) <= v
<1> DEFINE S == {value[x] : x \in some}
           given == [i \in 1..n |-> IF i \in some THEN value[i] ELSE 0]
           turned == [i \in 1..n |-> 0 - given[i]]
<1>1. /\ \A i \in 1..n : given[i] \in Int /\ turned[i] \in Int /\ turned[i] = 0 - given[i]
      /\ \A i \in some : given[i] = value[i] /\ i \in 1..n
  OBVIOUS
<1>2. S \in SUBSET Int /\ S # {} /\ 1 \in Nat
  OBVIOUS
<1> HIDE DEF given, turned
<1>3. PICK low \in some : \A j \in some : given[low] <= given[j]
  BY <1>1, <1>2, LowestIs
<1>4. PICK high \in some : \A j \in some : turned[high] <= turned[j]
  BY <1>1, <1>2, LowestIs, ZenonT(30)
<1>5. \A v \in S : value[low] <= v /\ v <= value[high]
  <2> SUFFICES ASSUME NEW j \in some PROVE value[low] <= value[j] /\ value[j] <= value[high]
    OBVIOUS
  <2>1. given[low] <= given[j] /\ turned[high] <= turned[j]
    BY <1>3, <1>4
  <2>2. /\ given[low] = value[low] /\ given[j] = value[j]
        /\ turned[high] = 0 - value[high] /\ turned[j] = 0 - value[j]
    BY <1>1
  <2> QED
    BY <2>1, <2>2
<1>6. value[low] \in Int /\ value[high] \in Int
  OBVIOUS
<1>7. E!Max(S) \in S /\ \A v \in S : v <= E!Max(S)
  <2> HIDE DEF S
  <2> QED
    BY <1>2, <1>5, <1>6, MaxIs
<1>8. E!Min(S) \in S /\ \A v \in S : E!Min(S) <= v
  <2> HIDE DEF S
  <2> QED
    BY <1>2, <1>5, <1>6, MinIs
<1> QED
  BY <1>7, <1>8 DEF ValuesOf

Clocks == UNION {[d -> Int] : d \in SUBSET DOMAIN Recordings}

\* Sources overlap as well when all are moved together.
LEMMA OverlapsMove ==
    ASSUME NEW o \in Clocks, DOMAIN o # {}, NEW ref \in DOMAIN o, Sync!Overlaps(Recordings, o)
    PROVE  Sync!Overlaps(Recordings, Sync!OfReference(o, ref))
<1> DEFINE d == DOMAIN o
           moved == Sync!OfReference(o, ref)
           starts == [x \in d |-> Recordings[x].start + o[x]]
           ends == [x \in d |-> Recordings[x].end + o[x]]
           lateStarts == [x \in d |-> Recordings[x].start + moved[x]]
           lateEnds == [x \in d |-> Recordings[x].end + moved[x]]
<1>1. PICK n \in Nat : DOMAIN Recordings = 1..n /\ n = Len(Recordings)
  BY InputAssumption
<1>2. \A x \in DOMAIN Recordings : Recordings[x].start \in Int /\ Recordings[x].end \in Int
  <2> DEFINE R == [start : Int, end : Int]
  <2>1. \A r \in R : r.start \in Int /\ r.end \in Int
    OBVIOUS
  <2>2. Recordings \in Seq(R)
    BY InputAssumption
  <2> HIDE DEF R
  <2> QED
    BY <2>1, <2>2, ElementsAreTyped
<1>3. d \in SUBSET (1..n) /\ d # {} /\ \A x \in d : o[x] \in Int /\ x \in DOMAIN Recordings
  BY <1>1 DEF Clocks
<1>4. DOMAIN moved = d /\ \A x \in d : moved[x] = o[x] - o[ref]
  BY DEF Sync!OfReference
<1>5. o[ref] \in Int
  BY <1>3
<1> HIDE DEF d, moved
<1>6. /\ \A x \in d : starts[x] \in Int /\ ends[x] \in Int
      /\ \A x \in d : lateStarts[x] \in Int /\ lateEnds[x] \in Int
      /\ \A x \in d : lateStarts[x] = starts[x] - o[ref] /\ lateEnds[x] = ends[x] - o[ref]
  BY <1>2, <1>3, <1>4, <1>5
<1>7. /\ {Recordings[x].start + o[x] : x \in d} = ValuesOf(starts, d)
      /\ {Recordings[x].end + o[x] : x \in d} = ValuesOf(ends, d)
      /\ {Recordings[x].start + moved[x] : x \in d} = ValuesOf(lateStarts, d)
      /\ {Recordings[x].end + moved[x] : x \in d} = ValuesOf(lateEnds, d)
  BY DEF ValuesOf
<1>8. E!Max(ValuesOf(starts, d)) < E!Min(ValuesOf(ends, d))
  BY <1>7, SameExtremesOfClocks DEF Sync!Overlaps, Sync!Common, d
<1> HIDE DEF starts, ends, lateStarts, lateEnds
<1>9. \A x \in d : starts[x] <= E!Max(ValuesOf(starts, d)) /\ E!Max(ValuesOf(starts, d)) \in Int
  <2>1. \A v \in ValuesOf(starts, d) : v <= E!Max(ValuesOf(starts, d))
    BY <1>3, <1>6, EndsOfSources
  <2>2. E!Max(ValuesOf(starts, d)) \in ValuesOf(starts, d)
    BY <1>3, <1>6, EndsOfSources
  <2> QED
    BY <1>6, <2>1, <2>2 DEF ValuesOf
<1>10. \A x \in d : E!Min(ValuesOf(ends, d)) <= ends[x] /\ E!Min(ValuesOf(ends, d)) \in Int
  <2>1. \A v \in ValuesOf(ends, d) : E!Min(ValuesOf(ends, d)) <= v
    BY <1>3, <1>6, EndsOfSources
  <2>2. E!Min(ValuesOf(ends, d)) \in ValuesOf(ends, d)
    BY <1>3, <1>6, EndsOfSources
  <2> QED
    BY <1>6, <2>1, <2>2 DEF ValuesOf
<1>11. PICK a \in d : E!Max(ValuesOf(lateStarts, d)) = lateStarts[a]
  <2>1. E!Max(ValuesOf(lateStarts, d)) \in ValuesOf(lateStarts, d)
    BY <1>3, <1>6, EndsOfSources
  <2> QED
    BY <2>1 DEF ValuesOf
<1>12. PICK b \in d : E!Min(ValuesOf(lateEnds, d)) = lateEnds[b]
  <2>1. E!Min(ValuesOf(lateEnds, d)) \in ValuesOf(lateEnds, d)
    BY <1>3, <1>6, EndsOfSources
  <2> QED
    BY <2>1 DEF ValuesOf
<1>13. lateStarts[a] < lateEnds[b]
  <2>1. starts[a] < ends[b]
    <3> DEFINE x == E!Max(ValuesOf(starts, d))
               y == E!Min(ValuesOf(ends, d))
    <3>1. starts[a] <= x /\ x < y /\ y <= ends[b] /\ x \in Int /\ y \in Int
      BY <1>8, <1>9, <1>10
    <3> HIDE DEF x, y
    <3> QED
      BY <1>6, <3>1
  <2> QED
    BY <1>5, <1>6, <2>1
<1>14. E!Max(ValuesOf(lateStarts, d)) < E!Min(ValuesOf(lateEnds, d))
  BY <1>11, <1>12, <1>13
<1> QED
  BY <1>4, <1>7, <1>14, SameExtremesOfClocks DEF Sync!Overlaps, Sync!Common, moved

LEMMA SolutionsAre ==
    ASSUME NEW subset \in SUBSET DOMAIN Recordings, NEW cues, NEW o \in Sync!Solutions(subset, cues)
    PROVE  o \in [subset -> Int]
<1> DEFINE anchor == Sync!Min(subset)
           others == [subset \ {anchor} -> -Reach..Reach]
           Offsets(f) == [x \in subset |-> IF x = anchor THEN 0 ELSE f[x]]
<1>1. o \in {Offsets(f) : f \in others}
  BY Zenon DEF Sync!Solutions
<1>2. PICK f \in others : o = Offsets(f)
  BY <1>1
<1>3. \A x \in subset : (IF x = anchor THEN 0 ELSE f[x]) \in Int
  BY InputAssumption
<1> QED
  BY <1>2, <1>3

\* An offset that is estimated agrees with the cues, and its sources overlap.
Agreed(o, cues) ==
    /\ o \in Clocks /\ Sync!Cardinality(DOMAIN o) >= 2 /\ DOMAIN o # {}
    /\ \A p \in Sync!Edges(DOMAIN o, cues) : Sync!Tolerated(o, cues, p)
    /\ Sync!Overlaps(Recordings, o)

LEMMA RankedAre ==
    ASSUME NEW cues, NEW o \in Sync!Ranked(Recordings, cues)
    PROVE  Agreed(o, cues)
<1> DEFINE large == {s \in SUBSET DOMAIN Recordings : Sync!Cardinality(s) >= 2}
<1>1. PICK subset \in large :
        /\ o \in Sync!Solutions(subset, cues)
        /\ \A p \in Sync!Edges(subset, cues) : Sync!Tolerated(o, cues, p)
        /\ Sync!Overlaps(Recordings, o)
  BY Zenon DEF Sync!Ranked
<1>2. o \in [subset -> Int]
  BY <1>1, SolutionsAre
<1>3. o \in Clocks /\ DOMAIN o = subset
  BY <1>2 DEF Clocks
<1>4. subset # {}
  <2>1. Sync!Cardinality({}) = 0
    <3>1. Sync!Cardinality({}) = Cardinality({})
      BY Zenon DEF Sync!Cardinality, Cardinality
    <3> QED
      BY <3>1, FS_EmptySet
  <2> QED
    BY <2>1
<1> QED
  BY <1>1, <1>3, <1>4 DEF Agreed

\* Moving all of it changes no residual.
LEMMA ResidualsStay ==
    ASSUME NEW o \in Clocks, NEW ref \in DOMAIN o, NEW cues,
           NEW p, p[1] \in DOMAIN o, p[2] \in DOMAIN o
    PROVE  Sync!Residual(Sync!OfReference(o, ref), cues, p) = Sync!Residual(o, cues, p)
<1>1. \A x \in DOMAIN o : o[x] \in Int
  BY DEF Clocks
<1>2. (o[p[2]] - o[ref]) - (o[p[1]] - o[ref]) = o[p[2]] - o[p[1]]
  BY <1>1
<1> QED
  BY <1>2 DEF Sync!Residual, Sync!OfReference

LEMMA EdgesWithin ==
    ASSUME NEW some, NEW more, some \subseteq more, NEW cues, NEW p \in Sync!Edges(some, cues)
    PROVE  p \in Sync!Edges(more, cues) /\ p[1] \in some /\ p[2] \in some /\ p[1] < p[2]
  BY DEF Sync!Edges

\* Where a timeline comes from: it is estimated, or there are only people's.
LEMMA TimelinesAre ==
    ASSUME NEW pairing \in Pairings,
           NEW t \in Sync!Solve(Recordings, pairing.cues, pairing.reference, pairing.revisions)
    PROVE  /\ pairing.revisions[t.ref] \in {None, 0}
           /\ \/ /\ t.automatic = [x \in {} |-> 0]
                 /\ t.ref \in DOMAIN Recordings
              \/ \E o \in Sync!Ranked(Recordings, pairing.cues) :
                    /\ t.ref \in DOMAIN o /\ t.automatic = Sync!OfReference(o, t.ref)
                    /\ t \in Sync!Automatic(Sync!Ranked(Recordings, pairing.cues),
                                            pairing.cues, pairing.reference)
                    /\ Sync!Ranked(Recordings, pairing.cues) # {}
<1> DEFINE ranked == Sync!Ranked(Recordings, pairing.cues)
           ref(o) == IF pairing.reference = None THEN Sync!Min(DOMAIN o) ELSE pairing.reference
<1>0. /\ pairing.reference \in (DOMAIN Recordings) \cup {None}
      /\ DOMAIN pairing.revisions = DOMAIN Recordings
  BY DEF Pairings
<1>1. /\ pairing.revisions[t.ref] \in {None, 0}
      /\ t \in IF ranked # {} THEN Sync!Automatic(ranked, pairing.cues, pairing.reference)
               ELSE Sync!Manual(Recordings, pairing.reference, pairing.revisions)
  BY Zenon DEF Sync!Solve
<1> HIDE DEF ranked
<1>2. CASE ranked # {}
  <2>1. t \in Sync!Automatic(ranked, pairing.cues, pairing.reference)
    BY <1>1, <1>2
  <2>2. PICK o \in ranked :
          /\ pairing.reference # None => pairing.reference \in DOMAIN o
          /\ t = [ref |-> ref(o), automatic |-> Sync!OfReference(o, ref(o))]
    BY <2>1, Zenon DEF Sync!Automatic
  <2>3. ref(o) \in DOMAIN o
    <3>1. CASE pairing.reference = None
      <4>1. Agreed(o, pairing.cues)
        BY RankedAre DEF ranked
      <4>2. DOMAIN o \in SUBSET (DOMAIN Recordings) /\ DOMAIN o # {}
        BY <4>1 DEF Agreed, Clocks
      <4>3. DOMAIN Recordings = 1..Len(Recordings)
        BY InputAssumption
      <4>4. DOMAIN o \in SUBSET Int /\ \A x \in DOMAIN o : 1 <= x
        BY <4>2, <4>3
      <4>5. 1 \in Int
        OBVIOUS
      <4>6. E!Min(DOMAIN o) \in DOMAIN o
        BY <4>2, <4>4, <4>5, MinIs
      <4> QED
        BY <3>1, <4>6, SameExtremesOfClocks
    <3>2. CASE pairing.reference # None
      BY <2>2, <3>2
    <3> QED
      BY <3>1, <3>2
  <2>4. t.ref = ref(o) /\ t.automatic = Sync!OfReference(o, t.ref)
    BY <2>2
  <2> HIDE DEF ref
  <2> QED
    BY <1>1, <1>2, <2>1, <2>3, <2>4 DEF ranked
<1>3. CASE ranked = {}
  <2>1. t \in Sync!Manual(Recordings, pairing.reference, pairing.revisions)
    BY <1>1, <1>3
  <2> DEFINE unrevised == DOMAIN Recordings \ Sync!Revised(pairing.revisions)
             zero == {x \in DOMAIN Recordings : pairing.revisions[x] = 0}
             refs == IF pairing.reference # None THEN {pairing.reference}
                     ELSE IF unrevised # {} THEN {Sync!Min(unrevised)}
                     ELSE IF zero # {} THEN {Sync!Min(zero)}
                     ELSE {}
  <2>2. PICK r \in refs : t = [ref |-> r, automatic |-> [x \in {} |-> 0]]
    BY <2>1, Zenon DEF Sync!Manual
  <2>3. \A some \in SUBSET DOMAIN Recordings : some # {} => Sync!Min(some) \in DOMAIN Recordings
    <3> SUFFICES ASSUME NEW some \in SUBSET DOMAIN Recordings, some # {}
                 PROVE  Sync!Min(some) \in DOMAIN Recordings
      OBVIOUS
    <3>1. DOMAIN Recordings = 1..Len(Recordings)
      BY InputAssumption
    <3>2. some \in SUBSET Int /\ \A x \in some : 1 <= x
      BY <3>1
    <3>3. 1 \in Int
      OBVIOUS
    <3>4. E!Min(some) \in some
      BY <3>2, <3>3, MinIs
    <3> QED
      BY <3>4, SameExtremesOfClocks
  <2>4. unrevised \in SUBSET DOMAIN Recordings /\ zero \in SUBSET DOMAIN Recordings
    OBVIOUS
  <2> HIDE DEF unrevised, zero
  <2>5. r \in DOMAIN Recordings
    BY <1>0, <2>3, <2>4
  <2>6. t.ref = r /\ t.automatic = [x \in {} |-> 0]
    BY <2>2
  <2> QED
    BY <1>1, <2>5, <2>6
<1> QED
  BY <1>2, <1>3

LEMMA EffectiveIs ==
    ASSUME NEW pairing \in Pairings, NEW t, t.ref \in DOMAIN Recordings,
           DOMAIN t.automatic \subseteq DOMAIN Recordings
    PROVE  LET offsets == Sync!Effective(t, pairing.revisions)
               revised == Sync!Revised(pairing.revisions)
           IN /\ DOMAIN offsets = DOMAIN t.automatic \cup revised \cup {t.ref}
              /\ \A x \in DOMAIN offsets \ revised :
                    offsets[x] = IF x \in DOMAIN t.automatic THEN t.automatic[x] ELSE 0
              /\ pairing.revisions[t.ref] = 0 => offsets[t.ref] = 0
              /\ t.ref \in revised => pairing.revisions[t.ref] # None
<1> DEFINE revised == Sync!Revised(pairing.revisions)
           offsets == Sync!Effective(t, pairing.revisions)
           Value(x) == IF pairing.revisions[x] # None THEN pairing.revisions[x]
                       ELSE IF x \in DOMAIN t.automatic THEN t.automatic[x] ELSE 0
<1>1. offsets = [x \in DOMAIN t.automatic \cup revised \cup {t.ref} |-> Value(x)]
  BY Zenon DEF Sync!Effective
<1>2. /\ revised \subseteq DOMAIN Recordings
      /\ \A x \in DOMAIN Recordings : x \in revised <=> pairing.revisions[x] # None
  BY DEF Sync!Revised, Pairings
<1> HIDE DEF revised, offsets
<1>3. DOMAIN offsets = DOMAIN t.automatic \cup revised \cup {t.ref}
  BY <1>1
<1>4. \A x \in DOMAIN offsets : offsets[x] = Value(x) /\ x \in DOMAIN Recordings
  BY <1>1, <1>2, <1>3
<1>5. \A x \in DOMAIN offsets \ revised :
          offsets[x] = IF x \in DOMAIN t.automatic THEN t.automatic[x] ELSE 0
  BY <1>2, <1>4
<1>6. pairing.revisions[t.ref] = 0 => offsets[t.ref] = 0
  <2>1. 0 # None
    BY InputAssumption
  <2> QED
    BY <1>3, <1>4, <2>1
<1> QED
  BY <1>2, <1>3, <1>5, <1>6 DEF revised, offsets

LEMMA TimelineIsOne ==
    ASSUME NEW pairing \in Pairings
    PROVE  Sync!OneTimeline(Recordings, pairing.cues, pairing.reference, pairing.revisions)
<1> DEFINE cues == pairing.cues
           reference == pairing.reference
           revisions == pairing.revisions
           unrevised == [x \in DOMAIN Recordings |-> None]
           ranked == Sync!Ranked(Recordings, cues)
           revised == Sync!Revised(revisions)
           Same(t, offsets) ==
               DOMAIN t.automatic # {} => \E u \in Sync!Solve(Recordings, cues, reference, unrevised) :
                   \A x \in DOMAIN offsets \ revised : x \in DOMAIN u.automatic /\ u.automatic[x] = offsets[x]
<1>1. ASSUME NEW t \in Sync!Solve(Recordings, cues, reference, revisions)
      PROVE  LET offsets == Sync!Effective(t, revisions) IN
             /\ offsets[t.ref] = 0
             /\ \A p \in Sync!Edges(DOMAIN offsets \ revised, cues) :
                    Sync!Abs(Sync!Residual(offsets, cues, p)) <= 2 * CueStep
             /\ Same(t, offsets)
  <2> DEFINE offsets == Sync!Effective(t, revisions)
             free == DOMAIN offsets \ revised
  <2>1. revisions[t.ref] \in {None, 0}
    BY TimelinesAre
  <2>2. CASE t.automatic = [x \in {} |-> 0] /\ t.ref \in DOMAIN Recordings
    <3>1. DOMAIN t.automatic = {}
      BY <2>2
    <3>2. /\ DOMAIN offsets = revised \cup {t.ref}
          /\ \A x \in free : offsets[x] = 0
          /\ revisions[t.ref] = 0 => offsets[t.ref] = 0
          /\ t.ref \in revised => revisions[t.ref] # None
      BY <2>2, <3>1, EffectiveIs, ZenonT(30)
    <3> HIDE DEF offsets, revised
    <3>3. offsets[t.ref] = 0
      BY <2>1, <3>2
    <3>4. ASSUME NEW p \in Sync!Edges(free, cues) PROVE FALSE
      <4>1. p[1] = t.ref /\ p[2] = t.ref /\ p[1] < p[2]
        BY <3>2, EdgesWithin
      <4>2. t.ref \in Int
        BY <2>2, InputAssumption
      <4> QED
        BY <4>1, <4>2
    <3> QED
      BY <3>1, <3>3, <3>4 DEF offsets
  <2>3. ASSUME NEW o \in ranked, t.ref \in DOMAIN o, t.automatic = Sync!OfReference(o, t.ref),
               t \in Sync!Automatic(ranked, cues, reference), ranked # {}
        PROVE  LET given == Sync!Effective(t, revisions) IN
               /\ given[t.ref] = 0
               /\ \A p \in Sync!Edges(DOMAIN given \ revised, cues) :
                      Sync!Abs(Sync!Residual(given, cues, p)) <= 2 * CueStep
               /\ Same(t, given)
    <3>1. Agreed(o, cues) /\ o \in Clocks /\ DOMAIN o \subseteq DOMAIN Recordings
      <4>1. Agreed(o, cues)
        BY RankedAre
      <4> QED
        BY <4>1 DEF Agreed, Clocks
    <3>2. /\ DOMAIN t.automatic = DOMAIN o /\ t.ref \in DOMAIN Recordings
          /\ \A x \in DOMAIN o : t.automatic[x] = o[x] - o[t.ref] /\ o[x] \in Int
      BY <2>3, <3>1 DEF Sync!OfReference, Clocks
    <3>3. /\ DOMAIN offsets = DOMAIN o \cup revised \cup {t.ref}
          /\ \A x \in free : offsets[x] = IF x \in DOMAIN o THEN t.automatic[x] ELSE 0
          /\ revisions[t.ref] = 0 => offsets[t.ref] = 0
          /\ t.ref \in revised => revisions[t.ref] # None
      BY <3>1, <3>2, EffectiveIs
    <3> HIDE DEF offsets, revised, ranked
    <3>4. \A x \in free : x \in DOMAIN o /\ offsets[x] = t.automatic[x]
      BY <2>3, <3>3
    <3>5. offsets[t.ref] = 0
      <4>1. CASE revisions[t.ref] = 0
        BY <3>3, <4>1
      <4>2. CASE revisions[t.ref] = None
        <5>1. t.ref \in free
          BY <3>3, <4>2
        <5>2. offsets[t.ref] = o[t.ref] - o[t.ref] /\ o[t.ref] \in Int
          BY <2>3, <3>2, <3>4, <5>1
        <5> QED
          BY <5>2
      <4> QED
        BY <2>1, <4>1, <4>2
    <3>6. ASSUME NEW p \in Sync!Edges(free, cues)
          PROVE  Sync!Abs(Sync!Residual(offsets, cues, p)) <= 2 * CueStep
      <4>1. free \subseteq DOMAIN o
        BY <3>4
      <4>2. p[1] \in free /\ p[2] \in free /\ p \in Sync!Edges(DOMAIN o, cues)
        BY <4>1, EdgesWithin
      <4>3. Sync!Tolerated(o, cues, p)
        BY <3>1, <4>2 DEF Agreed
      <4>4. Sync!Residual(t.automatic, cues, p) = Sync!Residual(o, cues, p)
        BY <2>3, <3>1, <4>1, <4>2, ResidualsStay
      <4>5. Sync!Residual(offsets, cues, p) = Sync!Residual(t.automatic, cues, p)
        BY <3>4, <4>2 DEF Sync!Residual
      <4> QED
        BY <4>3, <4>4, <4>5 DEF Sync!Tolerated
    <3>7. Same(t, offsets)
      <4> DEFINE again == Sync!Effective(t, unrevised)
                 other == [pairing EXCEPT !.revisions = unrevised]
      <4>1. other \in Pairings /\ other.revisions = unrevised
        BY DEF Pairings
      <4>2. Sync!Revised(unrevised) = {}
        BY DEF Sync!Revised
      <4>3. /\ DOMAIN again = DOMAIN o
            /\ \A x \in DOMAIN o : again[x] = t.automatic[x]
        <5>1. /\ DOMAIN Sync!Effective(t, other.revisions) =
                    DOMAIN t.automatic \cup Sync!Revised(other.revisions) \cup {t.ref}
              /\ \A x \in DOMAIN Sync!Effective(t, other.revisions) \ Sync!Revised(other.revisions) :
                    Sync!Effective(t, other.revisions)[x] =
                        IF x \in DOMAIN t.automatic THEN t.automatic[x] ELSE 0
          <6> HIDE DEF other
          <6> QED
            BY <3>1, <3>2, <4>1, EffectiveIs
        <5> HIDE DEF other, unrevised
        <5> QED
          BY <2>3, <3>2, <4>1, <4>2, <5>1
      <4>4. again = t.automatic
        <5> DEFINE Value(x) == IF unrevised[x] # None THEN unrevised[x]
                               ELSE IF x \in DOMAIN t.automatic THEN t.automatic[x] ELSE 0
                   D == DOMAIN t.automatic \cup Sync!Revised(unrevised) \cup {t.ref}
        <5>3. again = [x \in D |-> Value(x)]
          BY Zenon DEF Sync!Effective
        <5>1. again = [x \in DOMAIN again |-> again[x]]
          <6> HIDE DEF again, D, Value
          <6> QED
            BY <5>3
        <5>2. t.automatic = [x \in DOMAIN o |-> t.automatic[x]]
          BY <2>3, <3>2 DEF Sync!OfReference
        <5> HIDE DEF again, D, Value
        <5> QED
          BY <4>3, <5>1, <5>2
      <4>5. Sync!Overlaps(Recordings, t.automatic)
        BY <2>3, <3>1, OverlapsMove DEF Agreed
      <4>6. unrevised[t.ref] \in {None, 0} /\ Sync!Cardinality(DOMAIN again) >= 2
        BY <3>1, <3>2, <4>3 DEF Agreed
      <4>7. t \in Sync!Solve(Recordings, cues, reference, unrevised)
        <5>1. Sync!Overlaps(Recordings, again)
          BY <4>4, <4>5
        <5> QED
          BY <2>3, <4>6, <5>1, Zenon DEF Sync!Solve, ranked
      <4>8. \A x \in free : x \in DOMAIN t.automatic /\ t.automatic[x] = offsets[x]
        BY <3>2, <3>4
      <4> QED
        BY <4>7, <4>8
    <3> QED
      BY <3>5, <3>6, <3>7 DEF offsets
  <2>4. \/ t.automatic = [x \in {} |-> 0] /\ t.ref \in DOMAIN Recordings
        \/ \E o \in ranked : /\ t.ref \in DOMAIN o /\ t.automatic = Sync!OfReference(o, t.ref)
                             /\ t \in Sync!Automatic(ranked, cues, reference) /\ ranked # {}
    BY TimelinesAre
  <2> QED
    BY <2>2, <2>3, <2>4
<1> QED
  BY <1>1, Zenon DEF Sync!OneTimeline

-----------------------------------------------------------------------------
(***************************************************************************)
(* The arms.                                                               *)
(***************************************************************************)

ArmSpans == [arm : Upper!Arm, first : Nat, last : Nat]

Watches == [start : Nat, last : Nat, quiet : Nat, spans : SUBSET ArmSpans]

LEMMA GesturesAreTyped ==
    ASSUME NEW rows \in Gestures
    PROVE  /\ Len(rows) \in Nat /\ DOMAIN rows = 1..Len(rows)
           /\ \A i \in 1..Len(rows) : rows[i].t \in Int
           /\ \A i \in 1..Len(rows), arm \in Upper!Arm :
                rows[i].state[arm] \in {"moves", "quiet", "unknown"}
           /\ \A i, j \in 1..Len(rows) : i <= j => rows[i].t <= rows[j].t
<1> DEFINE R == [t : Int, state : [Upper!Arm -> {"moves", "quiet", "unknown"}],
                 reach : [Upper!Arm -> Int \cup {None}],
                 extension : [Upper!Arm -> Int \cup {None}]]
<1>1. rows \in Seq(R) /\ InOrder(rows)
  BY DEF Gestures
<1>2. \A r \in R : r.t \in Int /\ \A arm \in Upper!Arm : r.state[arm] \in {"moves", "quiet", "unknown"}
  OBVIOUS
<1> HIDE DEF R
<1>3. Len(rows) \in Nat /\ DOMAIN rows = 1..Len(rows) /\ \A i \in DOMAIN rows : rows[i] \in R
  BY <1>1, ElementsAreTyped
<1>4. /\ \A i \in 1..Len(rows) : rows[i].t \in Int
      /\ \A i \in 1..Len(rows), arm \in Upper!Arm :
            rows[i].state[arm] \in {"moves", "quiet", "unknown"}
  BY <1>2, <1>3
<1> QED
  BY <1>1, <1>3, <1>4, TimesGrow

LEMMA FinishedIs ==
    ASSUME NEW rows, NEW arm \in Upper!Arm, NEW config, NEW s \in Watches
    PROVE  LET f == Upper!Finished(rows, arm, config, s) IN
           /\ f \in Watches /\ f.start = 0 /\ f.last = 0 /\ f.quiet = 0
           /\ \/ f.spans = s.spans
              \/ s.start # 0 /\ f.spans = s.spans \cup {Upper!Span(arm, s.start, s.last)}
<1> DEFINE spans == IF s.start # 0 /\ rows[s.last].t - rows[s.start].t >= config.activity
                    THEN s.spans \cup {Upper!Span(arm, s.start, s.last)} ELSE s.spans
<1>1. Upper!Finished(rows, arm, config, s) = [Upper!NoSpan EXCEPT !.spans = spans]
  BY DEF Upper!Finished
<1>2. Upper!Span(arm, s.start, s.last) \in ArmSpans
  BY DEF Upper!Span, ArmSpans, Watches
<1>3. s.spans \in SUBSET ArmSpans
  BY DEF Watches
<1>4. \/ spans = s.spans
      \/ s.start # 0 /\ spans = s.spans \cup {Upper!Span(arm, s.start, s.last)}
  OBVIOUS
<1> HIDE DEF spans
<1>5. spans \in SUBSET ArmSpans
  BY <1>2, <1>3, <1>4
<1>6. Upper!Finished(rows, arm, config, s) = [start |-> 0, last |-> 0, quiet |-> 0, spans |-> spans]
  BY <1>1 DEF Upper!NoSpan
<1> QED
  BY <1>4, <1>5, <1>6 DEF Watches

\* What a sample changes, by what the arm does in it.
LEMMA SensedIs ==
    ASSUME NEW rows, NEW arm \in Upper!Arm, NEW config, NEW i \in Nat \ {0}, NEW before \in Watches
    PROVE  LET s == IF Upper!Breaks(rows, i, arm, config)
                    THEN Upper!Finished(rows, arm, config, before) ELSE before
               quiet == IF s.quiet = 0 THEN i ELSE s.quiet
               now == Upper!Sensed(rows, arm, config, i, before)
           IN /\ s \in Watches /\ now \in Watches
              /\ rows[i].state[arm] = "moves" =>
                    /\ now.start = IF s.start = 0 THEN i ELSE s.start
                    /\ now.last = i /\ now.quiet = 0 /\ now.spans = s.spans
              /\ rows[i].state[arm] # "moves" /\ (rows[i].state[arm] = "unknown" \/ s.start = 0)
                    => now = s
              /\ rows[i].state[arm] \notin {"moves", "unknown"} /\ s.start # 0 =>
                    IF rows[i].t - rows[quiet].t >= config.quiet
                    THEN now = Upper!Finished(rows, arm, config, s)
                    ELSE /\ now.start = s.start /\ now.last = s.last
                         /\ now.quiet = quiet /\ now.spans = s.spans
<1> DEFINE s == IF Upper!Breaks(rows, i, arm, config)
                THEN Upper!Finished(rows, arm, config, before) ELSE before
           quiet == IF s.quiet = 0 THEN i ELSE s.quiet
           state == rows[i].state[arm]
           now == Upper!Sensed(rows, arm, config, i, before)
<1>1. now = IF state = "moves"
            THEN [s EXCEPT !.start = IF @ = 0 THEN i ELSE @, !.last = i, !.quiet = 0]
            ELSE IF state = "unknown" \/ s.start = 0 THEN s
            ELSE IF rows[i].t - rows[quiet].t >= config.quiet
                 THEN Upper!Finished(rows, arm, config, s)
            ELSE [s EXCEPT !.quiet = quiet]
  BY Zenon DEF Upper!Sensed
<1>2. s \in Watches
  BY FinishedIs
<1>3. quiet \in Nat
  <2> HIDE DEF s
  <2> QED
    BY <1>2 DEF Watches
<1>4. Upper!Finished(rows, arm, config, s) \in Watches
  <2> HIDE DEF s
  <2> QED
    BY <1>2, FinishedIs
<1> DEFINE moved == [s EXCEPT !.start = IF @ = 0 THEN i ELSE @, !.last = i, !.quiet = 0]
           rested == [s EXCEPT !.quiet = quiet]
<1>5. /\ moved \in Watches /\ moved.start = (IF s.start = 0 THEN i ELSE s.start)
      /\ moved.last = i /\ moved.quiet = 0 /\ moved.spans = s.spans
  <2> HIDE DEF s
  <2> QED
    BY <1>2 DEF Watches
<1>6. /\ rested \in Watches /\ rested.start = s.start /\ rested.last = s.last
      /\ rested.quiet = quiet /\ rested.spans = s.spans
  <2> HIDE DEF s, quiet
  <2> QED
    BY <1>2, <1>3 DEF Watches
<1>7. /\ state = "moves" => now = moved
      /\ state # "moves" /\ (state = "unknown" \/ s.start = 0) => now = s
      /\ state \notin {"moves", "unknown"} /\ s.start # 0 =>
            now = IF rows[i].t - rows[quiet].t >= config.quiet
                  THEN Upper!Finished(rows, arm, config, s) ELSE rested
  <2> HIDE DEF s, quiet, state, now
  <2> QED
    BY <1>1
<1>8. now \in Watches
  <2> HIDE DEF s, quiet, now, moved, rested
  <2> QED
    BY <1>2, <1>4, <1>5, <1>6, <1>7
<1> HIDE DEF s, quiet, now, moved, rested
<1>9. /\ s \in Watches /\ now \in Watches
      /\ state = "moves" =>
            /\ now.start = IF s.start = 0 THEN i ELSE s.start
            /\ now.last = i /\ now.quiet = 0 /\ now.spans = s.spans
      /\ state # "moves" /\ (state = "unknown" \/ s.start = 0) => now = s
      /\ state \notin {"moves", "unknown"} /\ s.start # 0 =>
            IF rows[i].t - rows[quiet].t >= config.quiet
            THEN now = Upper!Finished(rows, arm, config, s)
            ELSE /\ now.start = s.start /\ now.last = s.last
                 /\ now.quiet = quiet /\ now.spans = s.spans
  BY <1>2, <1>5, <1>6, <1>7, <1>8
<1> QED
  BY <1>9, Zenon DEF s, quiet, now

\* Between two spans the arm was unknown, out of sight or at rest.
Parted(rows, arm, config, a, b) ==
    \E i \in a + 1 .. b :
        \/ rows[i].state[arm] = "unknown" \/ rows[i].t - rows[i - 1].t > config.gap
        \/ \E j \in a + 1 .. i : rows[i].t - rows[j].t >= config.quiet

SpanIsSound(rows, arm, config, a, b) ==
    /\ a \in 1..Len(rows) /\ b \in a..Len(rows)
    /\ rows[a].state[arm] = "moves" /\ rows[b].state[arm] = "moves"
    /\ \A i \in a..b : rows[i].state[arm] # "unknown"
    /\ \A i \in a + 1 .. b : rows[i].t - rows[i - 1].t <= config.gap
    /\ \A i, j \in a..b : i <= j /\ (\A n \in i..j : rows[n].state[arm] = "quiet") =>
            rows[j].t - rows[i].t < config.quiet

SpansAreSound(rows, arm, config, spans) ==
    /\ \A u \in spans : u.arm = arm /\ SpanIsSound(rows, arm, config, u.first, u.last)
    /\ \A u, v \in spans : u # v /\ u.first <= v.first =>
            Parted(rows, arm, config, u.last, v.first)

\* The open span has been in sight since it began, and at rest since its last
\* motion, but not for long.
WatchIsSound(rows, arm, config, s, i) ==
    /\ s.start = 0 => s.quiet = 0
    /\ s.start # 0 =>
        /\ SpanIsSound(rows, arm, config, s.start, s.last) /\ s.last <= i
        /\ \A j \in s.last + 1 .. i :
            rows[j].state[arm] = "quiet" /\ rows[j].t - rows[j - 1].t <= config.gap
        /\ s.quiet = IF s.last = i THEN 0 ELSE s.last + 1
        /\ s.quiet # 0 => rows[i].t - rows[s.quiet].t < config.quiet
    /\ SpansAreSound(rows, arm, config, s.spans)
    /\ \A u \in s.spans :
        Parted(rows, arm, config, u.last, IF s.start # 0 THEN s.start ELSE i)

LEMMA PartedGrows ==
    ASSUME NEW rows, NEW arm, NEW config, NEW a \in Int, NEW b \in Int, NEW c \in Int,
           Parted(rows, arm, config, a, b), b <= c
    PROVE  Parted(rows, arm, config, a, c)
<1>1. \A i \in a + 1 .. b : i \in a + 1 .. c
  OBVIOUS
<1> QED
  BY <1>1 DEF Parted

\* A span that ends, and the next can only begin later.
LEMMA FinishedSpans ==
    ASSUME NEW rows \in Gestures, NEW arm \in Upper!Arm, NEW config, NEW s \in Watches,
           NEW i \in 0..Len(rows), WatchIsSound(rows, arm, config, s, i)
    PROVE  SpansAreSound(rows, arm, config, Upper!Finished(rows, arm, config, s).spans)
<1> DEFINE after == Upper!Finished(rows, arm, config, s).spans
           new == Upper!Span(arm, s.start, s.last)
<1>1. /\ SpansAreSound(rows, arm, config, s.spans)
      /\ s.start # 0 => SpanIsSound(rows, arm, config, s.start, s.last)
      /\ s.start # 0 => \A u \in s.spans : Parted(rows, arm, config, u.last, s.start)
  BY DEF WatchIsSound
<1>2. after = s.spans \/ (s.start # 0 /\ after = s.spans \cup {new})
  BY FinishedIs
<1>3. new.arm = arm /\ new.first = s.start /\ new.last = s.last
  BY DEF Upper!Span
<1>4. s.start \in Nat /\ \A u \in s.spans : u.first \in Nat /\ u.last \in Nat
  BY DEF Watches, ArmSpans
<1> HIDE DEF after, new
<1>5. CASE s.start # 0 /\ after = s.spans \cup {new}
  <2>1. ASSUME NEW u \in after PROVE u.arm = arm /\ SpanIsSound(rows, arm, config, u.first, u.last)
    BY <1>1, <1>3, <1>5 DEF SpansAreSound
  <2>2. ASSUME NEW u \in after, NEW v \in after, u # v, u.first <= v.first
        PROVE  Parted(rows, arm, config, u.last, v.first)
    <3>1. CASE u \in s.spans /\ v \in s.spans
      BY <1>1, <2>2, <3>1 DEF SpansAreSound
    <3>2. CASE u \in s.spans /\ v = new
      BY <1>1, <1>3, <1>5, <3>2
    <3>3. CASE u = new /\ v \in s.spans
      <4>1. v.first <= v.last /\ Parted(rows, arm, config, v.last, s.start)
        <5>1. SpanIsSound(rows, arm, config, v.first, v.last)
          BY <1>1, <3>3 DEF SpansAreSound
        <5>2. Len(rows) \in Nat
          BY GesturesAreTyped
        <5>3. v.first <= v.last
          BY <5>1, <5>2 DEF SpanIsSound
        <5> QED
          BY <1>1, <1>5, <3>3, <5>3
      <4>2. v.last < s.start
        BY <1>4, <3>3, <4>1 DEF Parted
      <4>3. s.start <= v.first
        BY <1>3, <2>2, <3>3
      <4> QED
        BY <1>4, <3>3, <4>1, <4>2, <4>3
    <3> QED
      BY <1>5, <2>2, <3>1, <3>2, <3>3
  <2>3. SpansAreSound(rows, arm, config, after)
    BY <2>1, <2>2 DEF SpansAreSound
  <2> QED
    BY <2>3 DEF after
<1> QED
  BY <1>1, <1>2, <1>5 DEF after

LEMMA FinishedKeeps ==
    ASSUME NEW rows \in Gestures, NEW arm \in Upper!Arm, NEW config, NEW s \in Watches,
           NEW k \in 0..Len(rows), NEW i \in 0..Len(rows), k <= i,
           WatchIsSound(rows, arm, config, s, k),
           s.start # 0 => Parted(rows, arm, config, s.last, i)
    PROVE  WatchIsSound(rows, arm, config, Upper!Finished(rows, arm, config, s), i)
<1> DEFINE f == Upper!Finished(rows, arm, config, s)
           new == Upper!Span(arm, s.start, s.last)
<1>1. SpansAreSound(rows, arm, config, f.spans)
  BY FinishedSpans
<1>2. /\ f.start = 0 /\ f.quiet = 0
      /\ f.spans = s.spans \/ (s.start # 0 /\ f.spans = s.spans \cup {new})
  BY FinishedIs
<1>3. new.last = s.last
  BY DEF Upper!Span
<1>4. s.start \in Nat /\ s.last \in Nat /\ Len(rows) \in Nat /\ \A u \in s.spans : u.last \in Nat
  BY GesturesAreTyped DEF Watches, ArmSpans
<1>5. s.start # 0 => s.start <= k
  <2>1. s.start # 0 => SpanIsSound(rows, arm, config, s.start, s.last) /\ s.last <= k
    BY DEF WatchIsSound
  <2>2. s.start # 0 => s.start <= s.last
    BY <1>4, <2>1 DEF SpanIsSound
  <2> QED
    BY <1>4, <2>1, <2>2
<1>6. ASSUME NEW u \in s.spans PROVE Parted(rows, arm, config, u.last, i)
  <2> DEFINE b == IF s.start # 0 THEN s.start ELSE k
  <2>1. Parted(rows, arm, config, u.last, b)
    BY DEF WatchIsSound
  <2>2. b \in Int /\ b <= i /\ u.last \in Int /\ i \in Int
    BY <1>4, <1>5
  <2> HIDE DEF b
  <2> QED
    BY <2>1, <2>2, PartedGrows
<1> HIDE DEF f, new
<1>7. \A u \in f.spans : Parted(rows, arm, config, u.last, i)
  BY <1>2, <1>3, <1>6
<1> QED
  BY <1>1, <1>2, <1>7 DEF WatchIsSound, f

LEMMA SensedKeeps ==
    ASSUME NEW rows \in Gestures, NEW arm \in Upper!Arm, NEW config \in GestureConfigs,
           NEW before \in Watches,
           NEW i \in 1..Len(rows), WatchIsSound(rows, arm, config, before, i - 1)
    PROVE  WatchIsSound(rows, arm, config, Upper!Sensed(rows, arm, config, i, before), i)
<1> DEFINE s == IF Upper!Breaks(rows, i, arm, config)
                THEN Upper!Finished(rows, arm, config, before) ELSE before
           quiet == IF s.quiet = 0 THEN i ELSE s.quiet
           state == rows[i].state[arm]
           now == Upper!Sensed(rows, arm, config, i, before)
           Sound(x, k) == WatchIsSound(rows, arm, config, x, k)
           Apart(a, b) == Parted(rows, arm, config, a, b)
<1>1. /\ Len(rows) \in Nat /\ i \in Nat /\ i - 1 \in 0..Len(rows) /\ i \in 0..Len(rows)
      /\ state \in {"moves", "quiet", "unknown"}
      /\ \A j \in 1..Len(rows) : rows[j].t \in Int
      /\ \A j, k \in 1..Len(rows) : j <= k => rows[j].t <= rows[k].t
  BY GesturesAreTyped
<1>2. /\ s \in Watches /\ now \in Watches
      /\ state = "moves" =>
            /\ now.start = IF s.start = 0 THEN i ELSE s.start
            /\ now.last = i /\ now.quiet = 0 /\ now.spans = s.spans
      /\ state # "moves" /\ (state = "unknown" \/ s.start = 0) => now = s
      /\ state \notin {"moves", "unknown"} /\ s.start # 0 =>
            IF rows[i].t - rows[quiet].t >= config.quiet
            THEN now = Upper!Finished(rows, arm, config, s)
            ELSE /\ now.start = s.start /\ now.last = s.last
                 /\ now.quiet = quiet /\ now.spans = s.spans
  <2>1. i \in Nat \ {0}
    BY <1>1
  <2> QED
    BY <2>1, SensedIs, SMTT(30)
<1>3. /\ s.start \in Nat /\ s.last \in Nat /\ s.quiet \in Nat
      /\ \A u \in s.spans : u.first \in Nat /\ u.last \in Nat
  <2> HIDE DEF s
  <2> QED
    BY <1>2 DEF Watches, ArmSpans
\* A span that was open is broken off; either way the row goes on from there.
<1>4. /\ Upper!Breaks(rows, i, arm, config) => Sound(s, i) /\ s.start = 0
      /\ ~Upper!Breaks(rows, i, arm, config) =>
            /\ Sound(s, i - 1) /\ state # "unknown"
            /\ i > 1 => rows[i].t - rows[i - 1].t <= config.gap
  <2>1. CASE Upper!Breaks(rows, i, arm, config)
    <3>1. s = Upper!Finished(rows, arm, config, before)
      BY <2>1
    <3>2. before.start # 0 => Apart(before.last, i)
      <4>1. before.last \in Nat
        BY DEF Watches
      <4>2. before.start # 0 => before.last <= i - 1 /\ before.last >= 1
        <5>1. before.start # 0 => SpanIsSound(rows, arm, config, before.start, before.last) /\ before.last <= i - 1
          BY DEF WatchIsSound
        <5>2. before.start # 0 => before.start \in 1..Len(rows) /\ before.last \in before.start..Len(rows)
          BY <5>1 DEF SpanIsSound
        <5> QED
          BY <1>1, <4>1, <5>1, <5>2
      <4>3. \/ state = "unknown"
            \/ i > 1 /\ rows[i].t - rows[i - 1].t > config.gap
        BY <2>1 DEF Upper!Breaks
      <4>4. before.start # 0 => i \in before.last + 1 .. i
        BY <1>1, <4>1, <4>2
      <4> QED
        BY <4>3, <4>4 DEF Parted
    <3>3. i - 1 <= i
      BY <1>1
    <3>4. Sound(Upper!Finished(rows, arm, config, before), i)
      BY <1>1, <3>2, <3>3, FinishedKeeps
    <3>5. Upper!Finished(rows, arm, config, before).start = 0
      BY DEF Upper!Finished, Upper!NoSpan
    <3> HIDE DEF s
    <3> QED
      BY <2>1, <3>1, <3>4, <3>5
  <2>2. CASE ~Upper!Breaks(rows, i, arm, config)
    <3>1. s = before
      BY <2>2
    <3>2. state # "unknown" /\ (i > 1 => ~(rows[i].t - rows[i - 1].t > config.gap))
      BY <2>2 DEF Upper!Breaks
    <3>3. i > 1 => rows[i].t \in Int /\ rows[i - 1].t \in Int
      BY <1>1
    <3>4. config.gap \in Int
      BY DEF GestureConfigs
    <3>5. i > 1 => rows[i].t - rows[i - 1].t <= config.gap
      BY <3>2, <3>3, <3>4
    <3> HIDE DEF s
    <3> QED
      BY <2>2, <3>1, <3>2, <3>5
  <2> QED
    BY <2>1, <2>2
<1> HIDE DEF s, now, quiet
<1>5. SpansAreSound(rows, arm, config, s.spans)
  BY <1>4 DEF WatchIsSound
<1>6. s.start = 0 => s.quiet = 0 /\ \A u \in s.spans : Apart(u.last, i)
  <2>1. CASE Sound(s, i)
    BY <2>1 DEF WatchIsSound
  <2>2. CASE Sound(s, i - 1)
    <3>1. s.start = 0 => s.quiet = 0 /\ \A u \in s.spans : Apart(u.last, i - 1)
      BY <2>2 DEF WatchIsSound
    <3>2. \A u \in s.spans : Apart(u.last, i - 1) => Apart(u.last, i)
      <4>1. i - 1 \in Int /\ i \in Int /\ i - 1 <= i /\ \A u \in s.spans : u.last \in Int
        BY <1>1, <1>3
      <4> QED
        BY <4>1, PartedGrows
    <3> QED
      BY <3>1, <3>2
  <2> QED
    BY <1>4, <2>1, <2>2
<1>7. ASSUME s.start # 0
      PROVE  /\ SpanIsSound(rows, arm, config, s.start, s.last) /\ s.last <= i - 1
             /\ state # "unknown" /\ rows[i].t - rows[i - 1].t <= config.gap
             /\ \A j \in s.last + 1 .. i - 1 :
                    rows[j].state[arm] = "quiet" /\ rows[j].t - rows[j - 1].t <= config.gap
             /\ s.quiet = IF s.last = i - 1 THEN 0 ELSE s.last + 1
             /\ s.quiet # 0 => rows[i - 1].t - rows[s.quiet].t < config.quiet
             /\ \A u \in s.spans : Apart(u.last, s.start)
             /\ 1 <= s.start /\ s.start <= s.last /\ s.last < i
             /\ quiet = s.last + 1
             /\ Sound(s, i - 1)
  <2>1. /\ Sound(s, i - 1) /\ state # "unknown"
        /\ i > 1 => rows[i].t - rows[i - 1].t <= config.gap
    BY <1>4, <1>7
  <2>2. /\ SpanIsSound(rows, arm, config, s.start, s.last) /\ s.last <= i - 1
        /\ \A j \in s.last + 1 .. i - 1 :
                rows[j].state[arm] = "quiet" /\ rows[j].t - rows[j - 1].t <= config.gap
        /\ s.quiet = IF s.last = i - 1 THEN 0 ELSE s.last + 1
        /\ s.quiet # 0 => rows[i - 1].t - rows[s.quiet].t < config.quiet
        /\ \A u \in s.spans : Apart(u.last, s.start)
    BY <1>7, <2>1 DEF WatchIsSound
  <2>3. s.start \in 1..Len(rows) /\ s.last \in s.start..Len(rows)
    BY <2>2 DEF SpanIsSound
  <2>4. 1 <= s.start /\ s.start <= s.last /\ s.last < i /\ i > 1
    BY <1>1, <1>3, <2>2, <2>3
  <2>5. quiet = s.last + 1
    BY <1>1, <1>3, <2>2 DEF quiet
  <2> QED
    BY <2>1, <2>2, <2>4, <2>5
<1>8. CASE state = "moves"
  <2>1. now.start # 0 /\ now.last = i /\ now.quiet = 0 /\ now.spans = s.spans
    BY <1>1, <1>2, <1>8
  <2>2. SpanIsSound(rows, arm, config, now.start, i)
    <3>1. CASE s.start = 0
      <4>1. now.start = i
        BY <1>2, <1>8, <3>1
      <4>2. i \in i..Len(rows) /\ (\A j \in i..i : j = i) /\ (\A j \in i + 1 .. i : FALSE)
        BY <1>1
      <4>3. \A j, k \in i..i : j <= k /\ (\A n \in j..k : rows[n].state[arm] = "quiet") =>
                rows[k].t - rows[j].t < config.quiet
        <5>1. \A j, k \in i..i : i \in j..k
          BY <1>1, <4>2
        <5> QED
          BY <1>8, <5>1
      <4> QED
        BY <1>8, <4>1, <4>2, <4>3 DEF SpanIsSound
    <3>2. CASE s.start # 0
      <4>1. now.start = s.start
        BY <1>2, <1>8, <3>2
      <4>2. /\ s.start \in 1..Len(rows) /\ i \in s.start..Len(rows)
            /\ rows[s.start].state[arm] = "moves" /\ rows[s.last].state[arm] = "moves"
            /\ \A j \in s.start..s.last : rows[j].state[arm] # "unknown"
            /\ \A j \in s.start + 1 .. s.last : rows[j].t - rows[j - 1].t <= config.gap
            /\ \A j, k \in s.start..s.last :
                j <= k /\ (\A n \in j..k : rows[n].state[arm] = "quiet") =>
                    rows[k].t - rows[j].t < config.quiet
        <5>1. i \in s.start..Len(rows)
          BY <1>1, <1>3, <1>7, <3>2
        <5> QED
          BY <1>7, <3>2, <5>1 DEF SpanIsSound
      <4>3. \A j \in s.start..i : j \in s.start..s.last \/ j \in s.last + 1 .. i - 1 \/ j = i
        BY <1>1, <1>3, <1>7, <3>2
      <4>4. \A j \in s.start..i : rows[j].state[arm] # "unknown"
        BY <1>7, <1>8, <3>2, <4>2, <4>3
      <4>5. \A j \in s.start + 1 .. i : rows[j].t - rows[j - 1].t <= config.gap
        <5>1. \A j \in s.start + 1 .. i :
                j \in s.start + 1 .. s.last \/ j \in s.last + 1 .. i - 1 \/ j = i
          BY <1>1, <1>3, <1>7, <3>2
        <5> QED
          BY <1>7, <3>2, <4>2, <5>1
      <4>6. ASSUME NEW j \in s.start..i, NEW k \in s.start..i, j <= k,
                   \A n \in j..k : rows[n].state[arm] = "quiet"
            PROVE  rows[k].t - rows[j].t < config.quiet
        <5>1. i \notin j..k /\ s.last \notin j..k
          BY <1>8, <4>2, <4>6
        <5>2. j \in Int /\ k \in Int /\ k < i
          BY <1>1, <1>3, <4>6, <5>1
        <5>3. CASE k <= s.last
          <6>1. j \in s.start..s.last /\ k \in s.start..s.last
            BY <1>3, <4>6, <5>2, <5>3
          <6> QED
            BY <4>2, <4>6, <6>1
        <5>4. CASE s.last < k
          <6>1. s.last < j
            BY <1>3, <5>1, <5>2, <5>4
          <6>2. s.quiet = s.last + 1 /\ s.quiet # 0
            BY <1>1, <1>3, <1>7, <3>2, <5>2, <5>4
          <6>3. rows[i - 1].t - rows[s.quiet].t < config.quiet
            BY <1>7, <3>2, <6>2
          <6>4. /\ s.quiet <= j /\ k <= i - 1
                /\ s.quiet \in 1..Len(rows) /\ j \in 1..Len(rows)
                /\ k \in 1..Len(rows) /\ i - 1 \in 1..Len(rows)
            BY <1>1, <1>3, <1>7, <3>2, <4>6, <5>2, <6>1, <6>2, SMTT(30)
          <6>5. rows[s.quiet].t <= rows[j].t /\ rows[k].t <= rows[i - 1].t
            BY <1>1, <6>4
          <6>6. /\ rows[s.quiet].t \in Int /\ rows[j].t \in Int
                /\ rows[k].t \in Int /\ rows[i - 1].t \in Int
            BY <1>1, <6>4
          <6>7. config.quiet \in Int
            BY DEF GestureConfigs
          <6> DEFINE a == rows[i - 1].t
                     b == rows[s.quiet].t
                     c == rows[j].t
                     d == rows[k].t
          <6>8. a \in Int /\ b \in Int /\ c \in Int /\ d \in Int
            BY <6>6
          <6>9. a - b < config.quiet /\ b <= c /\ d <= a
            BY <6>3, <6>5
          <6> HIDE DEF a, b, c, d
          <6>10. d - c < config.quiet
            BY <6>7, <6>8, <6>9
          <6> QED
            BY <6>10 DEF c, d
        <5> QED
          BY <1>3, <5>2, <5>3, <5>4
      <4> QED
        BY <1>8, <4>1, <4>2, <4>4, <4>5, <4>6 DEF SpanIsSound
    <3> QED
      BY <3>1, <3>2
  <2>3. \A u \in now.spans : Apart(u.last, now.start)
    <3>1. CASE s.start = 0
      BY <1>2, <1>6, <1>8, <3>1
    <3>2. CASE s.start # 0
      BY <1>2, <1>7, <1>8, <3>2
    <3> QED
      BY <3>1, <3>2
  <2>4. \A j \in i + 1 .. i : FALSE
    BY <1>1
  <2>5. i <= i
    BY <1>1
  <2> QED
    BY <1>5, <2>1, <2>2, <2>3, <2>4, <2>5 DEF WatchIsSound, now
<1>9. CASE state # "moves" /\ s.start = 0
  <2>1. now = s
    BY <1>2, <1>9
  <2>2. Sound(s, i)
    BY <1>5, <1>6, <1>9 DEF WatchIsSound
  <2> QED
    BY <2>1, <2>2 DEF now
<1>10. CASE state # "moves" /\ s.start # 0
  <2>1. state = "quiet"
    BY <1>1, <1>7, <1>10
  <2>2. CASE rows[i].t - rows[quiet].t >= config.quiet
    <3>1. now = Upper!Finished(rows, arm, config, s)
      BY <1>2, <1>10, <2>1, <2>2
    <3>2. Apart(s.last, i)
      <4>1. i \in s.last + 1 .. i /\ quiet \in s.last + 1 .. i
        BY <1>1, <1>3, <1>7, <1>10
      <4> QED
        BY <2>2, <4>1 DEF Parted
    <3>3. Sound(s, i - 1) /\ i - 1 <= i
      BY <1>1, <1>7, <1>10
    <3> QED
      BY <1>1, <1>2, <3>1, <3>2, <3>3, FinishedKeeps DEF now
  <2>3. CASE ~(rows[i].t - rows[quiet].t >= config.quiet)
    <3>1. /\ now.start = s.start /\ now.last = s.last
          /\ now.quiet = quiet /\ now.spans = s.spans
      BY <1>2, <1>10, <2>1, <2>3
    <3>2. \A j \in s.last + 1 .. i :
            rows[j].state[arm] = "quiet" /\ rows[j].t - rows[j - 1].t <= config.gap
      <4>1. \A j \in s.last + 1 .. i : j \in s.last + 1 .. i - 1 \/ j = i
        BY <1>1, <1>3
      <4> QED
        BY <1>7, <1>10, <2>1, <4>1
    <3>3. /\ s.last <= i /\ quiet = IF s.last = i THEN 0 ELSE s.last + 1
          /\ rows[i].t - rows[quiet].t < config.quiet
      <4>1. s.last <= i /\ s.last # i
        BY <1>1, <1>3, <1>7, <1>10
      <4>2. rows[i].t \in Int /\ rows[quiet].t \in Int
        <5>1. quiet \in 1..Len(rows)
          BY <1>1, <1>3, <1>7, <1>10
        <5> QED
          BY <1>1, <5>1
      <4>3. config.quiet \in Int
        BY DEF GestureConfigs
      <4> QED
        BY <1>7, <1>10, <2>3, <4>1, <4>2, <4>3
    <3> QED
      BY <1>5, <1>7, <1>10, <3>1, <3>2, <3>3 DEF WatchIsSound, now
  <2> QED
    BY <2>2, <2>3
<1> QED
  BY <1>8, <1>9, <1>10

LEMMA SpansUnfold ==
    ASSUME NEW rows \in Gestures, NEW arm \in Upper!Arm, NEW config
    PROVE  \E a \in [0..Len(rows) -> Watches] :
             /\ a[0] = Upper!NoSpan
             /\ \A i \in 1..Len(rows) : a[i] = Upper!Sensed(rows, arm, config, i, a[i - 1])
             /\ Upper!Spans(rows, arm, config) =
                    Upper!Finished(rows, arm, config, a[Len(rows)]).spans
<1> DEFINE n == Len(rows)
           first == Upper!NoSpan
           step == [x \in (1..n) \X Watches |-> Upper!Sensed(rows, arm, config, x[1], x[2])]
           Body(a) == [i \in 0..n |-> IF i = 0 THEN first
                                      ELSE Upper!Sensed(rows, arm, config, i, a[i - 1])]
<1>0. n \in Nat /\ first \in Watches
  BY GesturesAreTyped DEF Upper!NoSpan, Watches
<1>1. \A i \in 1..n : \A s \in Watches : Upper!Sensed(rows, arm, config, i, s) \in Watches
  <2> SUFFICES ASSUME NEW i \in 1..n, NEW s \in Watches
               PROVE  Upper!Sensed(rows, arm, config, i, s) \in Watches
    OBVIOUS
  <2>1. i \in Nat \ {0}
    BY <1>0
  <2> QED
    BY <2>1, SensedIs
<1>2. step \in [(1..n) \X Watches -> Watches]
  BY <1>1
<1>3. IsComputed(Watches, first, n, step)
  <2> HIDE DEF n, first, step
  <2> QED
    BY <1>0, <1>2, Recursion
<1>4. PICK h \in [0..n -> Watches] : h[0] = first /\ \A i \in 1..n : h[i] = step[<<i, h[i - 1]>>]
  BY <1>3 DEF IsComputed
<1>5. ASSUME NEW i \in 1..n PROVE h[i] = Upper!Sensed(rows, arm, config, i, h[i - 1])
  <2>1. h[i - 1] \in Watches
    BY <1>0, <1>4
  <2> QED
    BY <2>1, <1>4
<1>6. h = Body(h)
  <2> HIDE DEF n, first
  <2>1. \A i \in 0..n : i = 0 \/ i \in 1..n
    BY <1>0
  <2>2. \A i \in 0..n : h[i] = IF i = 0 THEN first
                               ELSE Upper!Sensed(rows, arm, config, i, h[i - 1])
    BY <1>0, <1>4, <1>5, <2>1, Zenon
  <2>3. h = [i \in 0..n |-> h[i]]
    BY <1>4
  <2> QED
    BY <2>2, <2>3
<1> DEFINE a == CHOOSE a : a = Body(a)
<1>7. Upper!Spans(rows, arm, config) = Upper!Finished(rows, arm, config, a[n]).spans
  BY DEF Upper!Spans
<1>8. a = Body(a)
  <2> HIDE DEF Body
  <2> QED
    BY <1>6
<1> HIDE DEF a
<1>9. DOMAIN a = 0..n /\ a[0] = first /\ a = [i \in 0..n |-> a[i]]
  BY <1>8, <1>0
<1>10. \A i \in 1..n : a[i] = Upper!Sensed(rows, arm, config, i, a[i - 1])
  <2>1. \A i \in 1..n : i \in 0..n /\ i # 0
    BY <1>0
  <2> HIDE DEF n, first
  <2> QED
    BY <1>8, <2>1, Zenon
<1>11. 0..n \subseteq {k \in 0..n : a[k] \in Watches}
  <2> DEFINE S == {k \in 0..n : a[k] \in Watches}
  <2>1. 0 \in S
    <3> HIDE DEF n, first
    <3> QED
      BY <1>0, <1>9
  <2>2. ASSUME NEW k \in 0..n, k \in S, k < n PROVE k + 1 \in S
    <3>1. k + 1 \in 1..n /\ (k + 1) - 1 = k
      BY <1>0, <2>2
    <3> QED
      BY <3>1, <1>10, <1>1, <2>2
  <2>3. 0..n \subseteq S
    <3> HIDE DEF S, n
    <3> QED
      BY <1>0, <2>1, <2>2, SampleInduction
  <2> QED
    BY <2>3 DEF S
<1>12. a \in [0..n -> Watches]
  <2> HIDE DEF n
  <2> QED
    BY <1>9, <1>11
<1> QED
  BY <1>7, <1>9, <1>10, <1>12

LEMMA SpansOfAnArm ==
    ASSUME NEW rows \in Gestures, NEW arm \in Upper!Arm, NEW config \in GestureConfigs
    PROVE  /\ Upper!Spans(rows, arm, config) \subseteq ArmSpans
           /\ SpansAreSound(rows, arm, config, Upper!Spans(rows, arm, config))
<1> DEFINE n == Len(rows)
<1>1. n \in Nat
  BY GesturesAreTyped
<1>2. PICK a \in [0..n -> Watches] :
        /\ a[0] = Upper!NoSpan
        /\ \A i \in 1..n : a[i] = Upper!Sensed(rows, arm, config, i, a[i - 1])
        /\ Upper!Spans(rows, arm, config) = Upper!Finished(rows, arm, config, a[n]).spans
  BY SpansUnfold
<1> DEFINE S == {i \in 0..n : WatchIsSound(rows, arm, config, a[i], i)}
<1>3. 0 \in S
  <2>1. WatchIsSound(rows, arm, config, Upper!NoSpan, 0)
    BY DEF Upper!NoSpan, WatchIsSound, SpansAreSound
  <2> QED
    BY <1>1, <1>2, <2>1
<1>4. ASSUME NEW i \in 0..n, i \in S, i < n PROVE i + 1 \in S
  <2>1. i + 1 \in 1..n /\ (i + 1) - 1 = i /\ i + 1 \in 0..n
    BY <1>1, <1>4
  <2>2. WatchIsSound(rows, arm, config, a[i], (i + 1) - 1) /\ a[i] \in Watches
    BY <1>4, <2>1
  <2>3. a[i + 1] = Upper!Sensed(rows, arm, config, i + 1, a[i])
    BY <1>2, <2>1
  <2>4. WatchIsSound(rows, arm, config, Upper!Sensed(rows, arm, config, i + 1, a[i]), i + 1)
    BY <2>1, <2>2, SensedKeeps
  <2> QED
    BY <2>1, <2>3, <2>4
<1>5. 0..n \subseteq S
  <2> HIDE DEF S, n
  <2> QED
    BY <1>1, <1>3, <1>4, SampleInduction
<1>6. WatchIsSound(rows, arm, config, a[n], n) /\ a[n] \in Watches /\ n \in 0..n
  BY <1>1, <1>5
<1>7. SpansAreSound(rows, arm, config, Upper!Finished(rows, arm, config, a[n]).spans)
  BY <1>6, FinishedSpans
<1>8. Upper!Finished(rows, arm, config, a[n]).spans \subseteq ArmSpans
  <2> DEFINE f == Upper!Finished(rows, arm, config, a[n])
  <2>1. f \in Watches
    BY <1>6, FinishedIs
  <2> HIDE DEF f
  <2>2. f.spans \subseteq ArmSpans
    BY <2>1 DEF Watches
  <2> QED
    BY <2>2 DEF f
<1> QED
  BY <1>2, <1>7, <1>8

\* Falls of an extension that cannot be longer have no sample in common.
LEMMA RetractionsAreApart ==
    ASSUME NEW rows, NEW span \in ArmSpans, NEW config,
           NEW p \in Upper!Retractions(rows, span, config),
           NEW q \in Upper!Retractions(rows, span, config), p # q
    PROVE  p[2] < q[1] \/ q[2] < p[1]
<1> DEFINE Ext(i) == rows[i].extension[span.arm]
           Falling(a, b) == /\ \A i \in a..b : Ext(i) # None
                            /\ \A i \in a + 1 .. b : Ext(i) < Ext(i - 1)
           Inside == span.first .. span.last
<1>1. \A r \in Upper!Retractions(rows, span, config) :
        /\ r \in Inside \X Inside /\ r[1] < r[2] /\ Falling(r[1], r[2])
        /\ r[1] = span.first \/ ~Falling(r[1] - 1, r[2])
        /\ r[2] = span.last \/ ~Falling(r[1], r[2] + 1)
  BY DEF Upper!Retractions
<1>2. span.first \in Nat /\ span.last \in Nat
  BY DEF ArmSpans
<1> HIDE DEF Ext
<1>3. ASSUME NEW a \in Inside \X Inside, NEW b \in Inside \X Inside, a # b, a[1] <= b[1],
             a[1] < a[2], b[1] < b[2], Falling(a[1], a[2]), Falling(b[1], b[2]),
             b[1] = span.first \/ ~Falling(b[1] - 1, b[2]),
             a[2] = span.last \/ ~Falling(a[1], a[2] + 1),
             b[2] = span.last \/ ~Falling(b[1], b[2] + 1)
      PROVE  a[2] < b[1]
  <2>1. /\ a[1] \in Int /\ a[2] \in Int /\ b[1] \in Int /\ b[2] \in Int
        /\ span.first <= a[1] /\ a[2] <= span.last /\ b[2] <= span.last
        /\ a = <<a[1], a[2]>> /\ b = <<b[1], b[2]>>
    BY <1>2
  <2>2. SUFFICES ASSUME b[1] <= a[2] PROVE FALSE
    BY <2>1
  <2>3. CASE a[2] < b[2]
    <3>1. \A i \in a[1]..a[2] + 1 : i \in a[1]..a[2] \/ i \in b[1]..b[2]
      BY <2>1, <2>2, <2>3
    <3>2. \A i \in a[1] + 1 .. a[2] + 1 : i \in a[1] + 1 .. a[2] \/ i \in b[1] + 1 .. b[2]
      BY <2>1, <2>2, <2>3
    <3>3. Falling(a[1], a[2] + 1)
      BY <1>3, <3>1, <3>2
    <3>4. a[2] # span.last
      BY <1>2, <2>1, <2>3
    <3> QED
      BY <1>3, <3>3, <3>4
  <2>4. CASE b[2] <= a[2] /\ a[1] < b[1]
    <3>1. \A i \in b[1] - 1 .. b[2] : i \in a[1]..a[2]
      BY <2>1, <2>4
    <3>2. \A i \in (b[1] - 1) + 1 .. b[2] : i \in a[1] + 1 .. a[2]
      BY <2>1, <2>4
    <3>3. Falling(b[1] - 1, b[2])
      BY <1>3, <3>1, <3>2
    <3>4. b[1] # span.first
      BY <1>2, <2>1, <2>4
    <3> QED
      BY <1>3, <3>3, <3>4
  <2>5. CASE b[2] <= a[2] /\ a[1] = b[1]
    <3>1. b[2] < a[2]
      BY <1>3, <2>1, <2>5
    <3>2. \A i \in b[1] .. b[2] + 1 : i \in a[1]..a[2]
      BY <2>1, <2>5, <3>1
    <3>3. \A i \in b[1] + 1 .. b[2] + 1 : i \in a[1] + 1 .. a[2]
      BY <2>1, <2>5, <3>1
    <3>4. Falling(b[1], b[2] + 1)
      BY <1>3, <3>2, <3>3
    <3>5. b[2] # span.last
      BY <1>2, <2>1, <3>1
    <3> QED
      BY <1>3, <3>4, <3>5
  <2> QED
    BY <1>3, <2>1, <2>3, <2>4, <2>5
<1>4. p[1] \in Int /\ q[1] \in Int
  BY <1>1, <1>2
<1>5. CASE p[1] <= q[1]
  <2> HIDE DEF Falling, Inside
  <2> QED
    BY <1>1, <1>3, <1>5
<1>6. CASE q[1] <= p[1]
  <2> HIDE DEF Falling, Inside
  <2> QED
    BY <1>1, <1>3, <1>6
<1> QED
  BY <1>4, <1>5, <1>6

Couples == SUBSET (ArmSpans \X ArmSpans)

Coupled(rows, spans, config, p) ==
    /\ p[0] = {}
    /\ \A i \in 1..Len(rows) :
            p[i] = p[i - 1] \cup Upper!Paired(rows, spans, config, i, p[i - 1])
    /\ Upper!Pairs(rows, spans, config) = p[Len(rows)]

LEMMA PairsUnfold ==
    ASSUME NEW rows \in Gestures, NEW spans \in SUBSET ArmSpans, NEW config
    PROVE  \E p \in [0..Len(rows) -> Couples] : Coupled(rows, spans, config, p)
<1> DEFINE n == Len(rows)
           Next(i, pairs) == pairs \cup Upper!Paired(rows, spans, config, i, pairs)
           step == [x \in (1..n) \X Couples |-> Next(x[1], x[2])]
           Body(p) == [i \in 0..n |-> IF i = 0 THEN {} ELSE Next(i, p[i - 1])]
<1>0. n \in Nat /\ {} \in Couples
  BY GesturesAreTyped DEF Couples
<1>1. \A i \in 1..n : \A pairs \in Couples : Next(i, pairs) \in Couples
  <2>1. \A i \in 1..n : \A pairs \in Couples :
            Upper!Paired(rows, spans, config, i, pairs) \subseteq ArmSpans \X ArmSpans
    BY DEF Upper!Paired
  <2> QED
    BY <2>1 DEF Couples
<1> HIDE DEF Next
<1>2. step \in [(1..n) \X Couples -> Couples]
  BY <1>1
<1>3. IsComputed(Couples, {}, n, step)
  <2> HIDE DEF n, step
  <2> QED
    BY <1>0, <1>2, Recursion
<1>4. PICK h \in [0..n -> Couples] : h[0] = {} /\ \A i \in 1..n : h[i] = step[<<i, h[i - 1]>>]
  BY <1>3 DEF IsComputed
<1>5. ASSUME NEW i \in 1..n PROVE h[i] = Next(i, h[i - 1])
  <2>1. h[i - 1] \in Couples
    BY <1>0, <1>4
  <2> QED
    BY <2>1, <1>4
<1>6. h = Body(h)
  <2> HIDE DEF n
  <2>1. \A i \in 0..n : i = 0 \/ i \in 1..n
    BY <1>0
  <2>2. \A i \in 0..n : h[i] = IF i = 0 THEN {} ELSE Next(i, h[i - 1])
    BY <1>0, <1>4, <1>5, <2>1, Zenon
  <2>3. h = [i \in 0..n |-> h[i]]
    BY <1>4
  <2> QED
    BY <2>2, <2>3
<1> DEFINE p == CHOOSE p : p = Body(p)
<1>7. Upper!Pairs(rows, spans, config) = p[n]
  BY DEF Upper!Pairs, Next
<1>8. p = Body(p)
  <2> HIDE DEF Body
  <2> QED
    BY <1>6
<1> HIDE DEF p
<1>9. DOMAIN p = 0..n /\ p[0] = {} /\ p = [i \in 0..n |-> p[i]]
  BY <1>8, <1>0
<1>10. \A i \in 1..n : p[i] = Next(i, p[i - 1])
  <2>1. \A i \in 1..n : i \in 0..n /\ i # 0
    BY <1>0
  <2> HIDE DEF n
  <2> QED
    BY <1>8, <2>1, Zenon
<1>11. 0..n \subseteq {k \in 0..n : p[k] \in Couples}
  <2> DEFINE S == {k \in 0..n : p[k] \in Couples}
  <2>1. 0 \in S
    <3> HIDE DEF n
    <3>1. 0 \in 0..n
      BY <1>0
    <3> QED
      BY <3>1, <1>0, <1>9
  <2>2. ASSUME NEW k \in 0..n, k \in S, k < n PROVE k + 1 \in S
    <3>1. k + 1 \in 1..n /\ (k + 1) - 1 = k
      BY <1>0, <2>2
    <3> QED
      BY <3>1, <1>10, <1>1, <2>2
  <2>3. 0..n \subseteq S
    <3> HIDE DEF S, n
    <3> QED
      BY <1>0, <2>1, <2>2, SampleInduction
  <2> QED
    BY <2>3 DEF S
<1>12. p \in [0..n -> Couples]
  <2> HIDE DEF n
  <2> QED
    BY <1>9, <1>11
<1> QED
  BY <1>7, <1>9, <1>10, <1>12 DEF Next, Coupled

\* No span is in two pairs, and the left ones have begun.
PairsAreSound(spans, pairs, n) ==
    /\ \A x \in pairs :
        /\ x \in spans \X spans /\ x[1].arm = "left" /\ x[2].arm = "right" /\ x[1].first <= n
    /\ \A x, y \in pairs : x[1] = y[1] \/ x[2] = y[2] => x = y

LEMMA PairsGrow ==
    ASSUME NEW rows, NEW config, NEW spans \in SUBSET ArmSpans,
           \A u, v \in spans : u.arm = v.arm /\ u.first = v.first => u = v,
           NEW n \in Nat \ {0}, NEW pairs \in Couples, PairsAreSound(spans, pairs, n - 1)
    PROVE  PairsAreSound(spans, pairs \cup Upper!Paired(rows, spans, config, n, pairs), n)
<1> DEFINE new == Upper!Paired(rows, spans, config, n, pairs)
<1>1. /\ \A y \in new :
            /\ y \in spans \X spans /\ y[1].arm = "left" /\ y[1].first = n /\ y[2].arm = "right"
            /\ \A x \in pairs : x[2] # y[2]
      /\ \A y, z \in new : y[2].first <= z[2].first
  BY DEF Upper!Paired
<1> HIDE DEF new
<1>2. \A u \in spans : u.first \in Nat
  BY DEF ArmSpans
<1>3. /\ \A x \in pairs : /\ x \in spans \X spans /\ x[1].arm = "left" /\ x[2].arm = "right"
                          /\ x[1].first <= n - 1
      /\ \A x, y \in pairs : x[1] = y[1] \/ x[2] = y[2] => x = y
  BY DEF PairsAreSound
<1>4. \A x \in pairs : x[1].first <= n /\ x[1].first # n
  <2> TAKE x \in pairs
  <2>1. x[1].first \in Nat /\ x[1].first <= n - 1
    BY <1>2, <1>3
  <2> QED
    BY <2>1
<1>5. \A x \in pairs : \A y \in new : x[1] # y[1] /\ x[2] # y[2]
  BY <1>1, <1>4
<1>6. ASSUME NEW y \in new, NEW z \in new PROVE y = z
  <2>1. y[2].first \in Nat /\ z[2].first \in Nat
    BY <1>1, <1>2
  <2>2. y[2].first = z[2].first
    BY <1>1, <2>1
  <2>3. y[1] = z[1] /\ y[2] = z[2]
    BY <1>1, <2>2
  <2>4. y = <<y[1], y[2]>> /\ z = <<z[1], z[2]>>
    BY <1>1
  <2> QED
    BY <2>3, <2>4
<1>7. \A x \in new : x[1].first <= n
  BY <1>1
<1>8. \A x \in pairs \cup new :
        /\ x \in spans \X spans /\ x[1].arm = "left" /\ x[2].arm = "right" /\ x[1].first <= n
  BY <1>1, <1>3, <1>4, <1>7
<1>9. \A x, y \in pairs \cup new : x[1] = y[1] \/ x[2] = y[2] => x = y
  BY <1>3, <1>5, <1>6
<1>10. PairsAreSound(spans, pairs \cup new, n)
  BY <1>8, <1>9 DEF PairsAreSound
<1> QED
  BY <1>10 DEF new

LEMMA PairsAreOneToOne ==
    ASSUME NEW rows \in Gestures, NEW config, NEW spans \in SUBSET ArmSpans,
           \A u, v \in spans : u.arm = v.arm /\ u.first = v.first => u = v
    PROVE  PairsAreSound(spans, Upper!Pairs(rows, spans, config), Len(rows))
<1> DEFINE n == Len(rows)
<1>1. n \in Nat
  BY GesturesAreTyped
<1>2. PICK p \in [0..n -> Couples] : Coupled(rows, spans, config, p)
  BY PairsUnfold
<1> DEFINE S == {i \in 0..n : PairsAreSound(spans, p[i], i)}
<1>3. 0 \in S
  BY <1>1, <1>2 DEF Coupled, PairsAreSound
<1>4. ASSUME NEW i \in 0..n, i \in S, i < n PROVE i + 1 \in S
  <2>1. i + 1 \in 1..n /\ (i + 1) - 1 = i /\ i + 1 \in 0..n /\ i + 1 \in Nat \ {0}
    BY <1>1, <1>4
  <2>2. PairsAreSound(spans, p[i], (i + 1) - 1) /\ p[i] \in Couples
    BY <1>4, <2>1
  <2>3. p[i + 1] = p[i] \cup Upper!Paired(rows, spans, config, i + 1, p[i])
    BY <1>2, <2>1 DEF Coupled
  <2>4. PairsAreSound(spans, p[i] \cup Upper!Paired(rows, spans, config, i + 1, p[i]), i + 1)
    BY <2>1, <2>2, PairsGrow
  <2> QED
    BY <2>1, <2>3, <2>4
<1>5. 0..n \subseteq S
  <2> HIDE DEF S, n
  <2> QED
    BY <1>1, <1>3, <1>4, SampleInduction
<1>6. PairsAreSound(spans, p[n], n)
  BY <1>1, <1>5
<1> QED
  BY <1>2, <1>6 DEF Coupled

LEMMA GatedSpans ==
    ASSUME NEW rows \in Gestures, NEW execution, NEW config \in GestureConfigs
    PROVE  LET spans == Upper!Gated(rows, execution, config) IN
           /\ spans \in SUBSET ArmSpans
           /\ \A s \in spans : SpanIsSound(rows, s.arm, config, s.first, s.last)
           /\ \A s, u \in spans : s # u /\ s.arm = u.arm /\ s.first <= u.first =>
                s.last < u.first /\ Parted(rows, s.arm, config, s.last, u.first)
           /\ \A s, u \in spans : s.arm = u.arm /\ s.first = u.first => s = u
<1> DEFINE spans == Upper!Gated(rows, execution, config)
<1>1. ASSUME NEW s \in spans
      PROVE  s.arm \in Upper!Arm /\ s \in Upper!Spans(rows, s.arm, config)
  <2>1. PICK arm \in Upper!Arm : s \in Upper!Spans(rows, arm, config)
    BY DEF Upper!Gated
  <2>2. s.arm = arm
    BY <2>1, SpansOfAnArm DEF SpansAreSound
  <2> QED
    BY <2>1, <2>2
<1> HIDE DEF spans
<1>2. \A s \in spans : s \in ArmSpans /\ SpanIsSound(rows, s.arm, config, s.first, s.last)
  BY <1>1, SpansOfAnArm DEF SpansAreSound
<1>3. \A s \in spans : s.first \in Nat /\ s.last \in Nat
  BY <1>2 DEF ArmSpans
<1>4. \A s \in spans : s.first <= s.last
  <2>1. Len(rows) \in Nat
    BY GesturesAreTyped
  <2> QED
    BY <1>2, <1>3, <2>1 DEF SpanIsSound
<1>5. ASSUME NEW s \in spans, NEW u \in spans, s # u, s.arm = u.arm, s.first <= u.first
      PROVE  s.last < u.first /\ Parted(rows, s.arm, config, s.last, u.first)
  <2>1. u \in Upper!Spans(rows, s.arm, config) /\ s \in Upper!Spans(rows, s.arm, config)
    BY <1>1, <1>5
  <2>2. Parted(rows, s.arm, config, s.last, u.first)
    BY <1>1, <1>5, <2>1, SpansOfAnArm DEF SpansAreSound
  <2>3. s.last < u.first
    BY <1>3, <2>2 DEF Parted
  <2> QED
    BY <2>2, <2>3
<1>6. ASSUME NEW s \in spans, NEW u \in spans, s.arm = u.arm, s.first = u.first
      PROVE  s = u
  <2>1. s.first \in Nat /\ s.last \in Nat /\ u.first \in Nat /\ s.first <= s.last
    BY <1>3, <1>4
  <2>2. s # u => s.last < u.first
    BY <1>5, <1>6, <2>1
  <2> QED
    BY <1>6, <2>1, <2>2
<1>7. spans \in SUBSET ArmSpans
  BY <1>2
<1> QED
  BY <1>2, <1>5, <1>6, <1>7 DEF spans

\* A proposal is a pair of spans or a span that is in none.
LEMMA ProposalsAre ==
    ASSUME NEW rows, NEW execution, NEW config, NEW p \in Upper!Proposals(rows, execution, config)
    PROVE  LET spans == Upper!Gated(rows, execution, config)
               pairs == Upper!Pairs(rows, spans, config)
           IN \/ \E x \in pairs : p.role = "special" /\ p.tracks = {x[1], x[2]}
              \/ \E s \in spans : /\ p.role = "unknown" /\ p.tracks = {s}
                                  /\ \A x \in pairs : s # x[1] /\ s # x[2]
<1> DEFINE spans == Upper!Gated(rows, execution, config)
           pairs == Upper!Pairs(rows, spans, config)
           paired == UNION {{x[1], x[2]} : x \in pairs}
<1>1. p \in {[role |-> "special", tracks |-> {x[1], x[2]}] : x \in pairs} \cup
            {[role |-> "unknown", tracks |-> {s}] : s \in spans \ paired}
  BY DEF Upper!Proposals
<1> HIDE DEF spans, pairs
<1>2. \A s \in spans \ paired : \A x \in pairs : s # x[1] /\ s # x[2]
  OBVIOUS
<1> HIDE DEF paired
<1>3. \/ \E x \in pairs : p.role = "special" /\ p.tracks = {x[1], x[2]}
      \/ \E s \in spans \ paired : p.role = "unknown" /\ p.tracks = {s}
  BY <1>1
<1> QED
  BY <1>2, <1>3 DEF spans, pairs

\* A phase has its first and last sample in the span, of an event as of a fall.
LEMMA PhasesAreInside ==
    ASSUME NEW rows, NEW s \in ArmSpans, NEW config, NEW events \in SUBSET ArmEvents,
           NEW p \in Upper!Phases(rows, s, events, config)
    PROVE  s.first <= p[1] /\ p[2] <= s.last
<1>1. s.first \in Nat /\ s.last \in Nat
  BY DEF ArmSpans
<1>2. CASE p \in Upper!Retractions(rows, s, config)
  <2>1. p \in (s.first .. s.last) \X (s.first .. s.last)
    BY <1>2 DEF Upper!Retractions
  <2> QED
    BY <1>1, <2>1
<1>3. CASE p \in Upper!Overlaps(s, events)
  <2>1. PICK e \in events : p = <<Upper!Larger(e.first, s.first), Upper!Smaller(e.last, s.last)>>
    BY <1>3 DEF Upper!Overlaps
  <2>2. e.first \in Nat /\ e.last \in Nat
    BY InputAssumption
  <2> QED
    BY <1>1, <2>1, <2>2 DEF Upper!Larger, Upper!Smaller
<1> QED
  BY <1>2, <1>3 DEF Upper!Phases

LEMMA ArmsKeepTheirOwn ==
    ASSUME NEW rows \in Gestures, NEW execution, NEW config \in GestureConfigs,
           NEW events \in SUBSET ArmEvents
    PROVE  Upper!ArmsAreTheirOwn(rows, execution, events, config)
<1> DEFINE proposals == Upper!ParseArmActions(rows, execution, events, config)
           spans == Upper!Gated(rows, execution, config)
           pairs == Upper!Pairs(rows, spans, config)
           tracks == UNION {p.tracks : p \in proposals}
<1>1. /\ spans \in SUBSET ArmSpans
      /\ \A s \in spans : SpanIsSound(rows, s.arm, config, s.first, s.last)
      /\ \A s, u \in spans : s # u /\ s.arm = u.arm /\ s.first <= u.first =>
            s.last < u.first /\ Parted(rows, s.arm, config, s.last, u.first)
      /\ \A s, u \in spans : s.arm = u.arm /\ s.first = u.first => s = u
  BY GatedSpans
<1>2. /\ proposals \subseteq Upper!Proposals(rows, execution, config)
      /\ proposals # {} =>
            \A s \in spans : \A p \in Upper!Phases(rows, s, events, config) : Upper!Lasts(rows, p)
  BY DEF Upper!ParseArmActions
<1>3. \A p \in proposals :
        \/ \E x \in pairs : p.role = "special" /\ p.tracks = {x[1], x[2]}
        \/ \E s \in spans : /\ p.role = "unknown" /\ p.tracks = {s}
                            /\ \A x \in pairs : s # x[1] /\ s # x[2]
  <2> HIDE DEF proposals
  <2> QED
    BY <1>2, ProposalsAre
<1>4. /\ \A x \in pairs : /\ x[1] \in spans /\ x[2] \in spans
                          /\ x[1].arm = "left" /\ x[2].arm = "right"
      /\ \A x, y \in pairs : x[1] = y[1] \/ x[2] = y[2] => x = y
  <2> HIDE DEF spans
  <2>1. PairsAreSound(spans, pairs, Len(rows))
    BY <1>1, PairsAreOneToOne
  <2> HIDE DEF pairs
  <2> QED
    BY <2>1 DEF PairsAreSound
<1>5. proposals \subseteq {[role |-> "special", tracks |-> {x[1], x[2]}] : x \in pairs} \cup
                          {[role |-> "unknown", tracks |-> {s}] : s \in spans}
  <2>1. Upper!Proposals(rows, execution, config) \subseteq
            {[role |-> "special", tracks |-> {x[1], x[2]}] : x \in pairs} \cup
            {[role |-> "unknown", tracks |-> {s}] : s \in spans}
    BY DEF Upper!Proposals
  <2> HIDE DEF proposals, pairs, spans
  <2> QED
    BY <1>2, <2>1
<1> HIDE DEF proposals, pairs, spans
<1>6. ASSUME NEW p \in proposals, NEW q \in proposals, p # q, NEW s \in p.tracks, s \in q.tracks
      PROVE  FALSE
  <2>1. ASSUME NEW x \in pairs, p.tracks = {x[1], x[2]}, p.role = "special",
               NEW y \in pairs, q.tracks = {y[1], y[2]}, q.role = "special"
        PROVE  FALSE
    <3>1. x[1] # y[2] /\ x[2] # y[1]
      BY <1>4
    <3>2. x = y
      BY <1>4, <1>6, <2>1, <3>1
    <3>3. p.role = q.role /\ p.tracks = q.tracks
      BY <2>1, <3>2
    <3> QED
      BY <1>5, <1>6, <3>3
  <2>2. ASSUME NEW x, p.tracks = {x}, p.role = "unknown", NEW y, q.tracks = {y}, q.role = "unknown"
        PROVE  FALSE
    <3>1. p.role = q.role /\ p.tracks = q.tracks
      BY <1>6, <2>2
    <3> QED
      BY <1>5, <1>6, <3>1
  <2>3. (\E x \in pairs : s = x[1] \/ s = x[2]) <=> p.role = "special"
    BY <1>3, <1>6
  <2>4. (\E x \in pairs : s = x[1] \/ s = x[2]) <=> q.role = "special"
    BY <1>3, <1>6
  <2> QED
    BY <1>3, <2>1, <2>2, <2>3, <2>4
<1>7. \A p \in proposals : p.role = "special" => {s.arm : s \in p.tracks} = Upper!Arm
  <2> SUFFICES ASSUME NEW p \in proposals, p.role = "special"
               PROVE  {s.arm : s \in p.tracks} = Upper!Arm
    OBVIOUS
  <2>1. PICK x \in pairs : p.tracks = {x[1], x[2]}
    BY <1>3
  <2> QED
    BY <1>4, <2>1 DEF Upper!Arm
<1>8. tracks \subseteq spans /\ (tracks # {} => proposals # {})
  BY <1>3, <1>4
<1> HIDE DEF tracks
<1>9. \A s \in tracks : \A p \in Upper!Phases(rows, s, events, config) :
            s.first <= p[1] /\ Upper!Lasts(rows, p) /\ p[2] <= s.last
  BY <1>2, <1>1, <1>8, PhasesAreInside
<1>10. \A s \in tracks : s \in ArmSpans /\ SpanIsSound(rows, s.arm, config, s.first, s.last)
  BY <1>1, <1>8
<1>11. ASSUME NEW s \in tracks
      PROVE  \A a, b \in Upper!Retractions(rows, s, config) : a # b => a[2] < b[1] \/ b[2] < a[1]
  BY <1>10, RetractionsAreApart
<1>12. \A s, u \in tracks : s # u /\ s.arm = u.arm /\ s.first <= u.first =>
            s.last < u.first /\ Parted(rows, s.arm, config, s.last, u.first)
  BY <1>1, <1>8
<1>13. \A p, q \in proposals : p # q => p.tracks \cap q.tracks = {}
  BY <1>6
<1>14. \A s \in tracks :
         /\ rows[s.first].state[s.arm] = "moves" /\ rows[s.last].state[s.arm] = "moves"
         /\ \A i \in s.first .. s.last : rows[i].state[s.arm] # "unknown"
         /\ \A i \in s.first + 1 .. s.last : rows[i].t - rows[i - 1].t <= config.gap
         /\ \A i, j \in s.first .. s.last :
              i <= j /\ (\A n \in i..j : rows[n].state[s.arm] = "quiet") =>
                  rows[j].t - rows[i].t < config.quiet
  BY <1>10 DEF SpanIsSound
<1>15. \A s, u \in tracks : s # u /\ s.arm = u.arm /\ s.first <= u.first =>
         /\ s.last < u.first
         /\ \E i \in s.last + 1 .. u.first :
              \/ rows[i].state[s.arm] = "unknown" \/ rows[i].t - rows[i - 1].t > config.gap
              \/ \E j \in s.last + 1 .. i : rows[i].t - rows[j].t >= config.quiet
  BY <1>12 DEF Parted
<1> QED
  BY <1>7, <1>9, <1>11, <1>13, <1>14, <1>15, Zenon DEF Upper!ArmsAreTheirOwn, proposals, tracks

-----------------------------------------------------------------------------
(***************************************************************************)
(* A leg.                                                                  *)
(***************************************************************************)

LEMMA LegRowsAreTyped ==
    ASSUME NEW rows \in LegMotions
    PROVE  /\ Len(rows) \in Nat /\ DOMAIN rows = 1..Len(rows)
           /\ \A i \in 1..Len(rows) :
                rows[i].t \in Int /\ rows[i].extension \in Int \cup {None}
           /\ \A i, j \in 1..Len(rows) : i <= j => rows[i].t <= rows[j].t
<1> DEFINE R == [t : Int, contact : {"contact", "no_contact", "unknown"},
                 extension : Int \cup {None}, place : Int \cup {None}, moving : BOOLEAN]
<1>1. rows \in Seq(R) /\ InOrder(rows)
  BY DEF LegMotions
<1>2. \A r \in R : r.t \in Int /\ r.extension \in Int \cup {None}
  OBVIOUS
<1> HIDE DEF R
<1>3. Len(rows) \in Nat /\ DOMAIN rows = 1..Len(rows) /\ \A i \in DOMAIN rows : rows[i] \in R
  BY <1>1, ElementsAreTyped
<1>4. \A i \in 1..Len(rows) : rows[i].t \in Int /\ rows[i].extension \in Int \cup {None}
  <2> TAKE i \in 1..Len(rows)
  <2>1. rows[i] \in R
    BY <1>3
  <2> QED
    BY <1>2, <2>1, Zenon
<1> QED
  BY <1>1, <1>3, <1>4, TimesGrow

Joined(rows, config, samples, a, b) == a..b \subseteq samples /\ Lower!Close(rows, config, a, b)

LEMMA LegRunsAre ==
    ASSUME NEW rows, NEW config, NEW samples \in SUBSET Int
    PROVE  \A r \in Lower!Runs(rows, config, samples) :
             /\ r \in samples \X samples /\ r[1] \in Int /\ r[2] \in Int /\ r[1] < r[2]
             /\ Joined(rows, config, samples, r[1], r[2])
             /\ ~(r[1] - 1 \in samples /\ Joined(rows, config, samples, r[1] - 1, r[1]))
             /\ ~(r[2] + 1 \in samples /\ Joined(rows, config, samples, r[2], r[2] + 1))
  BY DEF Lower!Runs, Joined

LEMMA JoinedInside ==
    ASSUME NEW rows, NEW config, NEW samples, NEW a \in Int, NEW b \in Int, NEW c \in Int, NEW d \in Int,
           a <= c, d <= b, Joined(rows, config, samples, a, b)
    PROVE  Joined(rows, config, samples, c, d)
<1>1. \A i \in c..d : i \in a..b
  OBVIOUS
<1>2. \A i \in c..(d - 1) : i \in a..(b - 1)
  OBVIOUS
<1> QED
  BY <1>1, <1>2 DEF Joined, Lower!Close

LEMMA JoinedOn ==
    ASSUME NEW rows, NEW config, NEW samples, NEW a \in Int, NEW b \in Int, NEW c \in Int,
           a <= b, b <= c, Joined(rows, config, samples, a, b), Joined(rows, config, samples, b, c)
    PROVE  Joined(rows, config, samples, a, c)
<1>1. \A i \in a..c : i \in a..b \/ i \in b..c
  OBVIOUS
<1>2. \A i \in a..(c - 1) : i \in a..(b - 1) \/ i \in b..(c - 1)
  OBVIOUS
<1> QED
  BY <1>1, <1>2 DEF Joined, Lower!Close

LEMMA LegRunsAreApart ==
    ASSUME NEW rows, NEW config, NEW samples \in SUBSET Int,
           NEW q \in Lower!Runs(rows, config, samples), NEW r \in Lower!Runs(rows, config, samples)
    PROVE  /\ q[1] < r[1] => q[2] < r[1]
           /\ q[1] = r[1] => q = r
<1>1. /\ q[1] \in Int /\ q[2] \in Int /\ r[1] \in Int /\ r[2] \in Int /\ q[1] < q[2] /\ r[1] < r[2]
      /\ q = <<q[1], q[2]>> /\ r = <<r[1], r[2]>>
      /\ Joined(rows, config, samples, q[1], q[2]) /\ Joined(rows, config, samples, r[1], r[2])
      /\ ~(r[1] - 1 \in samples /\ Joined(rows, config, samples, r[1] - 1, r[1]))
      /\ ~(q[2] + 1 \in samples /\ Joined(rows, config, samples, q[2], q[2] + 1))
      /\ ~(r[2] + 1 \in samples /\ Joined(rows, config, samples, r[2], r[2] + 1))
  BY LegRunsAre
<1>2. ASSUME q[1] < r[1], r[1] <= q[2] PROVE FALSE
  <2>1. q[1] <= r[1] - 1 /\ r[1] - 1 \in q[1]..q[2] /\ r[1] - 1 \in Int
    BY <1>1, <1>2
  <2>2. Joined(rows, config, samples, r[1] - 1, r[1])
    BY <1>1, <1>2, <2>1, JoinedInside
  <2>3. r[1] - 1 \in samples
    BY <1>1, <2>1 DEF Joined
  <2> QED
    BY <1>1, <2>2, <2>3
<1>3. ASSUME NEW x \in {q, r}, NEW y \in {q, r}, x[1] = y[1], x[2] < y[2] PROVE FALSE
  <2>1. /\ x[1] \in Int /\ x[2] \in Int /\ y[2] \in Int /\ x[1] < x[2]
        /\ Joined(rows, config, samples, x[1], y[2])
        /\ ~(x[2] + 1 \in samples /\ Joined(rows, config, samples, x[2], x[2] + 1))
    BY <1>1, <1>3
  <2>2. x[2] + 1 <= y[2] /\ x[2] + 1 \in Int /\ x[1] <= x[2] /\ x[2] + 1 \in x[1]..y[2]
    BY <1>3, <2>1
  <2>3. Joined(rows, config, samples, x[2], x[2] + 1)
    BY <2>1, <2>2, JoinedInside
  <2>4. x[2] + 1 \in samples
    BY <2>1, <2>2 DEF Joined
  <2> QED
    BY <2>1, <2>3, <2>4
<1>4. q[1] = r[1] => q[2] = r[2]
  BY <1>1, <1>3
<1> QED
  BY <1>1, <1>2, <1>4

\* Two samples that belong together are in a run.
LEMMA LegRunsCover ==
    ASSUME NEW rows, NEW config, NEW n \in Nat, NEW samples \in SUBSET (1..n),
           NEW i \in samples, i + 1 \in samples, Lower!Close(rows, config, i, i + 1)
    PROVE  \E r \in Lower!Runs(rows, config, samples) : i \in r[1]..r[2] /\ i + 1 \in r[1]..r[2]
<1> DEFINE Ok(a, b) == Joined(rows, config, samples, a, b)
           Lefts == {a \in 1..i : Ok(a, i + 1)}
<1>1. i \in 1..n /\ i + 1 \in 1..n /\ i \in Nat
  OBVIOUS
<1>2. Ok(i, i + 1)
  <2>1. \A x \in i..i + 1 : x = i \/ x = i + 1
    BY <1>1
  <2> QED
    BY <2>1 DEF Joined
<1>3. PICK a \in Lefts : \A x \in Lefts : a <= x
  <2>1. i \in Lefts
    BY <1>1, <1>2
  <2>2. Lefts \in SUBSET Nat /\ Lefts # {}
    BY <1>1, <2>1
  <2> HIDE DEF Lefts
  <2> QED
    BY <2>2, Least
<1>4. a \in 1..i /\ a \in Int /\ Ok(a, i + 1)
  BY <1>1, <1>3
<1> DEFINE Rights == {n - b : b \in {b \in i + 1 .. n : Ok(a, b)}}
<1>5. PICK z \in Rights : \A x \in Rights : z <= x
  <2>1. n - (i + 1) \in Rights
    BY <1>1, <1>4
  <2>2. Rights \in SUBSET Nat /\ Rights # {}
    BY <1>1, <2>1
  <2> HIDE DEF Rights
  <2> QED
    BY <2>2, Least
<1>6. PICK b \in i + 1 .. n : Ok(a, b) /\ \A c \in i + 1 .. n : Ok(a, c) => c <= b
  <2>1. PICK b \in i + 1 .. n : Ok(a, b) /\ z = n - b
    BY <1>5
  <2>2. ASSUME NEW c \in i + 1 .. n, Ok(a, c) PROVE c <= b
    <3>1. n - c \in Rights
      BY <2>2
    <3>2. n - b <= n - c
      BY <1>5, <2>1, <3>1
    <3> QED
      BY <1>1, <3>2
  <2> QED
    BY <2>1, <2>2
<1>7. a < b /\ b \in Int /\ a \in a..b /\ b \in a..b /\ i \in a..b /\ i + 1 \in a..b
  BY <1>1, <1>4
<1>8. a \in samples /\ b \in samples
  BY <1>6, <1>7 DEF Joined
<1>9. ASSUME a - 1 \in samples, Ok(a - 1, a) PROVE FALSE
  <2>1. a - 1 \in 1..i /\ a - 1 \in Int /\ a - 1 <= a /\ a <= i + 1 /\ i + 1 \in Int /\ ~(a <= a - 1)
    BY <1>1, <1>4, <1>9
  <2>2. Ok(a - 1, i + 1)
    BY <1>4, <1>9, <2>1, JoinedOn
  <2> QED
    BY <1>3, <2>1, <2>2
<1>10. ASSUME b + 1 \in samples, Ok(b, b + 1) PROVE FALSE
  <2>1. b + 1 \in i + 1 .. n /\ b + 1 \in Int /\ a <= b /\ b <= b + 1 /\ ~(b + 1 <= b)
    BY <1>1, <1>7, <1>10
  <2>2. Ok(a, b + 1)
    BY <1>4, <1>6, <1>7, <1>10, <2>1, JoinedOn
  <2> QED
    BY <1>6, <2>1, <2>2
<1>11. <<a, b>> \in Lower!Runs(rows, config, samples)
  BY <1>6, <1>7, <1>8, <1>9, <1>10 DEF Lower!Runs, Joined
<1> QED
  BY <1>7, <1>11

\* What a stretch of samples measures has bounds.
LEMMA Bounded ==
    ASSUME NEW a \in Nat, NEW b \in Nat, NEW f, \A i \in a..b : f[i] \in Int, a <= b
    PROVE  \E l, m \in Int : \A i \in a..b : l <= f[i] /\ f[i] <= m
<1> DEFINE Within(k) == \E l, m \in Int : \A i \in a..k : l <= f[i] /\ f[i] <= m
           S == {k \in a..b : Within(k)}
<1>1. a \in S
  <2>1. f[a] \in Int /\ \A i \in a..a : i = a
    OBVIOUS
  <2>2. Within(a)
    <3>1. \A i \in a..a : f[a] <= f[i] /\ f[i] <= f[a]
      BY <2>1
    <3> QED
      BY <2>1, <3>1
  <2> HIDE DEF Within
  <2> QED
    BY <2>2
<1>2. ASSUME NEW k \in a..b, k \in S, k < b PROVE k + 1 \in S
  <2>1. PICK l \in Int, m \in Int : \A i \in a..k : l <= f[i] /\ f[i] <= m
    BY <1>2
  <2>2. k + 1 \in a..b /\ f[k + 1] \in Int
    BY <1>2
  <2>3. PICK l2 \in Int, m2 \in Int : l2 <= l /\ l2 <= f[k + 1] /\ m <= m2 /\ f[k + 1] <= m2
    <3> DEFINE x == f[k + 1]
    <3>1. x \in Int
      BY <2>2
    <3> HIDE DEF x
    <3>2. \E l2, m2 \in Int : l2 <= l /\ l2 <= x /\ m <= m2 /\ x <= m2
      <4> DEFINE l2 == IF l <= x THEN l ELSE x
                 m2 == IF x <= m THEN m ELSE x
      <4>1. l2 \in Int /\ m2 \in Int /\ l2 <= l /\ l2 <= x /\ m <= m2 /\ x <= m2
        BY <3>1
      <4> HIDE DEF l2, m2
      <4> QED
        BY <4>1
    <3> QED
      BY <3>2 DEF x
  <2>4. \A i \in a..k + 1 : l2 <= f[i] /\ f[i] <= m2
    <3> TAKE i \in a..k + 1
    <3>1. CASE i = k + 1
      BY <2>3, <3>1
    <3>2. CASE i \in a..k
      <4>1. l <= f[i] /\ f[i] <= m /\ f[i] \in Int
        BY <2>1, <2>2, <3>2
      <4> QED
        BY <2>3, <4>1
    <3> QED
      BY <2>2, <3>1, <3>2
  <2>5. Within(k + 1)
    BY <2>4
  <2> HIDE DEF Within
  <2> QED
    BY <2>2, <2>5
<1>3. a..b \subseteq S
  <2> HIDE DEF S
  <2> QED
    BY <1>1, <1>2, SampleInduction
<1>4. b \in a..b
  OBVIOUS
<1> QED
  BY <1>3, <1>4

LEMMA SameExtremesOfLegs ==
    ASSUME NEW S PROVE Lower!Max(S) = E!Max(S) /\ Lower!Min(S) = E!Min(S)
  BY Zenon DEF Lower!Max, Lower!Min, E!Max, E!Min

\* The first of the samples that measure most, or least, is one of them.
LEMMA FirstsAre ==
    ASSUME NEW rows, NEW a \in Nat, NEW b \in Nat, a <= b,
           \A i \in a..b : rows[i].extension \in Int
    PROVE  LET values == Lower!Extensions(rows, a..b) IN
           /\ Lower!FirstAt(rows, a..b, Lower!Max(values)) \in a..b
           /\ Lower!FirstAt(rows, a..b, Lower!Min(values)) \in a..b
<1> DEFINE values == Lower!Extensions(rows, a..b)
           f == [i \in a..b |-> rows[i].extension]
           At(v) == {i \in a..b : rows[i].extension = v}
<1>1. PICK l \in Int, m \in Int : \A i \in a..b : l <= f[i] /\ f[i] <= m
  <2>1. \A i \in a..b : f[i] \in Int
    OBVIOUS
  <2> HIDE DEF f
  <2> QED
    BY <2>1, Bounded
<1>2. /\ values \in SUBSET Int /\ values # {} /\ \A x \in values : l <= x /\ x <= m
      /\ \A x \in values : At(x) # {}
  <2>1. values = {rows[i].extension : i \in a..b}
    BY DEF Lower!Extensions
  <2>2. \A i \in a..b : l <= rows[i].extension /\ rows[i].extension <= m
    BY <1>1
  <2>3. a \in a..b
    OBVIOUS
  <2> HIDE DEF values
  <2> QED
    BY <2>1, <2>2, <2>3
<1> HIDE DEF values
<1>3. Lower!Max(values) \in values /\ Lower!Min(values) \in values
  BY <1>2, MaxIs, MinIs, SameExtremesOfLegs
<1>4. ASSUME NEW v \in values PROVE Lower!FirstAt(rows, a..b, v) \in a..b
  <2>1. At(v) \in SUBSET Int /\ At(v) # {} /\ \A x \in At(v) : a <= x
    BY <1>2
  <2> HIDE DEF At
  <2>2. Lower!Min(At(v)) \in At(v)
    BY <2>1, MinIs, SameExtremesOfLegs
  <2>3. Lower!FirstAt(rows, a..b, v) = Lower!Min(At(v))
    BY DEF Lower!FirstAt, At
  <2>4. At(v) \subseteq a..b
    BY DEF At
  <2> QED
    BY <2>2, <2>3, <2>4
<1>5. /\ Lower!FirstAt(rows, a..b, Lower!Max(values)) \in a..b
      /\ Lower!FirstAt(rows, a..b, Lower!Min(values)) \in a..b
  BY <1>3, <1>4
<1> QED
  BY <1>5 DEF values

KickNames == {"chamber", "extension", "retraction"}

InSequence(p, q) ==
    <<p.name, q.name>> \in {<<"chamber", "extension">>, <<"extension", "retraction">>}

\* Each phase lasts, and they follow one another.
PhasesAreSound(phases, a, b) ==
    /\ \A p \in phases : /\ p.name \in KickNames /\ p.from \in a..b /\ p.to \in a..b
                         /\ p.from < p.to
    /\ \A p, q \in phases : /\ InSequence(p, q) => p.from <= q.from /\ p.to <= q.to
                            /\ p.name = q.name => p = q

LEMMA ChamberEndsAre ==
    ASSUME NEW rows \in LegMotions, NEW config \in LegConfigs, NEW a \in 1..Len(rows),
           NEW peak \in 1..Len(rows), NEW chamber \in a..peak, chamber < peak,
           NEW ends, ends = Lower!ChamberEnds(rows, config, a, chamber, peak), ends # {}
    PROVE  E!Min(ends) \in a + 1 .. peak
<1>1. /\ Len(rows) \in Nat /\ \A i \in 1..Len(rows) : rows[i].t \in Int
      /\ config.phase \in Nat \ {0} /\ chamber \in 1..Len(rows)
  <2>1. Len(rows) \in Nat /\ \A i \in 1..Len(rows) : rows[i].t \in Int
    BY LegRowsAreTyped
  <2> QED
    BY <2>1 DEF LegConfigs
<1>2. ends \subseteq a + 1 .. peak
  <2>1. CASE Lower!Elapsed(rows, a, chamber) >= config.phase
    <3>1. ends = {chamber}
      BY <2>1 DEF Lower!ChamberEnds
    <3>2. chamber # a
      <4>1. chamber = a => rows[chamber].t - rows[a].t = 0
        BY <1>1
      <4> QED
        BY <1>1, <2>1, <4>1 DEF Lower!Elapsed
    <3> QED
      BY <1>1, <3>1, <3>2
  <2>2. CASE ~(Lower!Elapsed(rows, a, chamber) >= config.phase)
    <3>1. ends \subseteq (a + 1)..(peak - 1)
      BY <2>2 DEF Lower!ChamberEnds
    <3> QED
      BY <1>1, <3>1
  <2> QED
    BY <2>1, <2>2
<1>3. ends \in SUBSET Int /\ \A x \in ends : a + 1 <= x
  BY <1>1, <1>2
<1>4. E!Min(ends) \in ends
  <2>1. a + 1 \in Int
    BY <1>1
  <2> QED
    BY <1>3, <2>1, MinIs
<1> QED
  BY <1>2, <1>4

LEMMA KickPhasesAre ==
    ASSUME NEW rows \in LegMotions, NEW config \in LegConfigs, NEW a \in 1..Len(rows),
           NEW b \in 1..Len(rows), a <= b, \A i \in a..b : rows[i].extension # None
    PROVE  PhasesAreSound(Lower!KickPhases(rows, config, a, b), a, b)
<1> DEFINE peak == Lower!FirstAt(rows, a..b, Lower!Max(Lower!Extensions(rows, a..b)))
           chamber == Lower!FirstAt(rows, a..peak, Lower!Min(Lower!Extensions(rows, a..peak)))
           recovery == Lower!FirstAt(rows, peak..b, Lower!Min(Lower!Extensions(rows, peak..b)))
           ends == Lower!ChamberEnds(rows, config, a, chamber, peak)
           phases == Lower!KickPhases(rows, config, a, b)
           Lasts(i, j) == Lower!Elapsed(rows, i, j) >= config.phase
<1>1. /\ Len(rows) \in Nat /\ a \in Nat /\ b \in Nat
      /\ \A i \in 1..Len(rows) : rows[i].t \in Int /\ rows[i].extension \in Int \cup {None}
      /\ config.phase \in Nat \ {0}
  <2>1. /\ Len(rows) \in Nat
        /\ \A i \in 1..Len(rows) : rows[i].t \in Int /\ rows[i].extension \in Int \cup {None}
    BY LegRowsAreTyped
  <2> QED
    BY <2>1 DEF LegConfigs
<1>2. \A i \in a..b : i \in 1..Len(rows) /\ rows[i].extension \in Int
  BY <1>1
<1>3. peak \in a..b
  BY <1>1, <1>2, FirstsAre
<1> HIDE DEF peak
<1>4. chamber \in a..peak
  <2>1. a <= peak /\ peak \in Nat /\ \A i \in a..peak : rows[i].extension \in Int
    BY <1>1, <1>2, <1>3
  <2> QED
    BY <1>1, <2>1, FirstsAre
<1>5. recovery \in peak..b
  <2>1. peak <= b /\ peak \in Nat /\ \A i \in peak..b : rows[i].extension \in Int
    BY <1>1, <1>2, <1>3
  <2> QED
    BY <1>1, <2>1, FirstsAre
<1> HIDE DEF chamber, recovery
<1>6. /\ Lasts(chamber, peak) => chamber < peak
      /\ Lasts(peak, recovery) => peak < recovery
  <2>1. \A i \in 1..Len(rows) : ~Lasts(i, i)
    <3> TAKE i \in 1..Len(rows)
    <3>1. rows[i].t - rows[i].t = 0
      BY <1>1
    <3> QED
      BY <1>1, <3>1 DEF Lower!Elapsed
  <2>2. /\ chamber \in 1..Len(rows) /\ peak \in 1..Len(rows)
        /\ chamber # peak => chamber < peak
        /\ recovery # peak => peak < recovery
    BY <1>1, <1>3, <1>4, <1>5
  <2> HIDE DEF Lasts
  <2> QED
    BY <2>1, <2>2
<1>7. \/ phases = {}
      \/ /\ Lasts(chamber, peak)
         /\ phases = {Lower!Phase("extension", chamber, peak)}
                     \cup (IF ends = {} THEN {} ELSE {Lower!Phase("chamber", a, Lower!Min(ends))})
                     \cup (IF /\ rows[peak].extension > rows[recovery].extension + config.excursion
                              /\ Lasts(peak, recovery)
                           THEN {Lower!Phase("retraction", peak, recovery)} ELSE {})
  BY Zenon DEF Lower!KickPhases, peak, chamber, recovery
<1> HIDE DEF phases
<1>8. CASE phases = {}
  BY <1>8 DEF PhasesAreSound, phases
<1>9. CASE phases # {}
  <2>1. chamber < peak
    BY <1>6, <1>7, <1>9
  <2> DEFINE end == Lower!Min(ends)
  <2>2. ends # {} => end \in a + 1 .. peak
    <3>1. peak \in 1..Len(rows)
      BY <1>1, <1>3
    <3> HIDE DEF ends
    <3>2. Lower!Min(ends) = E!Min(ends)
      BY SameExtremesOfLegs
    <3>3. ends # {} => E!Min(ends) \in a + 1 .. peak
      BY <1>4, <2>1, <3>1, ChamberEndsAre DEF ends
    <3> QED
      BY <3>2, <3>3
  <2> HIDE DEF end, ends
  <2>3. \A p \in phases :
          \/ p = Lower!Phase("extension", chamber, peak)
          \/ ends # {} /\ p = Lower!Phase("chamber", a, end)
          \/ peak < recovery /\ p = Lower!Phase("retraction", peak, recovery)
    <3> HIDE DEF Lasts
    <3> QED
      BY <1>6, <1>7, <1>9 DEF end
  <2>4. \A p \in phases :
          \/ p.name = "extension" /\ p.from = chamber /\ p.to = peak
          \/ ends # {} /\ p.name = "chamber" /\ p.from = a /\ p.to = end
          \/ peak < recovery /\ p.name = "retraction" /\ p.from = peak /\ p.to = recovery
    BY <2>3 DEF Lower!Phase
  <2>5. \A p \in phases : /\ p.name \in KickNames /\ p.from \in a..b /\ p.to \in a..b
                          /\ p.from < p.to
    BY <1>1, <1>3, <1>4, <1>5, <2>1, <2>2, <2>4 DEF KickNames
  <2>6. \A p, q \in phases : InSequence(p, q) => p.from <= q.from /\ p.to <= q.to
    BY <1>1, <1>3, <1>4, <1>5, <2>1, <2>2, <2>4 DEF InSequence
  <2>7. \A p, q \in phases : p.name = q.name => p = q
    <3>1. \A p \in phases :
            /\ p.name = "extension" => p = Lower!Phase("extension", chamber, peak)
            /\ p.name = "chamber" => p = Lower!Phase("chamber", a, end)
            /\ p.name = "retraction" => p = Lower!Phase("retraction", peak, recovery)
      BY <2>3, <2>4 DEF Lower!Phase
    <3> QED
      BY <2>4, <3>1
  <2> QED
    BY <2>5, <2>6, <2>7 DEF PhasesAreSound, phases
<1> QED
  BY <1>8, <1>9

\* What one airborne bout is, of samples a to b.
BoutIsExplained(rows, actions, a, b) ==
    /\ \A x \in actions :
        /\ x.from \in Int /\ x.to \in Int /\ 1 <= x.from /\ x.from < x.to /\ x.to <= Len(rows)
        /\ a - 1 <= x.from /\ x.from <= b
        /\ x.from = a - 1 => a - 1 \in Lower!Contact(rows, "contact")
        /\ \E i \in a..b : x.from <= i /\ i <= x.to
        /\ \A p \in x.phases : x.from <= p.from /\ p.from < p.to /\ p.to <= x.to
        /\ x.category = "kick" =>
            /\ KickNames \subseteq {p.name : p \in x.phases}
            /\ \A p, q \in x.phases : InSequence(p, q) => p.from <= q.from /\ p.to <= q.to
        /\ \A id \in x.previous : \E y \in actions : Lower!Id(y) = id /\ y.to <= x.from
    /\ \A x, y \in actions : x.category = y.category => x = y
    /\ \A i \in a..b : \E x \in actions : i \in x.from..x.to

LEMMA BoutsAreExplained ==
    ASSUME NEW rows \in LegMotions, NEW config \in LegConfigs, NEW a \in 1..Len(rows),
           NEW b \in 1..Len(rows), a < b
    PROVE  BoutIsExplained(rows, Lower!BoutActions(rows, config, a, b), a, b)
<1> DEFINE actions == Lower!BoutActions(rows, config, a, b)
           known == \A i \in a..b : rows[i].extension # None
           phases == IF known THEN Lower!KickPhases(rows, config, a, b) ELSE {}
           isKick == {p.name : p \in phases} = {"chamber", "extension", "retraction"}
           recovery == (CHOOSE p \in phases : p.name = "retraction").to
           kick == Lower!Action(a, recovery, "kick", phases, {})
           displaced == Lower!Displaced(rows, config, a, b)
           category == IF known /\ phases = {} THEN "placement" ELSE "unknown"
           whole == phases \cup {Lower!Phase("placement", a - 1, b + 1)}
           step == Lower!Action(a - 1, b + 1, category, whole, {})
           landing == Lower!Action(recovery, b + 1, "placement",
                                   {Lower!Phase("recovery", recovery, b + 1)}, {Lower!Id(kick)})
           after == Lower!Action(recovery, b, "unknown", {}, {Lower!Id(kick)})
           plain == Lower!Action(a, b, "unknown", phases, {})
<1>1. /\ Len(rows) \in Nat /\ a \in Int /\ b \in Int /\ 1 <= a /\ b <= Len(rows)
      /\ DOMAIN rows = 1..Len(rows)
  BY LegRowsAreTyped
<1>2. PhasesAreSound(phases, a, b)
  <2>1. CASE known
    BY <1>1, <2>1, KickPhasesAre
  <2>2. CASE ~known
    BY <2>2 DEF PhasesAreSound
  <2> QED
    BY <2>1, <2>2
<1>3. actions = IF isKick
                THEN {kick} \cup (IF displaced THEN {landing} ELSE IF recovery < b THEN {after} ELSE {})
                ELSE IF displaced THEN {step} ELSE {plain}
  BY Zenon DEF Lower!BoutActions
<1>4. displaced => /\ 1 <= a - 1 /\ b + 1 <= Len(rows)
                   /\ a - 1 \in Lower!Contact(rows, "contact")
  BY <1>1 DEF Lower!Displaced, Lower!Contact
<1>5. /\ kick.from = a /\ kick.to = recovery /\ kick.category = "kick"
      /\ kick.phases = phases /\ kick.previous = {}
      /\ landing.from = recovery /\ landing.to = b + 1 /\ landing.category = "placement"
      /\ landing.phases = {Lower!Phase("recovery", recovery, b + 1)}
      /\ landing.previous = {Lower!Id(kick)}
      /\ after.from = recovery /\ after.to = b /\ after.category = "unknown"
      /\ after.phases = {} /\ after.previous = {Lower!Id(kick)}
      /\ step.from = a - 1 /\ step.to = b + 1 /\ step.category = category
      /\ step.phases = whole /\ step.previous = {}
      /\ plain.from = a /\ plain.to = b /\ plain.category = "unknown"
      /\ plain.phases = phases /\ plain.previous = {}
  <2> HIDE DEF phases, recovery, category, whole
  <2> QED
    BY DEF Lower!Action
<1>6. isKick => /\ recovery \in Int /\ a < recovery /\ recovery <= b
                /\ \A p \in phases : p.to <= recovery
  <2> SUFFICES ASSUME isKick
               PROVE  /\ recovery \in Int /\ a < recovery /\ recovery <= b
                      /\ \A p \in phases : p.to <= recovery
    OBVIOUS
  <2> HIDE DEF phases
  <2>1. \E p \in phases : p.name = "retraction"
    OBVIOUS
  <2>2. \E p \in phases : p.name = "extension"
    OBVIOUS
  <2>3. PICK r \in phases : r.name = "retraction" /\ recovery = r.to
    BY <2>1
  <2>4. PICK e \in phases : e.name = "extension"
    BY <2>2
  <2> HIDE DEF recovery, isKick
  <2>5. /\ r.from \in a..b /\ r.to \in a..b /\ r.from < r.to /\ e.to \in a..b /\ e.to <= r.to
    BY <1>2, <2>3, <2>4 DEF PhasesAreSound, InSequence
  <2>6. ASSUME NEW p \in phases PROVE p.to <= r.to
    <3>1. p.to \in a..b /\ (p.name = "chamber" \/ p.name = "extension" \/ p.name = "retraction")
      BY <1>2 DEF PhasesAreSound, KickNames
    <3>2. CASE p.name = "chamber"
      <4>1. p.to <= e.to
        BY <1>2, <2>4, <3>2 DEF PhasesAreSound, InSequence
      <4> QED
        BY <1>1, <2>5, <3>1, <4>1
    <3>3. CASE p.name = "extension"
      BY <1>2, <2>3, <3>3 DEF PhasesAreSound, InSequence
    <3>4. CASE p.name = "retraction"
      <4>1. p = r
        BY <1>2, <2>3, <3>4 DEF PhasesAreSound
      <4> QED
        BY <1>1, <2>5, <4>1
    <3> QED
      BY <3>1, <3>2, <3>3, <3>4
  <2> QED
    BY <1>1, <2>3, <2>5, <2>6
<1>7. \A p \in phases : a <= p.from /\ p.from < p.to /\ p.to <= b
  BY <1>1, <1>2 DEF PhasesAreSound
<1>8. /\ \A p \in landing.phases : p.from = recovery /\ p.to = b + 1
      /\ \A p \in whole : p \in phases \/ (p.from = a - 1 /\ p.to = b + 1)
  <2> HIDE DEF phases, recovery, landing
  <2> QED
    BY <1>5 DEF Lower!Phase
<1>9. isKick => KickNames \subseteq {p.name : p \in phases}
  <2> HIDE DEF phases
  <2> QED
    BY DEF KickNames
<1>10. \A p, q \in phases : InSequence(p, q) => p.from <= q.from /\ p.to <= q.to
  BY <1>2 DEF PhasesAreSound
<1>11. category # "kick"
  BY Zenon
<1> HIDE DEF actions, phases, known, isKick, recovery, kick, displaced, category, whole, step,
             landing, after, plain
<1>12. CASE isKick
  <2>1. /\ kick \in actions
        /\ \A x \in actions : x = kick \/ (displaced /\ x = landing) \/ (recovery < b /\ x = after)
        /\ displaced => landing \in actions
        /\ ~displaced /\ recovery < b => after \in actions
    BY <1>3, <1>12
  <2>2. ASSUME NEW x \in actions
        PROVE  /\ x.from \in Int /\ x.to \in Int /\ 1 <= x.from /\ x.from < x.to /\ x.to <= Len(rows)
               /\ a <= x.from /\ x.from <= b
               /\ \E i \in a..b : x.from <= i /\ i <= x.to
    <3>1. CASE x = kick
      <4>1. a \in a..b
        BY <1>1
      <4> QED
        BY <1>1, <1>5, <1>6, <1>12, <3>1, <4>1
    <3>2. CASE x # kick
      <4>1. recovery \in a..b
        BY <1>1, <1>6, <1>12
      <4> QED
        BY <1>1, <1>4, <1>5, <1>6, <1>12, <2>1, <3>2, <4>1
    <3> QED
      BY <3>1, <3>2
  <2>3. ASSUME NEW x \in actions
        PROVE  \A p \in x.phases : x.from <= p.from /\ p.from < p.to /\ p.to <= x.to
    <3>1. CASE x = kick
      BY <1>5, <1>6, <1>7, <1>12, <3>1
    <3>2. CASE x = landing
      <4>1. recovery <= recovery /\ recovery < b + 1 /\ b + 1 <= b + 1
        BY <1>1, <1>6, <1>12
      <4> QED
        BY <1>5, <1>8, <3>2, <4>1
    <3>3. CASE x = after
      BY <1>5, <3>3
    <3> QED
      BY <2>1, <3>1, <3>2, <3>3
  <2>4. ASSUME NEW x \in actions
        PROVE  /\ x.category = "kick" =>
                    /\ KickNames \subseteq {p.name : p \in x.phases}
                    /\ \A p, q \in x.phases : InSequence(p, q) => p.from <= q.from /\ p.to <= q.to
               /\ \A id \in x.previous : \E y \in actions : Lower!Id(y) = id /\ y.to <= x.from
    <3>1. x.category = "kick" => x = kick
      BY <1>5, <2>1
    <3>2. ASSUME NEW id \in x.previous
          PROVE  \E y \in actions : Lower!Id(y) = id /\ y.to <= x.from
      <4>1. id = Lower!Id(kick) /\ x.from = recovery
        BY <1>5, <2>1
      <4>2. kick.to <= x.from
        BY <1>5, <1>6, <1>12, <4>1
      <4> QED
        BY <2>1, <4>1, <4>2
    <3>3. x = kick =>
            /\ KickNames \subseteq {p.name : p \in x.phases}
            /\ \A p, q \in x.phases : InSequence(p, q) => p.from <= q.from /\ p.to <= q.to
      BY <1>5, <1>9, <1>10, <1>12
    <3> QED
      BY <3>1, <3>2, <3>3
  <2>5. \A x, y \in actions : x.category = y.category => x = y
    BY <1>5, <2>1
  <2>6. ASSUME NEW i \in a..b PROVE \E x \in actions : i \in x.from..x.to
    <3>1. CASE i <= recovery
      <4>1. i \in kick.from..kick.to
        BY <1>1, <1>5, <1>6, <1>12, <3>1
      <4> QED
        BY <2>1, <4>1
    <3>2. CASE ~(i <= recovery)
      <4>1. recovery < b /\ i \in landing.from..landing.to /\ i \in after.from..after.to
        BY <1>1, <1>5, <1>6, <1>12, <3>2
      <4> QED
        BY <2>1, <4>1
    <3> QED
      BY <3>1, <3>2
  <2>7. \A x \in actions : a - 1 <= x.from /\ x.from # a - 1
    BY <1>1, <2>2
  <2> QED
    BY <2>2, <2>3, <2>4, <2>5, <2>6, <2>7 DEF BoutIsExplained, actions
<1>13. CASE ~isKick
  <2>1. PICK x : /\ actions = {x}
                 /\ (displaced /\ x = step) \/ x = plain
    BY <1>3, <1>13
  <2>2. /\ x.category # "kick" /\ x.previous = {}
    BY <1>5, <1>11, <2>1
  <2>3. /\ x.from \in Int /\ x.to \in Int /\ 1 <= x.from /\ x.to <= Len(rows)
        /\ a - 1 <= x.from /\ x.from <= a /\ b <= x.to
        /\ x.from = a - 1 => a - 1 \in Lower!Contact(rows, "contact")
    BY <1>1, <1>4, <1>5, <2>1
  <2>4. ASSUME NEW p \in x.phases PROVE x.from <= p.from /\ p.from < p.to /\ p.to <= x.to
    <3>1. CASE x = plain
      BY <1>5, <1>7, <3>1
    <3>2. CASE x = step
      <4>1. p \in phases \/ (p.from = a - 1 /\ p.to = b + 1)
        BY <1>5, <1>8, <3>2
      <4>2. CASE p.from = a - 1 /\ p.to = b + 1
        BY <1>1, <1>5, <3>2, <4>2
      <4>3. CASE p \in phases
        <5>1. p.from \in a..b /\ p.to \in a..b /\ p.from < p.to
          BY <1>2, <4>3 DEF PhasesAreSound
        <5> QED
          BY <1>1, <1>5, <3>2, <5>1
      <4> QED
        BY <4>1, <4>2, <4>3
    <3> QED
      BY <2>1, <3>1, <3>2
  <2>5. /\ x.from < x.to /\ x.from <= b
        /\ \E i \in a..b : x.from <= i /\ i <= x.to
        /\ \A i \in a..b : i \in x.from..x.to
    <3>1. a \in a..b /\ x.from <= a /\ a <= x.to
      BY <1>1, <2>3
    <3> QED
      BY <1>1, <2>3, <3>1
  <2> QED
    BY <2>1, <2>2, <2>3, <2>4, <2>5 DEF BoutIsExplained, actions
<1> QED
  BY <1>12, <1>13

Air(rows, config) == Lower!Runs(rows, config, Lower!Contact(rows, "no_contact"))

Flown(rows, config) == UNION {Lower!BoutActions(rows, config, r[1], r[2]) : r \in Air(rows, config)}

Turned(rows, config, pivots) == {Lower!PivotAction(rows, config, p) : p \in pivots}

\* What moves and is in no pivot and no bout.
LeftOver(rows, config, pivots) ==
    {i \in DOMAIN rows : rows[i].moving}
        \ UNION {x.from..x.to : x \in Turned(rows, config, pivots) \cup Flown(rows, config)}

Remainder(rows, config, pivots) ==
    {Lower!Action(r[1], r[2], "unknown", {}, {}) :
        r \in Lower!Runs(rows, config, LeftOver(rows, config, pivots))}

LEMMA LegActionsAre ==
    ASSUME NEW rows, NEW config, NEW pivots
    PROVE  Lower!Actions(rows, config, pivots)
             = Turned(rows, config, pivots) \cup Flown(rows, config) \cup Remainder(rows, config, pivots)
  BY Zenon DEF Lower!Actions, Turned, Flown, Air, LeftOver, Remainder

\* What turned has no sample in the air.
LEMMA TurnedIs ==
    ASSUME NEW rows \in LegMotions, NEW config, NEW x \in Turned(rows, config, LegTurnsOf(rows))
    PROVE  /\ x.from \in Int /\ x.to \in Int /\ 1 <= x.from /\ x.from < x.to /\ x.to <= Len(rows)
           /\ x.category # "kick" /\ x.phases = {} /\ x.previous = {}
           /\ x.from..x.to \cap Lower!Contact(rows, "no_contact") = {}
           /\ \A y \in Turned(rows, config, LegTurnsOf(rows)) :
                x.from = y.from /\ x.to = y.to => x = y
<1>1. Len(rows) \in Nat /\ DOMAIN rows = 1..Len(rows)
  BY LegRowsAreTyped
<1>2. \A p \in LegTurnsOf(rows) :
        /\ p \in LegTurns /\ p.from \in Nat \ {0} /\ p.to \in Nat /\ p.from < p.to
        /\ p.to <= Len(rows) /\ \A i \in p.from..p.to : rows[i].contact # "no_contact"
  BY InputAssumption DEF LegTurnsOf
<1>3. \A p : LET action == Lower!PivotAction(rows, config, p) IN
        /\ action.from = p.from /\ action.to = p.to /\ action.category # "kick"
        /\ action.phases = {} /\ action.previous = {}
  BY DEF Lower!PivotAction, Lower!Action
<1>4. \A y \in Turned(rows, config, LegTurnsOf(rows)) :
        \E p \in LegTurnsOf(rows) : y = Lower!PivotAction(rows, config, p)
  BY DEF Turned
<1>5. PICK p \in LegTurnsOf(rows) : x = Lower!PivotAction(rows, config, p)
  BY <1>4
<1>6. x.from = p.from /\ x.to = p.to /\ x.category # "kick" /\ x.phases = {} /\ x.previous = {}
  BY <1>3, <1>5
<1>7. x.from..x.to \cap Lower!Contact(rows, "no_contact") = {}
  BY <1>2, <1>6 DEF Lower!Contact
<1>8. ASSUME NEW y \in Turned(rows, config, LegTurnsOf(rows)), x.from = y.from, x.to = y.to
      PROVE  x = y
  <2>1. PICK q \in LegTurnsOf(rows) : y = Lower!PivotAction(rows, config, q)
    BY <1>4
  <2>2. y.from = q.from /\ y.to = q.to
    BY <1>3, <2>1
  <2>3. p = q
    BY <1>2, <1>6, <1>8, <2>2, InputAssumption
  <2> QED
    BY <1>5, <2>1, <2>3
<1>9. x.from \in Int /\ x.to \in Int /\ 1 <= x.from /\ x.from < x.to /\ x.to <= Len(rows)
  BY <1>1, <1>2, <1>6
<1> QED
  BY <1>6, <1>7, <1>8, <1>9

\* A bout is in the air, and what it is says all of it.
LEMMA FlownIs ==
    ASSUME NEW rows \in LegMotions, NEW config \in LegConfigs, NEW r \in Air(rows, config)
    PROVE  /\ r[1] \in 1..Len(rows) /\ r[2] \in 1..Len(rows) /\ r[1] < r[2]
           /\ r[1]..r[2] \subseteq Lower!Contact(rows, "no_contact")
           /\ BoutIsExplained(rows, Lower!BoutActions(rows, config, r[1], r[2]), r[1], r[2])
<1> DEFINE samples == Lower!Contact(rows, "no_contact")
<1>1. Len(rows) \in Nat /\ samples \subseteq 1..Len(rows)
  BY LegRowsAreTyped DEF Lower!Contact
<1>2. samples \in SUBSET Int
  BY <1>1
<1>3. r \in Lower!Runs(rows, config, samples)
  BY DEF Air
<1> HIDE DEF samples
<1>4. r \in samples \X samples /\ r[1] < r[2] /\ r[1]..r[2] \subseteq samples
  BY <1>2, <1>3, LegRunsAre DEF Joined
<1>5. r[1] \in 1..Len(rows) /\ r[2] \in 1..Len(rows)
  BY <1>1, <1>4
<1>6. BoutIsExplained(rows, Lower!BoutActions(rows, config, r[1], r[2]), r[1], r[2])
  BY <1>4, <1>5, BoutsAreExplained
<1> QED
  BY <1>4, <1>5, <1>6 DEF samples

\* Two bouts are apart, and one that has a placement begins after a contact.
LEMMA FlownAreApart ==
    ASSUME NEW rows \in LegMotions, NEW config \in LegConfigs,
           NEW q \in Air(rows, config), NEW r \in Air(rows, config),
           NEW x \in Lower!BoutActions(rows, config, q[1], q[2]),
           NEW y \in Lower!BoutActions(rows, config, r[1], r[2]),
           q[1] < r[1]
    PROVE  x.from # y.from
<1> DEFINE samples == Lower!Contact(rows, "no_contact")
<1>1. samples \in SUBSET Int
  BY LegRowsAreTyped DEF Lower!Contact
<1>2. /\ q \in Lower!Runs(rows, config, samples) /\ r \in Lower!Runs(rows, config, samples)
  BY DEF Air
<1>3. /\ q[1] \in 1..Len(rows) /\ q[2] \in 1..Len(rows) /\ q[1] < q[2]
      /\ q[1]..q[2] \subseteq samples
      /\ r[1] \in 1..Len(rows) /\ r[2] \in 1..Len(rows)
      /\ BoutIsExplained(rows, Lower!BoutActions(rows, config, q[1], q[2]), q[1], q[2])
      /\ BoutIsExplained(rows, Lower!BoutActions(rows, config, r[1], r[2]), r[1], r[2])
  BY FlownIs
<1>4. /\ x.from \in Int /\ x.from <= q[2]
      /\ y.from \in Int /\ r[1] - 1 <= y.from
      /\ y.from = r[1] - 1 => r[1] - 1 \in Lower!Contact(rows, "contact")
  BY <1>3 DEF BoutIsExplained
<1>5. q[2] < r[1]
  <2> HIDE DEF samples
  <2> QED
    BY <1>1, <1>2, LegRunsAreApart
<1>6. Len(rows) \in Nat
  BY LegRowsAreTyped
<1>7. ASSUME x.from = y.from PROVE FALSE
  <2>1. y.from = r[1] - 1 /\ q[2] = r[1] - 1 /\ q[2] \in q[1]..q[2]
    BY <1>3, <1>4, <1>5, <1>6, <1>7
  <2>2. q[2] \in Lower!Contact(rows, "contact") /\ q[2] \in Lower!Contact(rows, "no_contact")
    BY <1>3, <1>4, <2>1
  <2> QED
    BY <2>2 DEF Lower!Contact
<1> QED
  BY <1>7

\* What is left is outside of every action there is.
LEMMA RemainderIs ==
    ASSUME NEW rows \in LegMotions, NEW config, NEW pivots,
           NEW x \in Remainder(rows, config, pivots)
    PROVE  /\ x.from \in Int /\ x.to \in Int /\ 1 <= x.from /\ x.from < x.to /\ x.to <= Len(rows)
           /\ x.category = "unknown" /\ x.phases = {} /\ x.previous = {}
           /\ x.from \in LeftOver(rows, config, pivots)
           /\ \A y \in Remainder(rows, config, pivots) : x.from = y.from => x = y
<1> DEFINE samples == LeftOver(rows, config, pivots)
<1>1. Len(rows) \in Nat /\ samples \subseteq 1..Len(rows)
  BY LegRowsAreTyped DEF LeftOver
<1>2. samples \in SUBSET Int
  BY <1>1
<1> HIDE DEF samples
<1>3. \A y \in Remainder(rows, config, pivots) :
        \E r \in Lower!Runs(rows, config, samples) : y = Lower!Action(r[1], r[2], "unknown", {}, {})
  BY DEF Remainder, samples
<1>4. PICK r \in Lower!Runs(rows, config, samples) : x = Lower!Action(r[1], r[2], "unknown", {}, {})
  BY <1>3
<1>5. /\ x.from = r[1] /\ x.to = r[2] /\ x.category = "unknown" /\ x.phases = {} /\ x.previous = {}
  BY <1>4 DEF Lower!Action
<1>6. r \in samples \X samples /\ r[1] < r[2]
  BY <1>2, LegRunsAre
<1>7. ASSUME NEW y \in Remainder(rows, config, pivots), x.from = y.from PROVE x = y
  <2>1. PICK q \in Lower!Runs(rows, config, samples) : y = Lower!Action(q[1], q[2], "unknown", {}, {})
    BY <1>3
  <2>2. q[1] = r[1]
    BY <1>5, <1>7, <2>1 DEF Lower!Action
  <2>3. q = r
    BY <1>2, <2>2, LegRunsAreApart
  <2> QED
    BY <1>4, <2>1, <2>3
<1>8. r[1] \in 1..Len(rows) /\ r[2] \in 1..Len(rows) /\ r[1] \in samples
  BY <1>1, <1>6
<1>9. x.from \in Int /\ x.to \in Int /\ 1 <= x.from /\ x.from < x.to /\ x.to <= Len(rows)
  BY <1>1, <1>5, <1>6, <1>8
<1> QED
  BY <1>5, <1>7, <1>8, <1>9 DEF samples

\* Nothing that was said of a leg is said twice.
LEMMA LegIdsAreUnique ==
    ASSUME NEW rows \in LegMotions, NEW config \in LegConfigs,
           NEW x \in Lower!Actions(rows, config, LegTurnsOf(rows)),
           NEW y \in Lower!Actions(rows, config, LegTurnsOf(rows)),
           Lower!Id(x) = Lower!Id(y)
    PROVE  x = y
<1> DEFINE pivots == LegTurnsOf(rows)
           Covered(z) == z \in Turned(rows, config, pivots) \cup Flown(rows, config)
<1>1. \A z \in {x, y} : Covered(z) \/ z \in Remainder(rows, config, pivots)
  BY LegActionsAre
<1>2. x.category = y.category /\ x.from = y.from /\ x.to = y.to
  BY DEF Lower!Id
<1>3. ASSUME NEW v \in {x, y}, NEW w \in {x, y}, v.from = w.from, v.to = w.to,
             Covered(v), w \in Remainder(rows, config, pivots)
      PROVE  FALSE
  <2>1. w.from \in Int /\ w.to \in Int /\ w.from < w.to /\ w.from \in LeftOver(rows, config, pivots)
    BY <1>3, RemainderIs
  <2>2. w.from \in v.from..v.to
    BY <1>3, <2>1
  <2> QED
    BY <1>3, <2>1, <2>2 DEF LeftOver
<1>4. ASSUME NEW v \in {x, y}, NEW w \in {x, y}, v.from = w.from, v.to = w.to,
             v \in Turned(rows, config, pivots), w \in Flown(rows, config)
      PROVE  FALSE
  <2>1. v.from..v.to \cap Lower!Contact(rows, "no_contact") = {}
    BY <1>4, TurnedIs
  <2>2. PICK r \in Air(rows, config) : w \in Lower!BoutActions(rows, config, r[1], r[2])
    BY <1>4 DEF Flown
  <2>3. /\ r[1]..r[2] \subseteq Lower!Contact(rows, "no_contact")
        /\ BoutIsExplained(rows, Lower!BoutActions(rows, config, r[1], r[2]), r[1], r[2])
        /\ r[1] \in 1..Len(rows) /\ r[2] \in 1..Len(rows)
    BY FlownIs
  <2>4. /\ w.from \in Int /\ w.to \in Int
        /\ \E i \in r[1]..r[2] : w.from <= i /\ i <= w.to
    BY <2>2, <2>3 DEF BoutIsExplained
  <2>5. PICK i \in r[1]..r[2] : w.from <= i /\ i <= w.to
    BY <2>4
  <2>6. i \in v.from..v.to /\ i \in Lower!Contact(rows, "no_contact")
    BY <1>4, <2>3, <2>4, <2>5
  <2> QED
    BY <2>1, <2>6
<1>5. CASE x \in Turned(rows, config, pivots) /\ y \in Turned(rows, config, pivots)
  BY <1>2, <1>5, TurnedIs
<1>6. CASE x \in Flown(rows, config) /\ y \in Flown(rows, config)
  <2>1. PICK q \in Air(rows, config) : x \in Lower!BoutActions(rows, config, q[1], q[2])
    BY <1>6 DEF Flown
  <2>2. PICK r \in Air(rows, config) : y \in Lower!BoutActions(rows, config, r[1], r[2])
    BY <1>6 DEF Flown
  <2>3. /\ q[1] \in 1..Len(rows) /\ r[1] \in 1..Len(rows)
        /\ BoutIsExplained(rows, Lower!BoutActions(rows, config, r[1], r[2]), r[1], r[2])
    BY FlownIs
  <2>4. ~(q[1] < r[1]) /\ ~(r[1] < q[1])
    BY <1>2, <2>1, <2>2, FlownAreApart
  <2>5. q[1] = r[1]
    BY <2>3, <2>4, LegRowsAreTyped
  <2>6. q = r
    <3>1. Lower!Contact(rows, "no_contact") \in SUBSET Int
      BY LegRowsAreTyped DEF Lower!Contact
    <3> QED
      BY <2>5, <3>1, LegRunsAreApart DEF Air
  <2> QED
    BY <1>2, <2>1, <2>2, <2>3, <2>6 DEF BoutIsExplained
<1>7. CASE x \in Remainder(rows, config, pivots) /\ y \in Remainder(rows, config, pivots)
  BY <1>2, <1>7, RemainderIs
<1> QED
  BY <1>1, <1>2, <1>3, <1>4, <1>5, <1>6, <1>7

LEMMA LegActionsAreAccepted ==
    ASSUME NEW rows \in LegMotions, NEW config \in LegConfigs
    PROVE  LET actions == Lower!Actions(rows, config, LegTurnsOf(rows)) IN
           /\ Lower!Accepted(rows, actions)
           /\ \A x \in actions : x.from \in Int /\ x.to \in Int
           /\ \A x \in actions : x.category = "kick" =>
                \A p, q \in x.phases : InSequence(p, q) => p.from <= q.from /\ p.to <= q.to
<1> DEFINE pivots == LegTurnsOf(rows)
           actions == Lower!Actions(rows, config, pivots)
           Fine(x) ==
             /\ x.from \in Int /\ x.to \in Int /\ 1 <= x.from /\ x.from < x.to /\ x.to <= Len(rows)
             /\ \A p \in x.phases : x.from <= p.from /\ p.from < p.to /\ p.to <= x.to
             /\ x.category = "kick" =>
                /\ KickNames \subseteq {p.name : p \in x.phases}
                /\ \A p, q \in x.phases : InSequence(p, q) => p.from <= q.from /\ p.to <= q.to
             /\ \A id \in x.previous : \E y \in actions : Lower!Id(y) = id /\ y.to <= x.from
<1>1. \A x, y \in actions : Lower!Id(x) = Lower!Id(y) => x = y
  BY LegIdsAreUnique
<1>2. actions = Turned(rows, config, pivots) \cup Flown(rows, config)
                  \cup Remainder(rows, config, pivots)
  BY LegActionsAre
<1> HIDE DEF actions
<1>3. ASSUME NEW x \in actions PROVE Fine(x)
  <2>1. CASE x \in Turned(rows, config, pivots)
    BY <2>1, TurnedIs
  <2>2. CASE x \in Remainder(rows, config, pivots)
    BY <2>2, RemainderIs
  <2>3. CASE x \in Flown(rows, config)
    <3>1. PICK r \in Air(rows, config) : x \in Lower!BoutActions(rows, config, r[1], r[2])
      BY <2>3 DEF Flown
    <3>2. BoutIsExplained(rows, Lower!BoutActions(rows, config, r[1], r[2]), r[1], r[2])
      BY FlownIs
    <3>3. Lower!BoutActions(rows, config, r[1], r[2]) \subseteq actions
      BY <1>2 DEF Flown
    <3> QED
      BY <3>1, <3>2, <3>3 DEF BoutIsExplained
  <2> QED
    BY <1>2, <2>1, <2>2, <2>3
<1>4. Lower!Accepted(rows, actions)
  BY <1>1, <1>3 DEF Lower!Accepted, KickNames
<1> QED
  BY <1>3, <1>4 DEF actions

LEMMA LegMovesAreSaid ==
    ASSUME NEW rows \in LegMotions, NEW config \in LegConfigs, NEW pivots,
           NEW i \in DOMAIN rows, i + 1 \in DOMAIN rows, rows[i].moving, rows[i + 1].moving,
           Lower!Close(rows, config, i, i + 1)
    PROVE  \E x \in Lower!Actions(rows, config, pivots) : x.from..x.to \cap {i, i + 1} # {}
<1> DEFINE samples == LeftOver(rows, config, pivots)
           Known == Turned(rows, config, pivots) \cup Flown(rows, config)
<1>1. Len(rows) \in Nat /\ samples \in SUBSET (1..Len(rows)) /\ i \in Int
  BY LegRowsAreTyped DEF LeftOver
<1>2. Lower!Actions(rows, config, pivots) = Known \cup Remainder(rows, config, pivots)
  BY LegActionsAre
<1>3. CASE i \in samples /\ i + 1 \in samples
  <2> HIDE DEF samples
  <2>1. PICK r \in Lower!Runs(rows, config, samples) : i \in r[1]..r[2]
    BY <1>1, <1>3, LegRunsCover
  <2> DEFINE x == Lower!Action(r[1], r[2], "unknown", {}, {})
  <2>2. x \in Remainder(rows, config, pivots)
    BY <2>1 DEF Remainder, samples
  <2>3. i \in x.from..x.to
    BY <2>1 DEF Lower!Action
  <2> QED
    BY <1>2, <2>2, <2>3
<1>4. CASE ~(i \in samples /\ i + 1 \in samples)
  <2>1. PICK j \in {i, i + 1} : j \in DOMAIN rows /\ rows[j].moving /\ j \notin samples
    BY <1>4
  <2>2. PICK x \in Known : j \in x.from..x.to
    BY <2>1 DEF LeftOver
  <2> HIDE DEF Known
  <2> QED
    BY <1>2, <2>1, <2>2
<1> QED
  BY <1>3, <1>4

LEMMA LegStancesAreClear ==
    ASSUME NEW rows \in LegMotions, NEW config, NEW pivots,
           NEW r \in Lower!Stances(rows, config, pivots),
           NEW x \in Lower!Actions(rows, config, pivots), x.from \in Int, x.to \in Int,
           x.from < x.to
    PROVE  x.to <= r[1] \/ r[2] <= x.from \/ x.to = x.from + 1
<1>1. PICK samples \in SUBSET DOMAIN rows :
        /\ r \in Lower!Runs(rows, config, samples)
        /\ \A i \in samples : ~\E y \in Lower!Actions(rows, config, pivots) : y.from < i /\ i < y.to
  <2> DEFINE samples == {i \in DOMAIN rows :
        /\ rows[i].contact = "contact" /\ rows[i].place # None
        /\ i > 1 => Lower!Close(rows, config, i - 1, i) /\ rows[i - 1].place = rows[i].place
        /\ ~\E y \in Lower!Actions(rows, config, pivots) : y.from < i /\ i < y.to}
  <2>1. r \in Lower!Runs(rows, config, samples)
    BY Zenon DEF Lower!Stances
  <2>2. \A i \in samples :
          ~\E y \in Lower!Actions(rows, config, pivots) : y.from < i /\ i < y.to
    OBVIOUS
  <2>3. samples \in SUBSET DOMAIN rows
    OBVIOUS
  <2> HIDE DEF samples
  <2> QED
    BY <2>1, <2>2, <2>3
<1>2. samples \in SUBSET Int
  BY <1>1, LegRowsAreTyped
<1>3. r[1] \in Int /\ r[2] \in Int /\ r[1] < r[2] /\ r[1]..r[2] \subseteq samples
  BY <1>1, <1>2, LegRunsAre DEF Joined
<1> SUFFICES ASSUME r[1] < x.to, x.from < r[2], x.from + 1 < x.to PROVE FALSE
  BY <1>3
<1>4. PICK i \in r[1]..r[2] : x.from < i /\ i < x.to
  <2>1. CASE r[1] <= x.from
    <3>1. x.from + 1 \in r[1]..r[2] /\ x.from < x.from + 1
      BY <1>3, <2>1
    <3> QED
      BY <3>1
  <2>2. CASE x.from < r[1]
    <3>1. r[1] \in r[1]..r[2]
      BY <1>3
    <3> QED
      BY <2>2, <3>1
  <2> QED
    BY <1>3, <2>1, <2>2
<1> QED
  BY <1>1, <1>3, <1>4

LEMMA LegsAreExplained ==
    ASSUME NEW rows \in LegMotions, NEW config \in LegConfigs
    PROVE  Lower!LegIsExplained(rows, config, LegTurnsOf(rows))
<1> DEFINE pivots == LegTurnsOf(rows)
           actions == Lower!Actions(rows, config, pivots)
           moved == {i \in DOMAIN rows : rows[i].moving}
<1>1. /\ Lower!Accepted(rows, actions)
      /\ \A x \in actions : x.from \in Int /\ x.to \in Int
      /\ \A x \in actions : x.category = "kick" =>
           \A p, q \in x.phases : InSequence(p, q) => p.from <= q.from /\ p.to <= q.to
  BY LegActionsAreAccepted
<1>2. ASSUME NEW r \in Lower!Runs(rows, config, Lower!Contact(rows, "no_contact")),
             NEW i \in r[1]..r[2]
      PROVE  \E x \in actions : i \in x.from..x.to
  <2>1. r \in Air(rows, config)
    BY DEF Air
  <2>2. PICK x \in Lower!BoutActions(rows, config, r[1], r[2]) : i \in x.from..x.to
    BY <2>1, FlownIs DEF BoutIsExplained
  <2>3. x \in actions
    <3>1. x \in Flown(rows, config)
      BY <2>1, <2>2 DEF Flown
    <3> QED
      BY <3>1, LegActionsAre
  <2> QED
    BY <2>2, <2>3
<1>3. ASSUME NEW i \in moved, i + 1 \in moved, Lower!Close(rows, config, i, i + 1)
      PROVE  \E x \in actions : x.from..x.to \cap {i, i + 1} # {}
  BY <1>3, LegMovesAreSaid
<1>4. ASSUME NEW r \in Lower!Stances(rows, config, pivots), NEW x \in actions
      PROVE  x.to <= r[1] \/ r[2] <= x.from \/ x.to = x.from + 1
  <2>1. x.from \in Int /\ x.to \in Int /\ x.from < x.to
    BY <1>1 DEF Lower!Accepted
  <2> QED
    BY <2>1, LegStancesAreClear
<1> HIDE DEF actions
<1> QED
  BY <1>1, <1>2, <1>3, <1>4 DEF Lower!LegIsExplained, InSequence, actions

-----------------------------------------------------------------------------
(* Of every input that is legal.                                           *)

\* In a video of any length, with any people, frames out of order and operators'
\* choices, and for every configuration: a published pair of wrists is crossed with
\* the pair before it only if one of the four was fainter than what is compared, and
\* the configuration publishes as faint ones; the practitioner is selected in order
\* of time, and without an operator goes on from the last selection, within the gap
\* and closest of all in the frame (pose/stream.py).
THEOREM SidesAreNeverCrossed == Legal => SidesNeverCross
  BY SidesAreKeptApart, InputAssumption DEF Legal, SidesNeverCross

\* What is said of a foot rests on evidence, for samples of any number in the order
\* of their times and thresholds that the configurations accept: contact that is
\* reported was earned by new evidence for the whole dwell, placements and pivots
\* are disjoint stretches of it that a gap does not cross, and nothing that could be
\* placed is left out (ground/core.py:251-375, footprints/core.py:430-501,
\* pivots/core.py:255-352).
THEOREM FeetAlwaysRestOnEvidence == Legal => FeetRestOnEvidence
<1>1. Halves
  <2>1. Turn \div 2 \in Nat \ {0} /\ Turn = 2 * (Turn \div 2)
    BY InputAssumption
  <2> QED
    BY <2>1 DEF Halves
<1>2. ASSUME NEW rows \in Motions PROVE F!FeetRestOnEvidence(rows, Floor)
  BY <1>1, <1>2, InputAssumption, ContactIsAlwaysEarned, PlacementIsAlwaysEarned, PivotIsAlwaysEarned
     DEF F!FeetRestOnEvidence
<1> QED
  BY <1>2 DEF Legal, FeetRestOnEvidence

\* A physical event lies inside evidence that the clock has no gap in, in series of
\* any measurements and of any length: a bout begins and ends at rest, moves fast in
\* between and shares at most a rest with the next one, a foot that lands was in the
\* air and one that leaves was on the ground, no two of one kind share what they rest
\* on, and forearms that cross were seen apart (reconstruction/features/core.py).
THEOREM EventsAreAlwaysEarned == Legal => EventsAreEarned
<1> SUFFICES ASSUME Legal, subject = "features" PROVE E!EventsAreEarned(input, TurnsOf(input), Feature)
  BY DEF EventsAreEarned
<1>1. input \in Measurements
  BY DEF Legal
<1>2. \A p \in TurnsOf(input) : p[1] \in 1..Len(input) /\ p[2] \in p[1]..Len(input)
  <2>1. Len(input) \in Nat
    BY <1>1, MeasuresAreTyped
  <2>2. ASSUME NEW p \in TurnsOf(input) PROVE p[1] \in Nat \ {0} /\ p[2] \in Nat /\ p[1] <= p[2] /\ p[2] <= Len(input)
    BY InputAssumption DEF TurnsOf
  <2> QED
    BY <2>1, <2>2
<1>3. Feature \in FeatureConfigs
  BY InputAssumption
<1> DEFINE pivots == TurnsOf(input)
<1> HIDE DEF pivots
<1>4. E!EventsAreEarned(input, pivots, Feature)
  BY <1>1, <1>2, <1>3, EventsRestOnEvidence DEF pivots
<1> QED
  BY <1>4 DEF pivots

\* An execution that is proposed is tiled by steps that the contracts accept, for
\* recordings of any length: no bout of movement is cut in two or left out, no step
\* begins with a foot in the air, and what follows the last movement is quiet
\* (reconstruction/segmentation/core.py).
THEOREM StepsAreAlwaysWhole == Legal => StepsAreWhole
  BY StepsAreWholeInTheEnd, InputAssumption DEF Legal, StepsAreWhole

\* However many sources there are, whatever their cues say and whoever was revised:
\* the reference is at zero, the sources that nobody revised stand as the reliable
\* cues of each pair of them say, and a revision moves nobody but its source
\* (sync/solver.py).
THEOREM ClockIsAlwaysOne == Legal => OneTimeline
  BY TimelineIsOne DEF Legal, OneTimeline

\* However long a recording of the arms is: an arm is in one action at a time, an
\* action is of arms that move at both ends and were neither lost nor at rest in
\* between, a motion is in no two actions, and the phases of a motion, of whatever
\* events there are, last and lie in it (reconstruction/arms/core.py).
THEOREM ArmsAreAlwaysTheirOwn == Legal => ArmsAreTheirOwn
<1>1. \A rows : ArmEventsOf(rows) \in SUBSET ArmEvents
  BY DEF ArmEventsOf
<1> QED
  BY <1>1, ArmsKeepTheirOwn, InputAssumption DEF Legal, ArmsAreTheirOwn

\* Whatever evidence is missing, the parser's own contract accepts what it
\* says of a leg, nothing that flew or moved goes unsaid, the phases of a kick
\* follow one another and a stance spans no action (lower_body/core.py), for
\* every motion, set of pivots and configuration the code accepts.
THEOREM LegIsAlwaysExplained == Legal => LegIsExplained
  BY LegsAreExplained, InputAssumption DEF Legal, LegIsExplained

=============================================================================
